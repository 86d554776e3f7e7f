------------------------- MODULE PostgresStorageProofs -------------------------
(***************************************************************************)
(* Proofs about what runs on the PostgreSQL sessions, for any number of    *)
(* migrating processes, repository calls, sessions and faults: the ledger  *)
(* tells what has run, and what a call has reported is stored.             *)
(***************************************************************************)
EXTENDS PostgresStorage, WellFoundedInduction, TLAPS

-----------------------------------------------------------------------------
(* Types. *)

Holding == {"ensure", "ledger", "begin", "sql", "record", "apply", "unlock"}
MigratorPlaces == {"lock"} \cup Holding \cup Over
Appending == {"run", "last", "commit", "rollback"}
RepositoryPlaces == {"begin", "find", "insert"} \cup Appending \cup Over

CallRow == [at : MigratorPlaces \cup RepositoryPlaces, job : Jobs \cup {None},
            dir : Directories \cup {<<>>}, todo : SUBSET Nat, applied : SUBSET Nat,
            result : {"ok", "error", "migration_failed", "checksum_mismatch", None}]

\* A row is what its four fields say.
IsRow(r) == r = [table |-> r.table, key |-> r.key, val |-> r.val, by |-> r.by]
Repository == {"runs", "event", "manifest"}

TypeOK ==
    /\ \A r \in db : IsRow(r)
    /\ DOMAIN own = Sessions
    /\ tx \in [Sessions -> Callers \cup {None}]
    /\ lock \in Sessions \cup {None}
    /\ status \in [Sessions -> {"open", "quitting", "closed"}]
    /\ queue \in [Sessions -> Seq(Callers)]
    /\ call \in [Callers -> CallRow]

-----------------------------------------------------------------------------
(* The inductive invariant. *)

\* Committed rows of the ledger and of the schema come in pairs.
Paired ==
    \A r \in db :
       /\ r.table = "schema" => [r EXCEPT !.table = "ledger"] \in db
       /\ r.table = "ledger" => [r EXCEPT !.table = "schema"] \in db

OncePerVersion == \A r, q \in Rows("ledger") : r.key = q.key => r = q

NoneSkipped ==
    \A r \in Rows("ledger") : \A v \in 1 .. r.key : \E q \in Rows("ledger") : q.key = v

\* Only the calls of a session wait on it; a transaction is that of a call of
\* its session; what it has written is not there without it.
SessionInv ==
    \A s \in Sessions :
       /\ \A i \in DOMAIN queue[s] : SessionOf[queue[s][i]] = s
       /\ tx[s] = None => own[s] = {}
       /\ tx[s] # None => SessionOf[tx[s]] = s
       /\ status[s] = "closed" => tx[s] = None
       /\ status[s] = "quitting" => \E c \in Migrators : SessionOf[c] = s

Recorded(v) == \E r \in Rows("ledger") : r.key = v

\* A migrator on an open session: from the lock on it is the only one, its
\* transaction holds what it has run of one version, and that version is the
\* first of those that the ledger does not have.
MigratorInv(c) ==
    LET s == SessionOf[c] IN
    /\ call[c].at \in MigratorPlaces
    /\ status[s] = "quitting" => call[c].at = "done"
    /\ status[s] = "open" =>
          /\ call[c].at \in Holding => lock = s
          /\ call[c].at \notin {"sql", "record", "apply"} => tx[s] = None
          /\ call[c].at \in {"sql", "record", "apply"} => tx[s] = c
          /\ call[c].at = "sql" => own[s] = {}
          /\ call[c].at = "record" => own[s] = {Row(c, "schema")}
          /\ call[c].at = "apply" => own[s] = {Row(c, "schema"), Row(c, "ledger")}
          /\ call[c].at \in {"begin", "sql", "record", "apply"} =>
                /\ call[c].todo # {} /\ call[c].todo \subseteq DOMAIN call[c].dir
                /\ \A v \in DOMAIN call[c].dir : v \in call[c].todo <=> ~Recorded(v)

\* A repository call on an open session: as long as no statement has run
\* inside another's transaction, an append has its own.
RepositoryInv(c) ==
    LET s == SessionOf[c] IN
    /\ call[c].at \in RepositoryPlaces
    /\ call[c].at \notin Over \/ call[c].result = "ok" => call[c].job \in Jobs
    /\ call[c].at \in {"begin"} \cup Appending => call[c].job.kind = "event"
    /\ call[c].at = "find" => call[c].job.kind = "manifest"
    /\ \A r \in own[s] : IsRow(r) /\ r.table \in Repository
    /\ status[s] = "open" =>
          /\ tx[s] = c => call[c].at \in {"insert"} \cup Appending /\ call[c].job.kind = "event"
          /\ s \notin overlapped =>
                /\ call[c].at \in Appending => tx[s] = c
                /\ call[c].at = "insert" /\ call[c].job.kind = "event" => tx[s] = c
                /\ call[c].at = "commit" => NewRow(c) \in own[s]
    /\ call[c].result = "ok" /\ s \notin overlapped =>
          \E r \in db : SameKey(r, NewRow(c)) /\ r.val = NewRow(c).val

AppliedInv(c) == \A v \in call[c].applied : \E r \in Rows("ledger") : r.key = v /\ r.by = c

IInv ==
    /\ TypeOK
    /\ Paired /\ OncePerVersion /\ NoneSkipped
    /\ SessionInv
    /\ \A c \in Migrators : MigratorInv(c)
    /\ \A c \in Callers \ Migrators : RepositoryInv(c)
    /\ \A c \in Callers : AppliedInv(c)

Ledgers == Paired /\ OncePerVersion /\ NoneSkipped

-----------------------------------------------------------------------------
(* Lemmas about the operators of the model. *)

LEMMA NatBelow == \A x, y \in Nat : <<y, x>> \in OpToRel(<, Nat) <=> y < x
BY Zenon DEF OpToRel

\* A set of naturals has the least element that Min chooses.
LEMMA MinIs ==
    ASSUME NEW S \in SUBSET Nat, S # {}
    PROVE  Min(S) \in S /\ \A y \in S : Min(S) =< y
<1>. DEFINE R == OpToRel(<, Nat)
<1>1. PICK x \in S : \A y \in S : ~(<<y, x>> \in R)
  <2>1. IsWellFoundedOn(R, Nat)  BY NatLessThanWellFounded
  <2>. HIDE DEF R
  <2>. QED  BY <2>1, WFMin
<1>2. \A y \in S : ~(y < x)  BY <1>1, NatBelow, Zenon
<1>3. \A y \in S : x =< y
  <2>. HIDE DEF R
  <2>. QED  BY <1>2
<1>. QED  BY <1>3 DEF Min

\* The version at hand is the first that the ledger does not have.
LEMMA VersionIs ==
    ASSUME IInv, NEW c \in Migrators, status[SessionOf[c]] = "open",
           call[c].at \in {"begin", "sql", "record", "apply"}
    PROVE  /\ Version(c) \in call[c].todo
           /\ Version(c) \in Nat \ {0}
           /\ ~Recorded(Version(c))
           /\ \A v \in 1 .. Version(c) : v = Version(c) \/ Recorded(v)
<1>1. c \in Callers /\ call[c] \in CallRow  BY JobShape DEF IInv, TypeOK
<1>2. /\ call[c].todo # {} /\ call[c].todo \subseteq DOMAIN call[c].dir
      /\ \A v \in DOMAIN call[c].dir : v \in call[c].todo <=> ~Recorded(v)
  BY DEF IInv, MigratorInv
<1>3. call[c].todo \in SUBSET Nat  BY <1>1 DEF CallRow
<1>4. Version(c) \in call[c].todo /\ \A v \in call[c].todo : Version(c) =< v
  BY <1>2, <1>3, MinIs DEF Version
<1>5. call[c].dir \in Directories
  <2>1. call[c].dir \in Directories \cup {<< >>}  BY <1>1 DEF CallRow
  <2>2. DOMAIN << >> = {}  OBVIOUS
  <2>. QED  BY <1>2, <2>1, <2>2
<1>6. Version(c) \in Nat \ {0} /\ 1 .. Version(c) \subseteq DOMAIN call[c].dir
  BY <1>2, <1>4, <1>5, JobShape
<1>7. \A v \in 1 .. Version(c) : v < Version(c) => v \notin call[c].todo
  BY <1>3, <1>4, <1>6
<1>. QED  BY <1>2, <1>4, <1>6, <1>7

LEMMA RowIs ==
    ASSUME NEW c, NEW table
    PROVE  /\ IsRow(Row(c, table))
           /\ Row(c, table).table = table /\ Row(c, table).key = Version(c)
           /\ Row(c, table).by = c
           /\ [Row(c, table) EXCEPT !.table = "ledger"] = Row(c, "ledger")
           /\ [Row(c, table) EXCEPT !.table = "schema"] = Row(c, "schema")
BY DEF IsRow, Row

LEMMA NewRowIs ==
    ASSUME NEW c, call[c].job \in Jobs
    PROVE  IsRow(NewRow(c)) /\ NewRow(c).table \in Repository
BY JobShape DEF IsRow, NewRow, Repository

\* What a migrator runs and what a call inserts stay the same as long as its
\* version and its job do.
LEMMA SameRows ==
    ASSUME NEW c
    PROVE  /\ call'[c].todo = call[c].todo /\ call'[c].dir = call[c].dir =>
                 Row(c, "schema")' = Row(c, "schema") /\ Row(c, "ledger")' = Row(c, "ledger")
           /\ call'[c].job = call[c].job => NewRow(c)' = NewRow(c)
BY DEF Row, Version, File, NewRow

\* Rows of the repositories leave the ledger and the schema alone.
LEMMA AddsRepository ==
    ASSUME IInv, NEW K, db' = db \cup K,
           \A r \in K : IsRow(r) /\ r.table \in Repository
    PROVE  /\ \A r \in db' : IsRow(r)
           /\ Ledgers'
           /\ Rows("ledger")' = Rows("ledger")
<1>1. \A r \in K : r.table # "ledger" /\ r.table # "schema"  BY DEF Repository
<1>2. Rows("ledger")' = Rows("ledger")  BY <1>1 DEF Rows
<1>3. \A r \in db' : IsRow(r)  BY DEF IInv, TypeOK
<1>4. Paired'  BY <1>1 DEF IInv, Paired
<1>5. OncePerVersion' /\ NoneSkipped'  BY <1>2 DEF IInv, OncePerVersion, NoneSkipped
<1>. QED  BY <1>2, <1>3, <1>4, <1>5 DEF Ledgers

\* A commit of a migration adds the one pair of its version.
LEMMA CommitsVersion ==
    ASSUME IInv, NEW c \in Migrators, status[SessionOf[c]] = "open",
           call[c].at = "apply", db' = db \cup own[SessionOf[c]]
    PROVE  /\ \A r \in db' : IsRow(r)
           /\ Ledgers'
           /\ Rows("ledger")' = Rows("ledger") \cup {Row(c, "ledger")}
<1>1. db' = db \cup {Row(c, "schema"), Row(c, "ledger")}  BY DEF IInv, MigratorInv
<1>2. Rows("ledger")' = Rows("ledger") \cup {Row(c, "ledger")}  BY <1>1, RowIs DEF Rows
<1>3. \A r \in db' : IsRow(r)  BY <1>1, RowIs DEF IInv, TypeOK
<1>4. Paired'
  <2>. SUFFICES ASSUME NEW r \in db'
                PROVE  /\ r.table = "schema" => [r EXCEPT !.table = "ledger"] \in db'
                       /\ r.table = "ledger" => [r EXCEPT !.table = "schema"] \in db'
    BY DEF Paired
  <2>1. CASE r \in db  BY <1>1, <2>1 DEF IInv, Paired
  <2>2. CASE r = Row(c, "schema")  BY <1>1, <2>2, RowIs
  <2>3. CASE r = Row(c, "ledger")  BY <1>1, <2>3, RowIs
  <2>. QED  BY <1>1, <2>1, <2>2, <2>3
<1>5. OncePerVersion'
  <2>1. \A r \in Rows("ledger") : r.key # Row(c, "ledger").key
    BY VersionIs, RowIs DEF Recorded
  <2>. QED  BY <1>2, <2>1 DEF IInv, OncePerVersion
<1>6. NoneSkipped'
  <2>1. \A v \in 1 .. Row(c, "ledger").key : \E q \in Rows("ledger")' : q.key = v
    BY <1>2, VersionIs, RowIs DEF Recorded
  <2>. QED  BY <1>2, <2>1 DEF IInv, NoneSkipped
<1>. QED  BY <1>2, <1>3, <1>4, <1>5, <1>6 DEF Ledgers

-----------------------------------------------------------------------------
(* Who is not touched by a step. *)

\* A step on one session leaves the calls on others what they know; only the
\* holder of the advisory lock writes the ledger.
LEMMA OtherSessions ==
    ASSUME IInv, NEW s \in Sessions, db \subseteq db', overlapped \subseteq overlapped',
           \A t \in Sessions \ {s} :
              own'[t] = own[t] /\ tx'[t] = tx[t] /\ status'[t] = status[t]
              /\ (lock = t => lock' = t),
           Rows("ledger")' = Rows("ledger") \/ lock = s,
           NEW d \in Callers, SessionOf[d] # s, call'[d] = call[d]
    PROVE  /\ d \in Migrators => MigratorInv(d)'
           /\ d \notin Migrators => RepositoryInv(d)'
           /\ AppliedInv(d)'
<1>. DEFINE t == SessionOf[d]
<1>1. t \in Sessions \ {s}  BY SessionAssumption
<1>2. /\ own'[t] = own[t] /\ tx'[t] = tx[t] /\ status'[t] = status[t]
      /\ lock = t => lock' = t /\ Rows("ledger")' = Rows("ledger")
  BY <1>1
<1>3. Rows("ledger") \subseteq Rows("ledger")'  BY DEF Rows
<1>4. AppliedInv(d)'  BY <1>3 DEF IInv, AppliedInv
<1>5. /\ Row(d, "schema")' = Row(d, "schema") /\ Row(d, "ledger")' = Row(d, "ledger")
      /\ NewRow(d)' = NewRow(d)
  BY SameRows
<1>6. ASSUME d \in Migrators  PROVE MigratorInv(d)'
  <2>1. MigratorInv(d)  BY <1>6 DEF IInv
  <2>2. status[t] = "open" /\ call[d].at \in Holding => Rows("ledger")' = Rows("ledger")
    BY <1>2, <2>1 DEF MigratorInv
  <2>3. status[t] = "open" /\ call[d].at \in Holding => \A v : Recorded(v)' <=> Recorded(v)
    BY <2>2 DEF Recorded
  <2>. QED  BY <1>2, <1>5, <2>1, <2>3 DEF MigratorInv, Holding
<1>7. ASSUME d \notin Migrators  PROVE RepositoryInv(d)'
  BY <1>2, <1>5, <1>7 DEF IInv, RepositoryInv
<1>. QED  BY <1>4, <1>6, <1>7

\* A repository call that shares the session of the step.
LEMMA Colleague ==
    ASSUME IInv, NEW d \in Callers \ Migrators, call'[d] = call[d],
           db \subseteq db', overlapped \subseteq overlapped',
           \A r \in own'[SessionOf[d]] : IsRow(r) /\ r.table \in Repository,
           status'[SessionOf[d]] = "open" =>
              /\ status[SessionOf[d]] = "open"
              /\ tx'[SessionOf[d]] = d => tx[SessionOf[d]] = d
              /\ SessionOf[d] \in overlapped' \/ tx[SessionOf[d]] # d
    PROVE  RepositoryInv(d)' /\ AppliedInv(d)'
<1>1. Rows("ledger") \subseteq Rows("ledger")'  BY DEF Rows
<1>2. AppliedInv(d)'  BY <1>1 DEF IInv, AppliedInv
<1>3. NewRow(d)' = NewRow(d)  BY SameRows
<1>4. RepositoryInv(d)  BY DEF IInv
<1>5. status'[SessionOf[d]] = "open" /\ SessionOf[d] \notin overlapped' =>
         /\ call[d].at \notin Appending
         /\ ~(call[d].at = "insert" /\ call[d].job.kind = "event")
  BY <1>4 DEF RepositoryInv
<1>6. "commit" \in Appending  BY DEF Appending
<1>7. call[d].result = "ok" /\ SessionOf[d] \notin overlapped' =>
         \E r \in db' : SameKey(r, NewRow(d)) /\ r.val = NewRow(d).val
  BY <1>4 DEF RepositoryInv
<1>8. status'[SessionOf[d]] = "open" /\ tx'[SessionOf[d]] = d =>
         call[d].at \in {"insert"} \cup Appending /\ call[d].job.kind = "event"
  BY <1>4 DEF RepositoryInv
<1>9. RepositoryInv(d)'
  BY <1>3, <1>4, <1>5, <1>6, <1>7, <1>8 DEF RepositoryInv, SameKey
<1>. QED  BY <1>2, <1>9

-----------------------------------------------------------------------------
(* A statement and its answer. *)

\* The queue of a session after an answer, and what the answer notes.
LEMMA AnswerIs ==
    ASSUME IInv, NEW c \in Callers, Pending(c), NEW more \in BOOLEAN, Answered(c, more)
    PROVE  /\ queue' \in [Sessions -> Seq(Callers)]
           /\ \A t \in Sessions : \A i \in DOMAIN queue'[t] : SessionOf[queue'[t][i]] = t
           /\ UNCHANGED status
           /\ overlapped \subseteq overlapped'
           /\ SessionOf[c] \notin overlapped' => tx[SessionOf[c]] \in {None, c}
<1>. DEFINE s == SessionOf[c]
            q == queue[s]
            p == IF more THEN Append(Tail(q), c) ELSE Tail(q)
<1>1. /\ s \in Sessions /\ q \in Seq(Callers) /\ q # << >>
      /\ queue' = [queue EXCEPT ![s] = p]
      /\ queue \in [Sessions -> Seq(Callers)]
  BY SessionAssumption DEF IInv, TypeOK, Pending, Answered
<1>2. /\ Tail(q) \in Seq(Callers) /\ Len(Tail(q)) = Len(q) - 1
      /\ \A i \in 1 .. Len(Tail(q)) : Tail(q)[i] = q[i + 1]
  BY <1>1
<1>3. \A i \in DOMAIN q : SessionOf[q[i]] = s  BY <1>1 DEF IInv, SessionInv
<1>4. \A i \in 1 .. Len(Tail(q)) : SessionOf[Tail(q)[i]] = s  BY <1>1, <1>2, <1>3
<1>5. p \in Seq(Callers) /\ \A i \in DOMAIN p : SessionOf[p[i]] = s
  <2>1. CASE more
    <3>. DEFINE T == Tail(q)
    <3>1. T \in Seq(Callers) /\ \A i \in 1 .. Len(T) : SessionOf[T[i]] = s  BY <1>2, <1>4
    <3>. HIDE DEF T
    <3>2. /\ Append(T, c) \in Seq(Callers)
          /\ DOMAIN Append(T, c) = 1 .. Len(T) + 1 /\ Len(T) \in Nat
          /\ \A i \in 1 .. Len(T) : Append(T, c)[i] = T[i]
          /\ Append(T, c)[Len(T) + 1] = c
      BY <3>1
    <3>3. \A i \in DOMAIN Append(T, c) : SessionOf[Append(T, c)[i]] = s  BY <3>1, <3>2
    <3>4. p = Append(T, c)  BY <2>1 DEF T
    <3>. QED  BY <3>2, <3>3, <3>4
  <2>2. CASE ~more  BY <1>2, <1>4, <2>2
  <2>. QED  BY <2>1, <2>2
<1>. HIDE DEF p
<1>6. queue' \in [Sessions -> Seq(Callers)]  BY <1>1, <1>5
<1>7. \A t \in Sessions : \A i \in DOMAIN queue'[t] : SessionOf[queue'[t][i]] = t
  BY <1>1, <1>5 DEF IInv, SessionInv
<1>. QED  BY <1>6, <1>7 DEF Answered

LEMMA AnsweredSession ==
    ASSUME SessionInv, NEW s \in Sessions, status[s] = "open", UNCHANGED status,
           \A t \in Sessions : \A i \in DOMAIN queue'[t] : SessionOf[queue'[t][i]] = t,
           \A t \in Sessions \ {s} : own'[t] = own[t] /\ tx'[t] = tx[t],
           tx'[s] = None => own'[s] = {},
           tx'[s] # None => SessionOf[tx'[s]] = s
    PROVE  SessionInv'
BY DEF SessionInv

\* What an answer makes of a migrator and its session.
LEMMA MigratorGoes ==
    ASSUME IInv, NEW c \in Migrators, Pending(c), NEW r \in CallRow, Goes(c, r),
           db \subseteq db', \A x \in db' : IsRow(x), Ledgers',
           Rows("ledger")' = Rows("ledger") \/ lock = SessionOf[c],
           DOMAIN own' = Sessions,
           tx' \in [Sessions -> Callers \cup {None}],
           lock' \in Sessions \cup {None},
           \A t \in Sessions \ {SessionOf[c]} :
              own'[t] = own[t] /\ tx'[t] = tx[t] /\ (lock = t => lock' = t),
           tx'[SessionOf[c]] \in {None, c},
           tx'[SessionOf[c]] = None => own'[SessionOf[c]] = {},
           MigratorInv(c)', AppliedInv(c)'
    PROVE  IInv'
<1>. DEFINE s == SessionOf[c]
<1>1. c \in Callers /\ s \in Sessions /\ status[s] = "open"
      /\ \A d \in Callers \ {c} : SessionOf[d] # s
  BY JobShape, SessionAssumption DEF Pending
<1>2. call' = [call EXCEPT ![c] = r] /\ Answered(c, r.at # "done")  BY DEF Goes
<1>3. /\ queue' \in [Sessions -> Seq(Callers)]
      /\ \A t \in Sessions : \A i \in DOMAIN queue'[t] : SessionOf[queue'[t][i]] = t
      /\ UNCHANGED status
      /\ overlapped \subseteq overlapped'
  BY <1>1, <1>2, AnswerIs
<1>4. call \in [Callers -> CallRow] /\ call' \in [Callers -> CallRow]
      /\ \A d \in Callers \ {c} : call'[d] = call[d]
  BY <1>1, <1>2 DEF IInv, TypeOK
<1>5. TypeOK'  BY <1>3, <1>4 DEF IInv, TypeOK
<1>6. SessionInv'  BY <1>1, <1>3 DEF IInv, SessionInv
<1>7. ASSUME NEW d \in Callers \ {c}
      PROVE  /\ d \in Migrators => MigratorInv(d)'
             /\ d \notin Migrators => RepositoryInv(d)'
             /\ AppliedInv(d)'
  <2>1. SessionOf[d] # s /\ call'[d] = call[d]  BY <1>1, <1>4
  <2>. QED  BY <1>1, <1>3, <2>1, OtherSessions
<1>8. \A d \in Migrators : MigratorInv(d)'  BY <1>7, JobShape
<1>9. \A d \in Callers \ Migrators : RepositoryInv(d)'  BY <1>7
<1>10. \A d \in Callers : AppliedInv(d)'  BY <1>7
<1>. QED  BY <1>5, <1>6, <1>8, <1>9, <1>10 DEF IInv, Ledgers

\* What an answer makes of a repository call and its session.
LEMMA RepositoryGoes ==
    ASSUME IInv, NEW c \in Callers \ Migrators, Pending(c), NEW r \in CallRow, Goes(c, r),
           db \subseteq db', \A x \in db' \ db : IsRow(x) /\ x.table \in Repository,
           DOMAIN own' = Sessions,
           tx' \in [Sessions -> Callers \cup {None}],
           UNCHANGED lock,
           \A t \in Sessions \ {SessionOf[c]} : own'[t] = own[t] /\ tx'[t] = tx[t],
           tx'[SessionOf[c]] \in {tx[SessionOf[c]], None, c},
           tx'[SessionOf[c]] = None => own'[SessionOf[c]] = {},
           \A x \in own'[SessionOf[c]] : IsRow(x) /\ x.table \in Repository,
           r.applied = call[c].applied,
           RepositoryInv(c)'
    PROVE  IInv'
<1>. DEFINE s == SessionOf[c]
<1>1. s \in Sessions /\ status[s] = "open" /\ \A d \in Migrators : SessionOf[d] # s
  BY JobShape, SessionAssumption DEF Pending
<1>2. call' = [call EXCEPT ![c] = r] /\ Answered(c, r.at # "done")  BY DEF Goes
<1>3. /\ queue' \in [Sessions -> Seq(Callers)]
      /\ \A t \in Sessions : \A i \in DOMAIN queue'[t] : SessionOf[queue'[t][i]] = t
      /\ UNCHANGED status
      /\ overlapped \subseteq overlapped'
      /\ s \notin overlapped' => tx[s] \in {None, c}
  BY <1>2, AnswerIs
<1>4. call \in [Callers -> CallRow] /\ call' \in [Callers -> CallRow]
      /\ call'[c] = r
      /\ \A d \in Callers \ {c} : call'[d] = call[d]
  BY <1>2 DEF IInv, TypeOK
<1>5. /\ \A x \in db' : IsRow(x)
      /\ Ledgers'
      /\ Rows("ledger")' = Rows("ledger")
  <2>. DEFINE K == db' \ db
  <2>1. db' = db \cup K /\ \A x \in K : IsRow(x) /\ x.table \in Repository  OBVIOUS
  <2>. HIDE DEF K
  <2>. QED  BY <2>1, AddsRepository
<1>6. TypeOK'  BY <1>3, <1>4, <1>5 DEF IInv, TypeOK
<1>7. SessionInv'
  <2>1. tx'[s] # None => SessionOf[tx'[s]] = s  BY <1>1 DEF IInv, SessionInv
  <2>. QED  BY <1>1, <1>3, <2>1, AnsweredSession DEF IInv
<1>8. ASSUME NEW d \in Callers \ {c}, SessionOf[d] # s
      PROVE  /\ d \in Migrators => MigratorInv(d)'
             /\ d \notin Migrators => RepositoryInv(d)'
             /\ AppliedInv(d)'
  BY <1>1, <1>3, <1>4, <1>5, <1>8, OtherSessions
<1>9. ASSUME NEW d \in Callers \ {c}, SessionOf[d] = s
      PROVE  d \notin Migrators /\ RepositoryInv(d)' /\ AppliedInv(d)'
  <2>1. d \in Callers \ Migrators /\ d # None  BY <1>1, <1>9, SessionAssumption
  <2>2. tx'[s] = d => tx[s] = d  BY <2>1, <1>9
  <2>3. s \in overlapped' \/ tx[s] # d  BY <1>3, <2>1, <1>9
  <2>. QED  BY <1>1, <1>3, <1>4, <1>9, <2>1, <2>2, <2>3, Colleague
<1>10. AppliedInv(c)'  BY <1>4, <1>5 DEF IInv, AppliedInv
<1>11. \A d \in Migrators : MigratorInv(d)'  BY <1>1, <1>8, JobShape
<1>12. \A d \in Callers \ Migrators : RepositoryInv(d)'  BY <1>8, <1>9
<1>13. \A d \in Callers : AppliedInv(d)'  BY <1>8, <1>9, <1>10
<1>. QED  BY <1>5, <1>6, <1>7, <1>11, <1>12, <1>13 DEF IInv, Ledgers

-----------------------------------------------------------------------------
(* Calls that begin. *)

LEMMA StartsInv ==
    ASSUME IInv, NEW c \in Callers, NEW r \in CallRow, Starts(c, r),
           c \in Migrators => r.at = "lock",
           c \notin Migrators =>
              /\ r.at \in {"insert", "begin", "find"} /\ r.job \in Jobs
              /\ r.at = "insert" => r.job.kind # "event"
              /\ r.at = "begin" => r.job.kind = "event"
              /\ r.at = "find" => r.job.kind = "manifest",
           r.result = None, r.applied = {}
    PROVE  IInv'
<1>. DEFINE s == SessionOf[c]
            e == IF status[s] = "open" THEN r
                 ELSE [r EXCEPT !.at = "done", !.result = "error"]
<1>1. s \in Sessions /\ call[c].at = "idle" /\ call[c] \in CallRow
  BY SessionAssumption DEF IInv, TypeOK, Starts
<1>2. call' = [call EXCEPT ![c] = e]
      /\ UNCHANGED <<db, own, tx, lock, rowLock, status, overlapped, faults>>
  BY DEF Starts
<1>3. /\ e \in CallRow /\ e.job = r.job /\ e.applied = {} /\ e.result # "ok"
      /\ status[s] # "open" => e.at = "done"
      /\ status[s] = "open" => e = r
  BY JobShape DEF CallRow, MigratorPlaces, Over
<1>4. call \in [Callers -> CallRow] /\ call' \in [Callers -> CallRow] /\ call'[c] = e
      /\ \A d \in Callers \ {c} : call'[d] = call[d]
  BY <1>2, <1>3 DEF IInv, TypeOK
<1>. HIDE DEF e
<1>5. /\ queue' \in [Sessions -> Seq(Callers)]
      /\ \A t \in Sessions : \A i \in DOMAIN queue'[t] : SessionOf[queue'[t][i]] = t
  <2>1. CASE status[s] = "open"
    <3>. DEFINE q == queue[s]
    <3>1. q \in Seq(Callers) /\ \A i \in DOMAIN q : SessionOf[q[i]] = s
      BY <1>1 DEF IInv, TypeOK, SessionInv
    <3>2. queue' = [queue EXCEPT ![s] = Append(q, c)] /\ queue \in [Sessions -> Seq(Callers)]
      BY <2>1 DEF Starts, IInv, TypeOK
    <3>. HIDE DEF q
    <3>3. /\ Append(q, c) \in Seq(Callers)
          /\ DOMAIN Append(q, c) = 1 .. Len(q) + 1 /\ Len(q) \in Nat
          /\ \A i \in 1 .. Len(q) : Append(q, c)[i] = q[i]
          /\ Append(q, c)[Len(q) + 1] = c
      BY <3>1
    <3>4. \A i \in DOMAIN Append(q, c) : SessionOf[Append(q, c)[i]] = s  BY <3>1, <3>3
    <3>5. \A t \in Sessions : queue'[t] = IF t = s THEN Append(q, c) ELSE queue[t]
      BY <3>2
    <3>6. queue' \in [Sessions -> Seq(Callers)]  BY <3>2, <3>3
    <3>7. ASSUME NEW t \in Sessions  PROVE \A i \in DOMAIN queue'[t] : SessionOf[queue'[t][i]] = t
      <4>1. CASE t = s  BY <3>4, <3>5, <4>1
      <4>2. CASE t # s  BY <3>5, <4>2 DEF IInv, SessionInv
      <4>. QED  BY <4>1, <4>2
    <3>. QED  BY <3>6, <3>7
  <2>2. CASE status[s] # "open"
    BY <2>2 DEF Starts, IInv, TypeOK, SessionInv
  <2>. QED  BY <2>1, <2>2
<1>6. TypeOK'  BY <1>2, <1>4, <1>5 DEF IInv, TypeOK
<1>7. SessionInv'  BY <1>2, <1>5 DEF IInv, SessionInv
<1>8. Paired' /\ OncePerVersion' /\ NoneSkipped' /\ Rows("ledger")' = Rows("ledger")
  BY <1>2 DEF IInv, Paired, OncePerVersion, NoneSkipped, Rows
<1>9. ASSUME NEW d \in Callers \ {c}
      PROVE  /\ d \in Migrators => MigratorInv(d)'
             /\ d \notin Migrators => RepositoryInv(d)'
             /\ AppliedInv(d)'
  <2>1. NewRow(d)' = NewRow(d) /\ Row(d, "schema")' = Row(d, "schema")
        /\ Row(d, "ledger")' = Row(d, "ledger")
    BY <1>4, SameRows
  <2>. QED
    BY <1>2, <1>4, <1>8, <2>1
    DEF IInv, MigratorInv, RepositoryInv, AppliedInv, Recorded
<1>10. AppliedInv(c)'  BY <1>3, <1>4 DEF AppliedInv
<1>11. c \in Migrators => MigratorInv(c)'
  BY <1>1, <1>2, <1>3, <1>4 DEF IInv, MigratorInv, MigratorPlaces, Holding, Over
<1>12. c \notin Migrators => RepositoryInv(c)'
  BY <1>1, <1>2, <1>3, <1>4 DEF IInv, RepositoryInv, RepositoryPlaces, Appending, Over
<1>13. \A d \in Migrators : MigratorInv(d)'  BY <1>9, <1>11, JobShape
<1>14. \A d \in Callers \ Migrators : RepositoryInv(d)'  BY <1>9, <1>12
<1>15. \A d \in Callers : AppliedInv(d)'  BY <1>9, <1>10
<1>. QED  BY <1>6, <1>7, <1>8, <1>13, <1>14, <1>15 DEF IInv

-----------------------------------------------------------------------------
(* The statements of a migration. *)

AllPlaces == MigratorPlaces \cup RepositoryPlaces

LEMMA AtIs ==
    ASSUME IInv, NEW c \in Callers, NEW place, At(c, place)
    PROVE  /\ SessionOf[c] \in Sessions
           /\ Pending(c) /\ status[SessionOf[c]] = "open"
           /\ call[c].at = place /\ call[c] \in CallRow
           /\ c \in Migrators => MigratorInv(c) /\ place \in MigratorPlaces
           /\ c \notin Migrators => RepositoryInv(c) /\ place \in RepositoryPlaces
           /\ AppliedInv(c)
BY SessionAssumption DEF At, Pending, IInv, TypeOK, MigratorInv, RepositoryInv

LEMMA PlaceIs ==
    ASSUME NEW r \in CallRow, NEW place \in AllPlaces
    PROVE  LET q == [r EXCEPT !.at = place]
           IN  /\ q \in CallRow /\ q.at = place /\ q.job = r.job /\ q.dir = r.dir
               /\ q.todo = r.todo /\ q.applied = r.applied /\ q.result = r.result
BY DEF CallRow, AllPlaces

LEMMA GoesIs ==
    ASSUME IInv, NEW c \in Callers, NEW r, Goes(c, r)
    PROVE  call'[c] = r /\ UNCHANGED status
BY DEF Goes, Answered, IInv, TypeOK

LEMMA SameLedgers == ASSUME IInv, UNCHANGED db
                     PROVE  /\ Ledgers' /\ (\A x \in db' : IsRow(x)) /\ db \subseteq db'
                            /\ Rows("ledger")' = Rows("ledger")
BY DEF IInv, Ledgers, Paired, OncePerVersion, NoneSkipped, Rows, TypeOK

LEMMA LockInv == ASSUME IInv, NEW c \in Callers, Lock(c)  PROVE IInv'
<1>. DEFINE s == SessionOf[c]
            r == [call[c] EXCEPT !.at = "ensure"]
<1>1. At(c, "lock") /\ LocksSession(c) /\ Goes(c, r)  BY DEF Lock, To
<1>2. /\ s \in Sessions /\ Pending(c) /\ status[s] = "open" /\ call[c] \in CallRow
      /\ call[c].at = "lock" /\ AppliedInv(c)
      /\ c \in Migrators /\ MigratorInv(c)
  BY <1>1, AtIs DEF RepositoryPlaces, Appending, Over
<1>3. r \in CallRow /\ r.at = "ensure" /\ r.applied = call[c].applied
  BY <1>2, PlaceIs DEF AllPlaces, MigratorPlaces, Holding
<1>. HIDE DEF r
<1>4. call'[c] = r /\ UNCHANGED status  BY <1>1, GoesIs
<1>5. lock = None /\ lock' = s /\ UNCHANGED <<db, own, tx, rowLock>>
  BY <1>1 DEF LocksSession
<1>6. tx[s] = None /\ own[s] = {}  BY <1>2 DEF MigratorInv, IInv, SessionInv
<1>7. MigratorInv(c)'
  BY <1>2, <1>3, <1>4, <1>5, <1>6 DEF MigratorInv, MigratorPlaces, Holding
<1>8. AppliedInv(c)'  BY <1>2, <1>3, <1>4, <1>5, SameLedgers DEF AppliedInv
<1>9. \A t \in Sessions \ {s} : own'[t] = own[t] /\ tx'[t] = tx[t] /\ (lock = t => lock' = t)
  BY <1>5, SessionAssumption
<1>. QED
  BY <1>1, <1>2, <1>3, <1>5, <1>6, <1>7, <1>8, <1>9, SameLedgers, MigratorGoes DEF IInv, TypeOK

LEMMA EnsureLedgerInv == ASSUME IInv, NEW c \in Callers, EnsureLedger(c)  PROVE IInv'
<1>. DEFINE s == SessionOf[c]
            r == [call[c] EXCEPT !.at = "ledger"]
<1>1. At(c, "ensure") /\ Asks(c) /\ Goes(c, r)  BY DEF EnsureLedger, To
<1>2. /\ s \in Sessions /\ Pending(c) /\ status[s] = "open" /\ call[c] \in CallRow
      /\ call[c].at = "ensure" /\ AppliedInv(c)
      /\ c \in Migrators /\ MigratorInv(c)
  BY <1>1, AtIs DEF RepositoryPlaces, Appending, Over
<1>3. r \in CallRow /\ r.at = "ledger" /\ r.applied = call[c].applied
  BY <1>2, PlaceIs DEF AllPlaces, MigratorPlaces, Holding
<1>. HIDE DEF r
<1>4. call'[c] = r /\ UNCHANGED status  BY <1>1, GoesIs
<1>5. UNCHANGED <<db, own, tx, lock, rowLock>>  BY <1>1 DEF Asks
<1>6. tx[s] = None /\ own[s] = {} /\ lock = s
  BY <1>2 DEF MigratorInv, Holding, IInv, SessionInv
<1>7. MigratorInv(c)'
  BY <1>2, <1>3, <1>4, <1>5, <1>6 DEF MigratorInv, MigratorPlaces, Holding
<1>8. AppliedInv(c)'  BY <1>2, <1>3, <1>4, <1>5, SameLedgers DEF AppliedInv
<1>. QED
  BY <1>1, <1>2, <1>3, <1>5, <1>6, <1>7, <1>8, SameLedgers, MigratorGoes DEF IInv, TypeOK

\* Where the migrator goes with the versions that are left.
LEMMA ProceedIs ==
    ASSUME NEW r \in CallRow
    PROVE  /\ Proceed(r) \in CallRow
           /\ Proceed(r).at = IF r.todo = {} THEN "unlock" ELSE "begin"
           /\ Proceed(r).todo = r.todo /\ Proceed(r).dir = r.dir
           /\ Proceed(r).applied = r.applied
BY DEF Proceed, CallRow, MigratorPlaces, Holding

LEMMA ReadLedgerInv == ASSUME IInv, NEW c \in Callers, ReadLedger(c)  PROVE IInv'
<1>. DEFINE s == SessionOf[c]
            dir == call[c].dir
            todo == PendingVersions(dir, Ledger(s))
            q == [call[c] EXCEPT !.todo = todo]
            r == IF Mismatch(dir, Ledger(s))
                 THEN [call[c] EXCEPT !.at = "unlock", !.result = "checksum_mismatch"]
                 ELSE Proceed(q)
<1>1. At(c, "ledger") /\ Asks(c) /\ Goes(c, r)  BY DEF ReadLedger
<1>2. /\ s \in Sessions /\ Pending(c) /\ status[s] = "open" /\ call[c] \in CallRow
      /\ call[c].at = "ledger" /\ AppliedInv(c)
      /\ c \in Migrators /\ MigratorInv(c)
  BY <1>1, AtIs DEF RepositoryPlaces, Appending, Over
<1>3. tx[s] = None /\ own[s] = {} /\ lock = s
  BY <1>2 DEF MigratorInv, Holding, IInv, SessionInv
<1>4. todo \subseteq DOMAIN dir /\ \A v \in DOMAIN dir : v \in todo <=> ~Recorded(v)
  BY <1>3 DEF PendingVersions, Ledger, Visible, Recorded, Rows
<1>5. todo \in SUBSET Nat
  <2>1. DOMAIN << >> = {}  OBVIOUS
  <2>2. dir \in Directories \/ dir = << >>  BY <1>2 DEF CallRow
  <2>. QED  BY <1>4, <2>1, <2>2, JobShape
<1>. HIDE DEF todo
<1>6. q \in CallRow /\ q.todo = todo /\ q.dir = dir /\ q.applied = call[c].applied
  BY <1>2, <1>5 DEF CallRow
<1>. HIDE DEF q
<1>7. /\ r \in CallRow /\ r.at \in {"unlock", "begin"} /\ r.applied = call[c].applied
      /\ r.at = "begin" => r.todo = todo /\ r.dir = dir /\ todo # {}
  BY <1>2, <1>6, ProceedIs DEF CallRow, MigratorPlaces, Holding
<1>. HIDE DEF r
<1>8. call'[c] = r /\ UNCHANGED status  BY <1>1, GoesIs
<1>9. UNCHANGED <<db, own, tx, lock, rowLock>>  BY <1>1 DEF Asks
<1>10. \A v : Recorded(v)' <=> Recorded(v)  BY <1>9 DEF Recorded, Rows
<1>11. MigratorInv(c)'
  BY <1>2, <1>3, <1>4, <1>7, <1>8, <1>9, <1>10 DEF MigratorInv, MigratorPlaces, Holding
<1>12. AppliedInv(c)'  BY <1>2, <1>7, <1>8, <1>9, SameLedgers DEF AppliedInv
<1>. QED
  BY <1>1, <1>2, <1>3, <1>7, <1>9, <1>11, <1>12, SameLedgers, MigratorGoes DEF IInv, TypeOK

LEMMA BeginMigrationInv == ASSUME IInv, NEW c \in Callers, BeginMigration(c)  PROVE IInv'
<1>. DEFINE s == SessionOf[c]
            r == [call[c] EXCEPT !.at = "sql"]
<1>1. At(c, "begin") /\ c \in Migrators /\ Begins(c) /\ Goes(c, r)
  BY DEF BeginMigration, To
<1>2. /\ s \in Sessions /\ Pending(c) /\ status[s] = "open" /\ call[c] \in CallRow
      /\ call[c].at = "begin" /\ AppliedInv(c) /\ MigratorInv(c)
  BY <1>1, AtIs
<1>3. /\ r \in CallRow /\ r.at = "sql" /\ r.applied = call[c].applied
      /\ r.todo = call[c].todo /\ r.dir = call[c].dir
  BY <1>2, PlaceIs DEF AllPlaces, MigratorPlaces, Holding
<1>. HIDE DEF r
<1>4. call'[c] = r /\ UNCHANGED status  BY <1>1, GoesIs
<1>5. tx[s] = None /\ own[s] = {} /\ lock = s
  BY <1>2 DEF MigratorInv, Holding, IInv, SessionInv
<1>6. tx' = [tx EXCEPT ![s] = c] /\ UNCHANGED <<db, own, lock, rowLock>>
  BY <1>1, <1>5 DEF Begins
<1>7. tx'[s] = c /\ tx' \in [Sessions -> Callers \cup {None}]
      /\ \A t \in Sessions \ {s} : tx'[t] = tx[t]
  BY <1>2, <1>6 DEF IInv, TypeOK
<1>8. \A v : Recorded(v)' <=> Recorded(v)  BY <1>6 DEF Recorded, Rows
<1>9. MigratorInv(c)'
  BY <1>2, <1>3, <1>4, <1>5, <1>6, <1>7, <1>8 DEF MigratorInv, MigratorPlaces, Holding
<1>10. AppliedInv(c)'  BY <1>2, <1>3, <1>4, <1>6, SameLedgers DEF AppliedInv
<1>. QED
  BY <1>1, <1>2, <1>3, <1>5, <1>6, <1>7, <1>9, <1>10, SameLedgers, MigratorGoes,
     SessionAssumption
  DEF IInv, TypeOK

\* The two writes of a version go to its transaction.
LEMMA WritesInTx ==
    ASSUME IInv, NEW c \in Migrators, status[SessionOf[c]] = "open", tx[SessionOf[c]] = c,
           NEW row, Writes(c, row)
    PROVE  /\ own'[SessionOf[c]] = own[SessionOf[c]] \cup {row}
           /\ \A t \in Sessions \ {SessionOf[c]} : own'[t] = own[t]
           /\ DOMAIN own' = Sessions
           /\ UNCHANGED <<db, tx, lock, rowLock>>
BY JobShape, SessionAssumption DEF Writes, IInv, TypeOK

LEMMA RunSqlInv == ASSUME IInv, NEW c \in Callers, RunSql(c)  PROVE IInv'
<1>. DEFINE s == SessionOf[c]
            r == [call[c] EXCEPT !.at = "record"]
<1>1. At(c, "sql") /\ Writes(c, Row(c, "schema")) /\ Goes(c, r)  BY DEF RunSql, To
<1>2. /\ s \in Sessions /\ Pending(c) /\ status[s] = "open" /\ call[c] \in CallRow
      /\ call[c].at = "sql" /\ AppliedInv(c)
      /\ c \in Migrators /\ MigratorInv(c)
  BY <1>1, AtIs DEF RepositoryPlaces, Appending, Over
<1>3. /\ r \in CallRow /\ r.at = "record" /\ r.applied = call[c].applied
      /\ r.todo = call[c].todo /\ r.dir = call[c].dir
  BY <1>2, PlaceIs DEF AllPlaces, MigratorPlaces, Holding
<1>. HIDE DEF r
<1>4. call'[c] = r /\ UNCHANGED status  BY <1>1, GoesIs
<1>5. tx[s] = c /\ own[s] = {} /\ lock = s  BY <1>2 DEF MigratorInv, Holding
<1>6. /\ own'[s] = {Row(c, "schema")} /\ DOMAIN own' = Sessions
      /\ \A t \in Sessions \ {s} : own'[t] = own[t]
      /\ UNCHANGED <<db, tx, lock, rowLock>>
  BY <1>1, <1>2, <1>5, WritesInTx
<1>7. Row(c, "schema")' = Row(c, "schema")  BY <1>3, <1>4, SameRows
<1>8. \A v : Recorded(v)' <=> Recorded(v)  BY <1>6 DEF Recorded, Rows
<1>9. MigratorInv(c)'
  BY <1>2, <1>3, <1>4, <1>5, <1>6, <1>7, <1>8 DEF MigratorInv, MigratorPlaces, Holding
<1>10. AppliedInv(c)'  BY <1>2, <1>3, <1>4, <1>6, SameLedgers DEF AppliedInv
<1>. QED
  BY <1>1, <1>2, <1>3, <1>5, <1>6, <1>9, <1>10, SameLedgers, MigratorGoes,
     SessionAssumption
  DEF IInv, TypeOK

LEMMA InsertLedgerInv == ASSUME IInv, NEW c \in Callers, InsertLedger(c)  PROVE IInv'
<1>. DEFINE s == SessionOf[c]
            r == [call[c] EXCEPT !.at = "apply"]
<1>1. At(c, "record") /\ Writes(c, Row(c, "ledger")) /\ Goes(c, r)  BY DEF InsertLedger, To
<1>2. /\ s \in Sessions /\ Pending(c) /\ status[s] = "open" /\ call[c] \in CallRow
      /\ call[c].at = "record" /\ AppliedInv(c)
      /\ c \in Migrators /\ MigratorInv(c)
  BY <1>1, AtIs DEF RepositoryPlaces, Appending, Over
<1>3. /\ r \in CallRow /\ r.at = "apply" /\ r.applied = call[c].applied
      /\ r.todo = call[c].todo /\ r.dir = call[c].dir
  BY <1>2, PlaceIs DEF AllPlaces, MigratorPlaces, Holding
<1>. HIDE DEF r
<1>4. call'[c] = r /\ UNCHANGED status  BY <1>1, GoesIs
<1>5. tx[s] = c /\ own[s] = {Row(c, "schema")} /\ lock = s
  BY <1>2 DEF MigratorInv, Holding
<1>6. /\ own'[s] = {Row(c, "schema"), Row(c, "ledger")} /\ DOMAIN own' = Sessions
      /\ \A t \in Sessions \ {s} : own'[t] = own[t]
      /\ UNCHANGED <<db, tx, lock, rowLock>>
  BY <1>1, <1>2, <1>5, WritesInTx
<1>7. Row(c, "schema")' = Row(c, "schema") /\ Row(c, "ledger")' = Row(c, "ledger")
  BY <1>3, <1>4, SameRows
<1>8. \A v : Recorded(v)' <=> Recorded(v)  BY <1>6 DEF Recorded, Rows
<1>9. MigratorInv(c)'
  BY <1>2, <1>3, <1>4, <1>5, <1>6, <1>7, <1>8 DEF MigratorInv, MigratorPlaces, Holding
<1>10. AppliedInv(c)'  BY <1>2, <1>3, <1>4, <1>6, SameLedgers DEF AppliedInv
<1>. QED
  BY <1>1, <1>2, <1>3, <1>5, <1>6, <1>9, <1>10, SameLedgers, MigratorGoes,
     SessionAssumption
  DEF IInv, TypeOK

LEMMA CommitMigrationInv == ASSUME IInv, NEW c \in Callers, CommitMigration(c)  PROVE IInv'
<1>. DEFINE s == SessionOf[c]
            q == [call[c] EXCEPT !.applied = call[c].applied \cup {Version(c)},
                                 !.todo = call[c].todo \ {Version(c)}]
            r == Proceed(q)
<1>1. At(c, "apply") /\ Commits(c) /\ Goes(c, r)  BY DEF CommitMigration
<1>2. /\ s \in Sessions /\ Pending(c) /\ status[s] = "open" /\ call[c] \in CallRow
      /\ call[c].at = "apply" /\ AppliedInv(c)
      /\ c \in Migrators /\ MigratorInv(c)
  BY <1>1, AtIs DEF RepositoryPlaces, Appending, Over
<1>3. Version(c) \in call[c].todo /\ Version(c) \in Nat  BY <1>2, VersionIs
<1>4. /\ q \in CallRow /\ q.applied = call[c].applied \cup {Version(c)}
      /\ q.todo = call[c].todo \ {Version(c)} /\ q.dir = call[c].dir
  BY <1>2, <1>3 DEF CallRow
<1>. HIDE DEF q
<1>5. /\ r \in CallRow /\ r.at \in {"unlock", "begin"} /\ r.applied = q.applied
      /\ r.at = "begin" => r.todo # {}
      /\ r.todo = q.todo /\ r.dir = q.dir
  BY <1>4, ProceedIs
<1>. HIDE DEF r
<1>6. call'[c] = r /\ UNCHANGED status  BY <1>1, GoesIs
<1>7. tx[s] = c /\ lock = s  BY <1>2 DEF MigratorInv, Holding
<1>8. /\ db' = db \cup own[s] /\ own' = [own EXCEPT ![s] = {}]
      /\ tx' = [tx EXCEPT ![s] = None] /\ UNCHANGED lock
  BY <1>1 DEF Commits, EndsTransaction
<1>9. /\ own'[s] = {} /\ tx'[s] = None /\ DOMAIN own' = Sessions
      /\ tx' \in [Sessions -> Callers \cup {None}]
      /\ \A t \in Sessions \ {s} : own'[t] = own[t] /\ tx'[t] = tx[t]
  BY <1>2, <1>8 DEF IInv, TypeOK
<1>10. /\ \A x \in db' : IsRow(x)
       /\ Ledgers'
       /\ Rows("ledger")' = Rows("ledger") \cup {Row(c, "ledger")}
  BY <1>2, <1>8, CommitsVersion
<1>11. \A v : Recorded(v)' <=> Recorded(v) \/ v = Version(c)
  BY <1>10, RowIs DEF Recorded
<1>12. MigratorInv(c)'
  BY <1>2, <1>4, <1>5, <1>6, <1>7, <1>8, <1>9, <1>11
  DEF MigratorInv, MigratorPlaces, Holding
<1>13. AppliedInv(c)'
  BY <1>2, <1>4, <1>5, <1>6, <1>10, RowIs DEF AppliedInv
<1>. QED
  BY <1>1, <1>2, <1>5, <1>7, <1>8, <1>9, <1>10, <1>12, <1>13, MigratorGoes,
     SessionAssumption
  DEF IInv, TypeOK

-----------------------------------------------------------------------------
(* The ends of a session.                                                  *)

LEMMA EndedSession ==
    ASSUME SessionInv, NEW s \in Sessions,
           \A t \in Sessions \ {s} :
              own'[t] = own[t] /\ tx'[t] = tx[t] /\ status'[t] = status[t]
              /\ queue'[t] = queue[t],
           \A i \in DOMAIN queue'[s] : SessionOf[queue'[s][i]] = s,
           \/ /\ status'[s] = "quitting" /\ own'[s] = own[s] /\ tx'[s] = tx[s]
              /\ \E c \in Migrators : SessionOf[c] = s
           \/ status'[s] = "closed" /\ own'[s] = {} /\ tx'[s] = None
    PROVE  SessionInv'
<1>. SUFFICES ASSUME NEW t \in Sessions
              PROVE  /\ \A i \in DOMAIN queue'[t] : SessionOf[queue'[t][i]] = t
                     /\ tx'[t] = None => own'[t] = {}
                     /\ tx'[t] # None => SessionOf[tx'[t]] = t
                     /\ status'[t] = "closed" => tx'[t] = None
                     /\ status'[t] = "quitting" => \E c \in Migrators : SessionOf[c] = t
  BY DEF SessionInv
<1>1. CASE t # s  BY <1>1 DEF SessionInv
<1>2. CASE t = s  BY <1>2 DEF SessionInv
<1>. QED  BY <1>1, <1>2

\* A step that ends the calls of one session, and with it its transaction
\* unless the session is being released.
LEMMA SessionEnds ==
    ASSUME IInv, NEW s \in Sessions, db \subseteq db',
           \A x \in db' : IsRow(x), Ledgers',
           Rows("ledger")' = Rows("ledger") \/ lock = s,
           DOMAIN own' = Sessions,
           tx' \in [Sessions -> Callers \cup {None}],
           lock' \in Sessions \cup {None},
           status' \in [Sessions -> {"open", "quitting", "closed"}],
           queue' \in [Sessions -> Seq(Callers)],
           call' \in [Callers -> CallRow],
           UNCHANGED overlapped,
           \A t \in Sessions \ {s} :
              /\ own'[t] = own[t] /\ tx'[t] = tx[t] /\ status'[t] = status[t]
              /\ queue'[t] = queue[t] /\ (lock = t => lock' = t),
           \A i \in DOMAIN queue'[s] : SessionOf[queue'[s][i]] = s,
           \/ /\ status'[s] = "quitting" /\ own'[s] = own[s] /\ tx'[s] = tx[s]
              /\ \E c \in Migrators : SessionOf[c] = s
              /\ \A c \in Callers : SessionOf[c] = s => call'[c].at = "done"
           \/ status'[s] = "closed" /\ own'[s] = {} /\ tx'[s] = None,
           \A d \in Callers : SessionOf[d] # s => call'[d] = call[d],
           \A d \in Callers : SessionOf[d] = s =>
              /\ call'[d].at \in {call[d].at, "done", "dead"}
              /\ call'[d].result = "ok" => call[d].result = "ok" \/ d \in Migrators
              /\ call'[d].job = call[d].job /\ call'[d].applied = call[d].applied
    PROVE  IInv'
<1>1. TypeOK'  BY DEF IInv, TypeOK
<1>2. SessionInv'  BY EndedSession DEF IInv
<1>3. db \subseteq db' /\ Rows("ledger") \subseteq Rows("ledger")'  BY DEF Rows
<1>4. ASSUME NEW d \in Callers, SessionOf[d] # s
      PROVE  /\ d \in Migrators => MigratorInv(d)'
             /\ d \notin Migrators => RepositoryInv(d)'
             /\ AppliedInv(d)'
  BY <1>3, <1>4, OtherSessions
<1>5. ASSUME NEW d \in Callers, SessionOf[d] = s  PROVE AppliedInv(d)'
  <2>1. AppliedInv(d)  BY DEF IInv
  <2>2. call'[d].applied = call[d].applied  BY <1>5
  <2>. QED  BY <1>3, <2>1, <2>2 DEF AppliedInv
<1>6. ASSUME NEW d \in Migrators, SessionOf[d] = s  PROVE MigratorInv(d)'
  BY <1>6, JobShape DEF IInv, MigratorInv, MigratorPlaces, Over
<1>7. ASSUME NEW d \in Callers \ Migrators, SessionOf[d] = s  PROVE RepositoryInv(d)'
  <2>1. NewRow(d)' = NewRow(d)  BY <1>7, SameRows
  <2>2. status'[s] = "closed" /\ own'[s] = {}  BY <1>7, JobShape
  <2>3. RepositoryInv(d)  BY DEF IInv
  <2>4. /\ call'[d].at \in RepositoryPlaces
        /\ call'[d].at \notin Over \/ call'[d].result = "ok" => call'[d].job \in Jobs
        /\ call'[d].at \in {"begin"} \cup Appending => call'[d].job.kind = "event"
        /\ call'[d].at = "find" => call'[d].job.kind = "manifest"
    BY <1>7, <2>3 DEF RepositoryInv, RepositoryPlaces, Appending, Over
  <2>5. call'[d].result = "ok" /\ s \notin overlapped' =>
           \E r \in db' : SameKey(r, NewRow(d)) /\ r.val = NewRow(d).val
    BY <1>3, <1>7, <2>3 DEF RepositoryInv
  <2>. QED  BY <1>7, <2>1, <2>2, <2>4, <2>5 DEF RepositoryInv, SameKey
<1>8. \A d \in Migrators : MigratorInv(d)'  BY <1>4, <1>6, JobShape
<1>9. \A d \in Callers \ Migrators : RepositoryInv(d)'  BY <1>4, <1>7
<1>10. \A d \in Callers : AppliedInv(d)'  BY <1>4, <1>5
<1>. QED  BY <1>1, <1>2, <1>8, <1>9, <1>10 DEF IInv, Ledgers

\* A migrator gives its session back, its transaction open or not.
LEMMA ReleaseInv ==
    ASSUME IInv, NEW c \in Callers, c \in Migrators,
           NEW result \in {"migration_failed", call[c].result},
           status[SessionOf[c]] = "open",
           call' = [call EXCEPT ![c] = [call[c] EXCEPT !.at = "done", !.result = result]],
           NEW q \in Seq(Callers), \A i \in DOMAIN q : SessionOf[q[i]] = SessionOf[c],
           queue' = [queue EXCEPT ![SessionOf[c]] = q],
           Release(SessionOf[c]),
           UNCHANGED <<db, own, tx, overlapped>>,
           lock' \in Sessions \cup {None},
           \A t \in Sessions \ {SessionOf[c]} : lock = t => lock' = t
    PROVE  IInv'
<1>. DEFINE s == SessionOf[c]
            r == [call[c] EXCEPT !.at = "done", !.result = result]
<1>1. s \in Sessions /\ call[c] \in CallRow /\ \A d \in Callers \ {c} : SessionOf[d] # s
  BY SessionAssumption, JobShape DEF IInv, TypeOK
<1>2. /\ r \in CallRow /\ r.at = "done" /\ r.result = result /\ r.job = call[c].job
      /\ r.applied = call[c].applied
  BY <1>1 DEF CallRow, MigratorPlaces, Over
<1>. HIDE DEF r
<1>3. call' \in [Callers -> CallRow] /\ call'[c] = r
      /\ \A d \in Callers \ {c} : call'[d] = call[d]
  BY <1>2 DEF IInv, TypeOK, r
<1>4. /\ status' \in [Sessions -> {"open", "quitting", "closed"}] /\ status'[s] = "quitting"
      /\ \A t \in Sessions \ {s} : status'[t] = status[t]
  BY <1>1 DEF Release, IInv, TypeOK
<1>5. /\ queue' \in [Sessions -> Seq(Callers)] /\ queue'[s] = q
      /\ \A t \in Sessions \ {s} : queue'[t] = queue[t]
  BY <1>1 DEF IInv, TypeOK
<1>6. \A d \in Callers : SessionOf[d] = s => d = c  BY <1>1
<1>7. db \subseteq db' /\ DOMAIN own' = Sessions /\ tx' \in [Sessions -> Callers \cup {None}]
  BY DEF IInv, TypeOK
<1>8. \A d \in Callers : SessionOf[d] # s => call'[d] = call[d]  BY <1>3
<1>9. \A d \in Callers : SessionOf[d] = s =>
              /\ call'[d].at = "done"
              /\ call'[d].result = "ok" => call[d].result = "ok" \/ d \in Migrators
              /\ call'[d].job = call[d].job /\ call'[d].applied = call[d].applied
  BY <1>2, <1>3, <1>6
<1>10. \A t \in Sessions \ {s} :
              /\ own'[t] = own[t] /\ tx'[t] = tx[t] /\ status'[t] = status[t]
              /\ queue'[t] = queue[t] /\ (lock = t => lock' = t)
  BY <1>4, <1>5
<1>11. \A i \in DOMAIN queue'[s] : SessionOf[queue'[s][i]] = s  BY <1>5
<1>12. /\ status'[s] = "quitting" /\ own'[s] = own[s] /\ tx'[s] = tx[s]
       /\ \E d \in Migrators : SessionOf[d] = s
       /\ \A d \in Callers : SessionOf[d] = s => call'[d].at = "done"
  BY <1>4, <1>9
<1>13. \A d \in Callers : SessionOf[d] = s =>
              /\ call'[d].at \in {call[d].at, "done", "dead"}
              /\ call'[d].result = "ok" => call[d].result = "ok" \/ d \in Migrators
              /\ call'[d].job = call[d].job /\ call'[d].applied = call[d].applied
  BY <1>9
<1>14. (\A x \in db' : IsRow(x)) /\ Ledgers' /\ Rows("ledger")' = Rows("ledger")
  BY SameLedgers
<1>. QED
  BY <1>1, <1>3, <1>4, <1>5, <1>7, <1>8, <1>10, <1>11, <1>12, <1>13, <1>14, SessionEnds

LEMMA UnlockInv == ASSUME IInv, NEW c \in Callers, Unlock(c)  PROVE IInv'
<1>. DEFINE s == SessionOf[c]
            q == Tail(queue[s])
<1>1. /\ s \in Sessions /\ status[s] = "open" /\ call[c] \in CallRow
      /\ call[c].at = "unlock" /\ queue[s] # << >>
      /\ c \in Migrators /\ MigratorInv(c)
  BY AtIs DEF Unlock, At, Pending, RepositoryPlaces, Appending, Over
<1>2. lock = s  BY <1>1 DEF MigratorInv, Holding
<1>3. queue[s] \in Seq(Callers) /\ \A i \in DOMAIN queue[s] : SessionOf[queue[s][i]] = s
  BY <1>1 DEF IInv, TypeOK, SessionInv
<1>4. q \in Seq(Callers) /\ Len(q) = Len(queue[s]) - 1
      /\ \A i \in 1 .. Len(q) : q[i] = queue[s][i + 1]
  BY <1>1, <1>3
<1>5. \A i \in DOMAIN q : SessionOf[q[i]] = s  BY <1>1, <1>3, <1>4
<1>6. call' = [call EXCEPT ![c].at = "done"]  BY DEF Unlock
<1>7. [call[c] EXCEPT !.at = "done"] = [call[c] EXCEPT !.at = "done", !.result = call[c].result]
  BY <1>1 DEF CallRow
<1>8. call' = [call EXCEPT ![c] = [call[c] EXCEPT !.at = "done", !.result = call[c].result]]
  BY <1>6, <1>7
<1>9. /\ queue' = [queue EXCEPT ![s] = q] /\ Release(s) /\ lock' = None
      /\ UNCHANGED <<db, own, tx, overlapped>>
  BY DEF Unlock, UnlocksSession
<1>. HIDE DEF q
<1>. QED  BY <1>1, <1>2, <1>4, <1>5, <1>8, <1>9, ReleaseInv

LEMMA BindThrowsInv == ASSUME IInv, NEW c \in Callers, BindThrows(c)  PROVE IInv'
<1>. DEFINE s == SessionOf[c]
<1>1. /\ s \in Sessions /\ status[s] = "open" /\ call[c] \in CallRow
      /\ c \in Migrators
  BY AtIs DEF BindThrows, RepositoryPlaces, Appending, Over
<1>2. call' = [call EXCEPT ![c] = [call[c] EXCEPT !.at = "done", !.result = "migration_failed"]]
  BY DEF BindThrows
<1>3. /\ queue' = [queue EXCEPT ![s] = << >>] /\ Release(s)
      /\ UNCHANGED <<db, own, tx, lock, overlapped>>
  BY DEF BindThrows
<1>4. << >> \in Seq(Callers) /\ \A i \in DOMAIN << >> : SessionOf[<< >>[i]] = s
  OBVIOUS
<1>. QED  BY <1>1, <1>2, <1>3, <1>4, ReleaseInv DEF IInv, TypeOK

\* What a lost session may have committed unheard is a whole version, or rows
\* of the repositories.
LEMMA KeptIs ==
    ASSUME IInv, NEW s \in Sessions, status[s] # "closed", db' = db \cup Unheard(s)
    PROVE  /\ \A x \in db' : IsRow(x)
           /\ Ledgers'
           /\ Rows("ledger")' = Rows("ledger") \/ lock = s
<1>1. CASE Unheard(s) = {}  BY <1>1, SameLedgers
<1>2. CASE Unheard(s) # {}
  <2>. DEFINE c == Head(queue[s])
  <2>1. queue[s] # << >> /\ queue[s] \in Seq(Callers)  BY <1>2 DEF Unheard, IInv, TypeOK
  <2>2. c \in Callers /\ SessionOf[c] = s
    <3>1. 1 \in DOMAIN queue[s] /\ c = queue[s][1] /\ c \in Callers  BY <2>1
    <3>. QED  BY <3>1 DEF IInv, SessionInv
  <2>3. /\ call[c].at \in {"apply", "commit", "insert"}
        /\ call[c].at \in {"apply", "commit"} => Unheard(s) = own[s]
        /\ call[c].at = "insert" => Unheard(s) = {NewRow(c)}
    BY <1>2, <2>1 DEF Unheard
  <2>4. CASE c \in Migrators
    <3>1. MigratorInv(c)  BY <2>4 DEF IInv
    <3>2. call[c].at = "apply"  BY <2>3, <3>1 DEF MigratorInv, MigratorPlaces, Holding, Over
    <3>3. status[s] = "open"  BY <2>2, <3>1, <3>2 DEF MigratorInv, IInv, TypeOK
    <3>4. lock = s  BY <2>2, <3>1, <3>2, <3>3 DEF MigratorInv, Holding
    <3>. QED  BY <2>2, <2>3, <2>4, <3>2, <3>3, <3>4, CommitsVersion
  <2>5. CASE c \notin Migrators
    <3>1. RepositoryInv(c)  BY <2>2, <2>5 DEF IInv
    <3>2. call[c].at \in {"commit", "insert"} /\ call[c].job \in Jobs
      BY <2>3, <3>1 DEF RepositoryInv, RepositoryPlaces, Appending, Over
    <3>3. \A x \in Unheard(s) : IsRow(x) /\ x.table \in Repository
      BY <2>2, <2>3, <3>1, <3>2, NewRowIs DEF RepositoryInv
    <3>. QED  BY <3>3, AddsRepository
  <2>. QED  BY <2>4, <2>5
<1>. QED  BY <1>1, <1>2

\* PostgreSQL drops a connection, whatever ends it.
LEMMA DisconnectsInv ==
    ASSUME IInv, NEW s \in Sessions, status[s] # "closed",
           NEW kept \in {{}, Unheard(s)}, Disconnects(s, kept),
           queue' \in {[queue EXCEPT ![s] = << >>], queue},
           call' \in [Callers -> CallRow],
           \A d \in Callers : SessionOf[d] # s => call'[d] = call[d],
           \A d \in Callers : SessionOf[d] = s =>
              /\ call'[d].at \in {call[d].at, "done", "dead"}
              /\ call'[d].result = "ok" => call[d].result = "ok"
              /\ call'[d].job = call[d].job /\ call'[d].applied = call[d].applied
    PROVE  IInv'
<1>1. /\ db' = db \cup kept
      /\ own' = [own EXCEPT ![s] = {}] /\ tx' = [tx EXCEPT ![s] = None]
      /\ lock' = IF lock = s THEN None ELSE lock
      /\ status' = [status EXCEPT ![s] = "closed"]
      /\ UNCHANGED overlapped
  BY DEF Disconnects, EndsTransaction
<1>2. /\ \A x \in db' : IsRow(x)
      /\ Ledgers'
      /\ Rows("ledger")' = Rows("ledger") \/ lock = s
  <2>1. CASE kept = {}  BY <1>1, <2>1, SameLedgers
  <2>2. CASE kept = Unheard(s)  BY <1>1, <2>2, KeptIs
  <2>. QED  BY <2>1, <2>2
<1>3. /\ DOMAIN own' = Sessions /\ own'[s] = {}
      /\ tx' \in [Sessions -> Callers \cup {None}] /\ tx'[s] = None
      /\ status' \in [Sessions -> {"open", "quitting", "closed"}] /\ status'[s] = "closed"
      /\ \A t \in Sessions \ {s} :
            own'[t] = own[t] /\ tx'[t] = tx[t] /\ status'[t] = status[t]
  BY <1>1 DEF IInv, TypeOK
<1>4. lock' \in Sessions \cup {None} /\ \A t \in Sessions \ {s} : lock = t => lock' = t
  BY <1>1 DEF IInv, TypeOK
<1>5. /\ queue' \in [Sessions -> Seq(Callers)]
      /\ \A t \in Sessions \ {s} : queue'[t] = queue[t]
      /\ \A i \in DOMAIN queue'[s] : SessionOf[queue'[s][i]] = s
  <2>1. /\ queue \in [Sessions -> Seq(Callers)]
        /\ \A i \in DOMAIN queue[s] : SessionOf[queue[s][i]] = s
    BY DEF IInv, TypeOK, SessionInv
  <2>2. << >> \in Seq(Callers) /\ DOMAIN << >> = {}  OBVIOUS
  <2>3. CASE queue' = queue  BY <2>1, <2>3
  <2>4. CASE queue' = [queue EXCEPT ![s] = << >>]
    <3>1. queue' \in [Sessions -> Seq(Callers)]  BY <2>1, <2>2, <2>4
    <3>2. DOMAIN queue'[s] = {} /\ \A t \in Sessions \ {s} : queue'[t] = queue[t]
      BY <2>1, <2>2, <2>4
    <3>. QED  BY <3>1, <3>2
  <2>. QED  BY <2>3, <2>4
<1>6. \A t \in Sessions \ {s} :
              /\ own'[t] = own[t] /\ tx'[t] = tx[t] /\ status'[t] = status[t]
              /\ queue'[t] = queue[t] /\ (lock = t => lock' = t)
  BY <1>3, <1>4, <1>5
<1>7. \A d \in Callers : SessionOf[d] = s =>
              /\ call'[d].at \in {call[d].at, "done", "dead"}
              /\ call'[d].result = "ok" => call[d].result = "ok" \/ d \in Migrators
              /\ call'[d].job = call[d].job /\ call'[d].applied = call[d].applied
  OBVIOUS
<1>8. db \subseteq db' /\ UNCHANGED overlapped  BY <1>1
<1>. QED  BY <1>2, <1>3, <1>4, <1>5, <1>6, <1>7, <1>8, SessionEnds

\* Only calls of the session are rejected.
LEMMA AllRejectedIs ==
    ASSUME IInv, NEW s \in Sessions, AllRejected(s)
    PROVE  /\ call' \in [Callers -> CallRow]
           /\ \A d \in Callers : SessionOf[d] # s => call'[d] = call[d]
           /\ \A d \in Callers : SessionOf[d] = s =>
                 /\ call'[d].at \in {call[d].at, "done", "dead"}
                 /\ call'[d].result = "ok" => call[d].result = "ok"
                 /\ call'[d].job = call[d].job /\ call'[d].applied = call[d].applied
<1>1. \A d \in Rejects(s) : SessionOf[d] = s
  BY DEF Rejects, IInv, SessionInv
<1>2. ASSUME NEW d \in Callers
      PROVE  /\ call[d] \in CallRow /\ Rejected(d) \in CallRow
             /\ Rejected(d).at = "done"
             /\ Rejected(d).result = "ok" => call[d].result = "ok"
             /\ Rejected(d).job = call[d].job /\ Rejected(d).applied = call[d].applied
  <2>. DEFINE r == call[d]
              result == IF r.at = "unlock" THEN r.result
                        ELSE IF r.at \in {"begin", "sql", "record", "apply"} /\ d \in Migrators
                        THEN "migration_failed" ELSE "error"
  <2>1. r \in CallRow  BY DEF IInv, TypeOK
  <2>2. result \in {"error", "migration_failed", r.result} /\ (result = "ok" => r.result = "ok")
    OBVIOUS
  <2>3. Rejected(d) = [r EXCEPT !.at = "done", !.result = result]
    BY <2>1 DEF Rejected, CallRow
  <2>. HIDE DEF result
  <2>. QED  BY <2>1, <2>2, <2>3 DEF CallRow, MigratorPlaces, Over
<1>3. \A d \in Callers : call'[d] = IF d \in Rejects(s) THEN Rejected(d) ELSE call[d]
  BY DEF AllRejected
<1>4. call' \in [Callers -> CallRow]  BY <1>2, <1>3 DEF AllRejected
<1>. QED  BY <1>1, <1>2, <1>3, <1>4

LEMMA StatementFailsInv == ASSUME IInv, NEW c \in Callers, StatementFails(c)  PROVE IInv'
<1>. DEFINE s == SessionOf[c]
<1>1. s \in Sessions /\ status[s] # "closed"
  BY SessionAssumption DEF StatementFails, Refused, At, Pending
<1>2. AllRejected(s) /\ Disconnects(s, {}) /\ queue' = [queue EXCEPT ![s] = << >>]
  BY DEF StatementFails, Dies
<1>. QED  BY <1>1, <1>2, AllRejectedIs, DisconnectsInv

LEMMA LoseInv == ASSUME IInv, NEW s \in Sessions, Lose(s)  PROVE IInv'
<1>1. AllRejected(s) /\ status[s] # "closed"  BY DEF Lose, Fault
<1>2. PICK kept \in {{}, Unheard(s)} :
         Disconnects(s, kept) /\ queue' = [queue EXCEPT ![s] = << >>]
  BY DEF Lose, Fault, Dies
<1>. QED  BY <1>1, <1>2, AllRejectedIs, DisconnectsInv

LEMMA CrashInv == ASSUME IInv, NEW s \in Sessions, Crash(s)  PROVE IInv'
<1>1. status[s] # "closed"  BY DEF Crash, Fault
<1>2. PICK kept \in {{}, Unheard(s)} :
         Disconnects(s, kept) /\ queue' = [queue EXCEPT ![s] = << >>]
  BY DEF Crash, Fault, Dies
<1>3. ASSUME NEW d \in Callers
      PROVE  /\ call'[d] \in CallRow
             /\ SessionOf[d] # s => call'[d] = call[d]
             /\ call'[d].at \in {call[d].at, "done", "dead"}
             /\ call'[d].result = "ok" => call[d].result = "ok"
             /\ call'[d].job = call[d].job /\ call'[d].applied = call[d].applied
  <2>1. call[d] \in CallRow  BY DEF IInv, TypeOK
  <2>2. "dead" \in AllPlaces  BY DEF AllPlaces, MigratorPlaces, Over
  <2>. DEFINE r == [call[d] EXCEPT !.at = "dead"]
  <2>3. \/ call'[d] = call[d]
        \/ SessionOf[d] = s /\ call'[d] = r
    BY DEF Crash
  <2>4. /\ r \in CallRow /\ r.at = "dead" /\ r.job = call[d].job
        /\ r.applied = call[d].applied /\ r.result = call[d].result
    BY <2>1, <2>2, PlaceIs
  <2>. HIDE DEF r
  <2>. QED  BY <2>1, <2>3, <2>4
<1>4. call' \in [Callers -> CallRow]  BY <1>3 DEF Crash
<1>. QED  BY <1>1, <1>2, <1>3, <1>4, DisconnectsInv

LEMMA QuitInv == ASSUME IInv, NEW s \in Sessions, Quit(s)  PROVE IInv'
<1>1. status[s] # "closed" /\ Disconnects(s, {}) /\ UNCHANGED <<queue, call>>
  BY DEF Quit, Quits
<1>2. call \in [Callers -> CallRow]  BY DEF IInv, TypeOK
<1>. QED  BY <1>1, <1>2, DisconnectsInv

-----------------------------------------------------------------------------
(* The statements of the repositories.                                     *)

\* What c knows of its session when its statement is answered and no statement
\* has run inside another's transaction.
LEMMA Alone ==
    ASSUME IInv, NEW c \in Callers, Pending(c), NEW r, Goes(c, r)
    PROVE  /\ SessionOf[c] \notin overlapped' => /\ SessionOf[c] \notin overlapped
                                               /\ tx[SessionOf[c]] \in {None, c}
           /\ tx[SessionOf[c]] = None => own[SessionOf[c]] = {}
BY AnswerIs, SessionAssumption DEF Goes, IInv, SessionInv

\* A repository call at one of its statements.
LEMMA RepositoryAt ==
    ASSUME IInv, NEW c \in Callers, NEW place \in RepositoryPlaces \ Over, At(c, place),
           c \notin Migrators
    PROVE  /\ SessionOf[c] \in Sessions /\ Pending(c) /\ status[SessionOf[c]] = "open"
           /\ call[c] \in CallRow /\ call[c].at = place /\ call[c].job \in Jobs
           /\ RepositoryInv(c)
BY AtIs DEF RepositoryInv

LEMMA Repositories ==
    /\ {"find", "insert", "run", "last", "commit", "rollback"} \subseteq RepositoryPlaces \ Over
    /\ "begin" \in RepositoryPlaces \ Over
    /\ {"find", "insert", "run", "last", "commit", "rollback"} \cap MigratorPlaces = {}
BY DEF RepositoryPlaces, MigratorPlaces, Holding, Appending, Over

LEMMA NotMigrator ==
    ASSUME IInv, NEW c \in Callers,
           NEW place \in {"find", "insert", "run", "last", "commit", "rollback"}, At(c, place)
    PROVE  c \notin Migrators
BY AtIs, Repositories

LEMMA BeginAppendInv == ASSUME IInv, NEW c \in Callers, BeginAppend(c)  PROVE IInv'
<1>. DEFINE s == SessionOf[c]
            r == [call[c] EXCEPT !.at = "run"]
<1>1. At(c, "begin") /\ c \notin Migrators /\ Begins(c) /\ Goes(c, r)
  BY DEF BeginAppend, To
<1>2. /\ s \in Sessions /\ Pending(c) /\ status[s] = "open"
      /\ call[c] \in CallRow /\ call[c].at = "begin" /\ call[c].job \in Jobs
      /\ RepositoryInv(c)
  BY <1>1, RepositoryAt, Repositories
<1>3. /\ r \in CallRow /\ r.at = "run" /\ r.applied = call[c].applied
      /\ r.job = call[c].job /\ r.result = call[c].result
  BY <1>2, PlaceIs, Repositories DEF AllPlaces
<1>. HIDE DEF r
<1>4. call'[c] = r /\ UNCHANGED status  BY <1>1, GoesIs
<1>5. tx' = (IF tx[s] = None THEN [tx EXCEPT ![s] = c] ELSE tx)
      /\ UNCHANGED <<db, own, lock, rowLock>>
  BY <1>1 DEF Begins
<1>6. /\ tx' \in [Sessions -> Callers \cup {None}]
      /\ tx'[s] = IF tx[s] = None THEN c ELSE tx[s]
      /\ \A t \in Sessions \ {s} : tx'[t] = tx[t]
  BY <1>2, <1>5 DEF IInv, TypeOK
<1>7. /\ s \notin overlapped' => s \notin overlapped /\ tx[s] \in {None, c}
      /\ tx[s] = None => own[s] = {}
  BY <1>1, <1>2, Alone
<1>8. NewRow(c)' = NewRow(c)  BY <1>3, <1>4, SameRows
<1>9. RepositoryInv(c)'
  BY <1>2, <1>3, <1>4, <1>5, <1>6, <1>7, <1>8
  DEF RepositoryInv, RepositoryPlaces, Appending, SameKey
<1>10. c # None  BY SessionAssumption
<1>. QED
  BY <1>1, <1>2, <1>3, <1>5, <1>6, <1>7, <1>9, <1>10, RepositoryGoes
  DEF IInv, TypeOK, RepositoryInv

LEMMA LockRunInv == ASSUME IInv, NEW c \in Callers, LockRun(c)  PROVE IInv'
<1>. DEFINE s == SessionOf[c]
            place == IF \E x \in Visible(s) : x.table = "runs" THEN "last" ELSE "rollback"
            r == [call[c] EXCEPT !.at = place]
<1>1. At(c, "run") /\ LocksRow(c) /\ Goes(c, r)  BY DEF LockRun, To
<1>2. place \in {"last", "rollback"}  OBVIOUS
<1>. HIDE DEF place
<1>3. /\ s \in Sessions /\ Pending(c) /\ status[s] = "open" /\ c \notin Migrators
      /\ call[c] \in CallRow /\ call[c].at = "run" /\ call[c].job \in Jobs
      /\ RepositoryInv(c)
  BY <1>1, RepositoryAt, NotMigrator, Repositories
<1>4. /\ r \in CallRow /\ r.at = place /\ r.applied = call[c].applied
      /\ r.job = call[c].job /\ r.result = call[c].result
  BY <1>2, <1>3, PlaceIs, Repositories DEF AllPlaces
<1>. HIDE DEF r
<1>5. call'[c] = r /\ UNCHANGED status  BY <1>1, GoesIs
<1>6. UNCHANGED <<db, own, tx, lock>>  BY <1>1 DEF LocksRow
<1>7. /\ s \notin overlapped' => s \notin overlapped /\ tx[s] \in {None, c}
      /\ tx[s] = None => own[s] = {}
  BY <1>1, <1>3, Alone
<1>8. NewRow(c)' = NewRow(c)  BY <1>4, <1>5, SameRows
<1>9. RepositoryInv(c)'
  BY <1>2, <1>3, <1>4, <1>5, <1>6, <1>7, <1>8
  DEF RepositoryInv, RepositoryPlaces, Appending, SameKey
<1>. QED
  BY <1>1, <1>3, <1>4, <1>6, <1>7, <1>9, RepositoryGoes DEF IInv, TypeOK, RepositoryInv

LEMMA ReadLastInv == ASSUME IInv, NEW c \in Callers, ReadLast(c)  PROVE IInv'
<1>. DEFINE s == SessionOf[c]
            place == IF call[c].job.key = LastSequence + 1 THEN "insert" ELSE "rollback"
            r == [call[c] EXCEPT !.at = place]
<1>1. At(c, "last") /\ Asks(c) /\ Goes(c, r)  BY DEF ReadLast, To
<1>2. place \in {"insert", "rollback"}  OBVIOUS
<1>. HIDE DEF place
<1>3. /\ s \in Sessions /\ Pending(c) /\ status[s] = "open" /\ c \notin Migrators
      /\ call[c] \in CallRow /\ call[c].at = "last" /\ call[c].job \in Jobs
      /\ RepositoryInv(c)
  BY <1>1, RepositoryAt, NotMigrator, Repositories
<1>4. /\ r \in CallRow /\ r.at = place /\ r.applied = call[c].applied
      /\ r.job = call[c].job /\ r.result = call[c].result
  BY <1>2, <1>3, PlaceIs, Repositories DEF AllPlaces
<1>. HIDE DEF r
<1>5. call'[c] = r /\ UNCHANGED status  BY <1>1, GoesIs
<1>6. UNCHANGED <<db, own, tx, lock>>  BY <1>1 DEF Asks
<1>7. /\ s \notin overlapped' => s \notin overlapped /\ tx[s] \in {None, c}
      /\ tx[s] = None => own[s] = {}
  BY <1>1, <1>3, Alone
<1>8. NewRow(c)' = NewRow(c)  BY <1>4, <1>5, SameRows
<1>9. RepositoryInv(c)'
  BY <1>2, <1>3, <1>4, <1>5, <1>6, <1>7, <1>8
  DEF RepositoryInv, RepositoryPlaces, Appending, SameKey
<1>. QED
  BY <1>1, <1>3, <1>4, <1>6, <1>7, <1>9, RepositoryGoes DEF IInv, TypeOK, RepositoryInv

\* A manifest that is found was committed, unless a statement has run inside
\* another's transaction.
LEMMA FindManifestInv == ASSUME IInv, NEW c \in Callers, FindManifest(c)  PROVE IInv'
<1>. DEFINE s == SessionOf[c]
            found == {x \in Visible(s) : SameKey(x, NewRow(c))}
            result == IF \E x \in found : x.val = NewRow(c).val THEN "ok" ELSE "error"
            r == IF found = {} THEN [call[c] EXCEPT !.at = "insert"]
                 ELSE [call[c] EXCEPT !.at = "done", !.result = result]
<1>1. At(c, "find") /\ Asks(c) /\ Goes(c, r)  BY DEF FindManifest, To, Ends
<1>2. /\ s \in Sessions /\ Pending(c) /\ status[s] = "open" /\ c \notin Migrators
      /\ call[c] \in CallRow /\ call[c].at = "find" /\ call[c].job \in Jobs
      /\ RepositoryInv(c)
  BY <1>1, RepositoryAt, NotMigrator, Repositories
<1>3. /\ r \in CallRow /\ r.at \in {"insert", "done"} /\ r.applied = call[c].applied
      /\ r.job = call[c].job
      /\ r.result = "ok" => call[c].result = "ok" \/ \E x \in found : x.val = NewRow(c).val
  <2>1. CASE found = {}
    <3>. DEFINE q == [call[c] EXCEPT !.at = "insert"]
    <3>1. r = q  BY <2>1
    <3>2. /\ q \in CallRow /\ q.at = "insert" /\ q.job = call[c].job
          /\ q.applied = call[c].applied /\ q.result = call[c].result
      BY <1>2, PlaceIs, Repositories DEF AllPlaces
    <3>. HIDE DEF q, r
    <3>. QED  BY <3>1, <3>2
  <2>2. CASE found # {}
    <3>1. r = [call[c] EXCEPT !.at = "done", !.result = result]  BY <2>2
    <3>2. result \in {"ok", "error"} /\ (result = "ok" => \E x \in found : x.val = NewRow(c).val)
      OBVIOUS
    <3>. HIDE DEF r, result, found
    <3>. QED  BY <1>2, <3>1, <3>2 DEF CallRow, MigratorPlaces, Over
  <2>. QED  BY <2>1, <2>2
<1>. HIDE DEF r
<1>4. call'[c] = r /\ UNCHANGED status  BY <1>1, GoesIs
<1>5. UNCHANGED <<db, own, tx, lock>>  BY <1>1 DEF Asks
<1>6. /\ s \notin overlapped' => s \notin overlapped /\ tx[s] \in {None, c}
      /\ tx[s] = None => own[s] = {}
  BY <1>1, <1>2, Alone
<1>7. NewRow(c)' = NewRow(c)  BY <1>3, <1>4, SameRows
<1>8. tx[s] # c /\ call[c].job.kind = "manifest"  BY <1>2 DEF RepositoryInv, Appending
<1>9. s \notin overlapped' => found \subseteq {x \in db : SameKey(x, NewRow(c))}
  BY <1>6, <1>8 DEF Visible
<1>10. r.result = "ok" /\ s \notin overlapped' =>
          \E x \in db : SameKey(x, NewRow(c)) /\ x.val = NewRow(c).val
  <2>. HIDE DEF found
  <2>1. s \notin overlapped' /\ call[c].result = "ok" =>
           \E x \in db : SameKey(x, NewRow(c)) /\ x.val = NewRow(c).val
    BY <1>2, <1>6 DEF RepositoryInv
  <2>. QED  BY <1>3, <1>9, <2>1
<1>. HIDE DEF found
<1>11. RepositoryInv(c)'
  BY <1>2, <1>3, <1>4, <1>5, <1>6, <1>7, <1>8, <1>10
  DEF RepositoryInv, RepositoryPlaces, Appending, SameKey, Over
<1>. QED
  BY <1>1, <1>2, <1>3, <1>5, <1>6, <1>11, RepositoryGoes DEF IInv, TypeOK, RepositoryInv

LEMMA InsertInv == ASSUME IInv, NEW c \in Callers, Insert(c)  PROVE IInv'
<1>. DEFINE s == SessionOf[c]
            event == call[c].job.kind = "event"
            r == IF event THEN [call[c] EXCEPT !.at = "commit"]
                 ELSE [call[c] EXCEPT !.at = "done", !.result = "ok"]
<1>1. At(c, "insert") /\ Writes(c, NewRow(c)) /\ Goes(c, r)  BY DEF Insert, To, Ends
<1>2. /\ s \in Sessions /\ Pending(c) /\ status[s] = "open" /\ c \notin Migrators
      /\ call[c] \in CallRow /\ call[c].at = "insert" /\ call[c].job \in Jobs
      /\ RepositoryInv(c)
  BY <1>1, RepositoryAt, NotMigrator, Repositories
<1>3. /\ r \in CallRow /\ r.applied = call[c].applied /\ r.job = call[c].job
      /\ event => r.at = "commit" /\ r.result = call[c].result
      /\ ~event => r.at = "done"
  <2>1. CASE event
    <3>. DEFINE q == [call[c] EXCEPT !.at = "commit"]
    <3>1. /\ q \in CallRow /\ q.at = "commit" /\ q.job = call[c].job
          /\ q.applied = call[c].applied /\ q.result = call[c].result
      BY <1>2, PlaceIs, Repositories DEF AllPlaces
    <3>2. r = q  BY <2>1
    <3>. HIDE DEF q, r
    <3>. QED  BY <2>1, <3>1, <3>2
  <2>2. CASE ~event
    <3>1. r = [call[c] EXCEPT !.at = "done", !.result = "ok"]  BY <2>2
    <3>. HIDE DEF r
    <3>. QED  BY <1>2, <2>2, <3>1 DEF CallRow, MigratorPlaces, Over
  <2>. QED  BY <2>1, <2>2
<1>. HIDE DEF r
<1>4. call'[c] = r /\ UNCHANGED status  BY <1>1, GoesIs
<1>5. /\ IF tx[s] = None THEN db' = db \cup {NewRow(c)} /\ UNCHANGED own
         ELSE own' = [own EXCEPT ![s] = own[s] \cup {NewRow(c)}] /\ UNCHANGED db
      /\ UNCHANGED <<tx, lock, rowLock>>
  BY <1>1 DEF Writes
<1>6. /\ DOMAIN own' = Sessions
      /\ \A t \in Sessions \ {s} : own'[t] = own[t]
      /\ own'[s] = IF tx[s] = None THEN own[s] ELSE own[s] \cup {NewRow(c)}
      /\ db' = IF tx[s] = None THEN db \cup {NewRow(c)} ELSE db
  BY <1>2, <1>5 DEF IInv, TypeOK
<1>7. /\ s \notin overlapped' => s \notin overlapped /\ tx[s] \in {None, c}
      /\ tx[s] = None => own[s] = {}
  BY <1>1, <1>2, Alone
<1>8. NewRow(c)' = NewRow(c)  BY <1>3, <1>4, SameRows
<1>9. IsRow(NewRow(c)) /\ NewRow(c).table \in Repository  BY <1>2, NewRowIs
<1>10. \A x \in own'[s] : IsRow(x) /\ x.table \in Repository
  BY <1>2, <1>6, <1>9 DEF RepositoryInv
<1>11. db \subseteq db' /\ \A x \in db' \ db : IsRow(x) /\ x.table \in Repository
  BY <1>6, <1>9
<1>12. /\ tx[s] = c => event
       /\ s \notin overlapped /\ event => tx[s] = c
  BY <1>2 DEF RepositoryInv
<1>13. c # None  BY SessionAssumption
<1>14. r.result = "ok" /\ s \notin overlapped' =>
          \E x \in db' : SameKey(x, NewRow(c)) /\ x.val = NewRow(c).val
  <2>1. CASE event  BY <1>2, <1>3, <1>7, <1>11, <2>1 DEF RepositoryInv
  <2>2. CASE ~event  BY <1>6, <1>7, <1>12, <2>2 DEF SameKey
  <2>. QED  BY <2>1, <2>2
<1>15. RepositoryInv(c)'
  BY <1>2, <1>3, <1>4, <1>5, <1>6, <1>7, <1>8, <1>10, <1>12, <1>13, <1>14
  DEF RepositoryInv, RepositoryPlaces, Appending, SameKey, Over
<1>. QED
  BY <1>1, <1>2, <1>3, <1>5, <1>6, <1>7, <1>10, <1>11, <1>15, RepositoryGoes
  DEF IInv, TypeOK

\* A commit or a rollback ends the transaction of the session.
LEMMA EndsAppend ==
    ASSUME IInv, NEW c \in Callers, NEW place \in {"commit", "rollback"}, At(c, place),
           NEW result \in {"ok", "error"}, Ends(c, result),
           NEW kept \in SUBSET own[SessionOf[c]],
           EndsTransaction(SessionOf[c], kept), UNCHANGED lock,
           result = "ok" => place = "commit" /\ kept = own[SessionOf[c]]
    PROVE  IInv'
<1>. DEFINE s == SessionOf[c]
            r == [call[c] EXCEPT !.at = "done", !.result = result]
<1>1. Goes(c, r)  BY DEF Ends
<1>2. /\ s \in Sessions /\ Pending(c) /\ status[s] = "open" /\ c \notin Migrators
      /\ call[c] \in CallRow /\ call[c].at = place /\ call[c].job \in Jobs
      /\ RepositoryInv(c)
  BY RepositoryAt, NotMigrator, Repositories
<1>3. /\ r \in CallRow /\ r.at = "done" /\ r.applied = call[c].applied
      /\ r.job = call[c].job /\ r.result = result
  <2>1. r = [call[c] EXCEPT !.at = "done", !.result = result]  OBVIOUS
  <2>. HIDE DEF r
  <2>. QED  BY <1>2, <2>1 DEF CallRow, MigratorPlaces, Over
<1>. HIDE DEF r
<1>4. call'[c] = r /\ UNCHANGED status  BY <1>1, GoesIs
<1>5. /\ db' = db \cup kept /\ own' = [own EXCEPT ![s] = {}]
      /\ tx' = [tx EXCEPT ![s] = None]
  BY DEF EndsTransaction
<1>6. /\ own'[s] = {} /\ tx'[s] = None /\ DOMAIN own' = Sessions
      /\ tx' \in [Sessions -> Callers \cup {None}]
      /\ \A t \in Sessions \ {s} : own'[t] = own[t] /\ tx'[t] = tx[t]
  BY <1>2, <1>5 DEF IInv, TypeOK
<1>7. s \notin overlapped' => s \notin overlapped  BY <1>1, <1>2, Alone
<1>8. NewRow(c)' = NewRow(c)  BY <1>3, <1>4, SameRows
<1>9. db \subseteq db' /\ \A x \in db' \ db : IsRow(x) /\ x.table \in Repository
  BY <1>2, <1>5 DEF RepositoryInv
<1>10. result = "ok" /\ s \notin overlapped' => NewRow(c) \in db'
  BY <1>2, <1>5, <1>7 DEF RepositoryInv
<1>11. c # None  BY SessionAssumption
<1>12. RepositoryInv(c)'
  BY <1>2, <1>3, <1>4, <1>6, <1>7, <1>8, <1>10, <1>11
  DEF RepositoryInv, RepositoryPlaces, Appending, SameKey, Over
<1>. QED  BY <1>1, <1>2, <1>3, <1>6, <1>9, <1>12, RepositoryGoes

LEMMA CommitAppendInv == ASSUME IInv, NEW c \in Callers, CommitAppend(c)  PROVE IInv'
BY EndsAppend DEF CommitAppend, Commits

LEMMA RollbackAppendInv == ASSUME IInv, NEW c \in Callers, RollbackAppend(c)  PROVE IInv'
BY EndsAppend DEF RollbackAppend, RollsBack

-----------------------------------------------------------------------------
(* The invariant. *)

LEMMA MigrateInv == ASSUME IInv, NEW c \in Migrators, Migrate(c)  PROVE IInv'
<1>1. PICK d \in Directories : Starts(c, [Idle EXCEPT !.at = "lock", !.dir = d])
  BY DEF Migrate
<1>. DEFINE r == [Idle EXCEPT !.at = "lock", !.dir = d]
<1>2. r \in CallRow /\ r.at = "lock" /\ r.result = None /\ r.applied = {}
  BY DEF Idle, CallRow, MigratorPlaces
<1>3. c \in Callers  BY JobShape
<1>. HIDE DEF r
<1>. QED  BY <1>1, <1>2, <1>3, StartsInv DEF r

LEMMA RequestInv == ASSUME IInv, NEW c \in Callers \ Migrators, Request(c)  PROVE IInv'
<1>1. PICK j \in Jobs :
        Starts(c, [Idle EXCEPT !.job = j,
                               !.at = CASE j.kind = "put" -> "insert"
                                        [] j.kind = "event" -> "begin"
                                        [] j.kind = "manifest" -> "find"])
  BY DEF Request
<1>. DEFINE place == CASE j.kind = "put" -> "insert"
                       [] j.kind = "event" -> "begin"
                       [] j.kind = "manifest" -> "find"
            r == [Idle EXCEPT !.job = j, !.at = place]
<1>2. /\ place \in {"insert", "begin", "find"}
      /\ place = "insert" => j.kind # "event"
      /\ place = "begin" => j.kind = "event"
      /\ place = "find" => j.kind = "manifest"
  BY JobShape
<1>3. Starts(c, r)  BY <1>1
<1>. HIDE DEF place
<1>4. /\ r \in CallRow /\ r.at = place /\ r.job = j /\ r.result = None /\ r.applied = {}
  BY <1>2 DEF Idle, CallRow, RepositoryPlaces
<1>. HIDE DEF r
<1>. QED  BY <1>2, <1>3, <1>4, StartsInv

LEMMA InvInit == Init => IInv
<1>. SUFFICES ASSUME Init  PROVE IInv
  OBVIOUS
<1>. USE DEF Init, SessionInit
<1>1. PICK crew \in Crews :
         call = [c \in Callers |-> IF c \in crew THEN Idle ELSE [Idle EXCEPT !.at = "done"]]
  OBVIOUS
<1>2. /\ Idle \in CallRow /\ Idle.at = "idle" /\ Idle.result = None /\ Idle.applied = {}
      /\ [Idle EXCEPT !.at = "done"] \in CallRow
      /\ [Idle EXCEPT !.at = "done"].at = "done"
      /\ [Idle EXCEPT !.at = "done"].result = None
      /\ [Idle EXCEPT !.at = "done"].applied = {}
  BY DEF Idle, CallRow, MigratorPlaces, Over
<1>3. \A c \in Callers : /\ call[c] \in CallRow /\ call[c].at \in {"idle", "done"}
                        /\ call[c].result = None /\ call[c].applied = {}
  BY <1>1, <1>2
<1>4. << >> \in Seq(Callers) /\ DOMAIN << >> = {}  OBVIOUS
<1>5. TypeOK  BY <1>1, <1>3, <1>4 DEF TypeOK
<1>6. Paired /\ OncePerVersion /\ NoneSkipped
  BY DEF Paired, OncePerVersion, NoneSkipped, Rows
<1>7. SessionInv  BY <1>4 DEF SessionInv
<1>8. \A c \in Migrators : MigratorInv(c)
  <2>. SUFFICES ASSUME NEW c \in Migrators  PROVE MigratorInv(c)
    OBVIOUS
  <2>1. SessionOf[c] \in Sessions /\ call[c].at \in {"idle", "done"}
    BY <1>3, JobShape, SessionAssumption
  <2>. QED  BY <2>1 DEF MigratorInv, MigratorPlaces, Holding, Over
<1>9. \A c \in Callers \ Migrators : RepositoryInv(c)
  <2>. SUFFICES ASSUME NEW c \in Callers \ Migrators  PROVE RepositoryInv(c)
    OBVIOUS
  <2>1. /\ SessionOf[c] \in Sessions /\ call[c].at \in {"idle", "done"}
        /\ call[c].result # "ok" /\ c # None
    BY <1>3, JobShape, SessionAssumption
  <2>. QED  BY <2>1 DEF RepositoryInv, RepositoryPlaces, Appending, Over
<1>10. \A c \in Callers : AppliedInv(c)  BY <1>3 DEF AppliedInv
<1>. QED  BY <1>5, <1>6, <1>7, <1>8, <1>9, <1>10 DEF IInv

LEMMA InvNext == IInv /\ [Next]_vars => IInv'
<1>. SUFFICES ASSUME IInv, [Next]_vars  PROVE IInv'
  OBVIOUS
<1>1. ASSUME NEW c \in Migrators, Migrate(c)  PROVE IInv'
  BY <1>1, MigrateInv
<1>2. ASSUME NEW c \in Callers \ Migrators, Request(c)  PROVE IInv'
  BY <1>2, RequestInv
<1>3. ASSUME NEW c \in Callers, Statement(c)  PROVE IInv'
  BY <1>3, LockInv, EnsureLedgerInv, ReadLedgerInv, BeginMigrationInv, RunSqlInv,
     InsertLedgerInv, CommitMigrationInv, UnlockInv, BindThrowsInv, BeginAppendInv,
     LockRunInv, ReadLastInv, FindManifestInv, InsertInv, CommitAppendInv,
     RollbackAppendInv, StatementFailsInv
  DEF Statement
<1>4. ASSUME NEW s \in Sessions, Quit(s) \/ Lose(s) \/ Crash(s)  PROVE IInv'
  BY <1>4, QuitInv, LoseInv, CrashInv
<1>5. CASE UNCHANGED vars
  <2>1. UNCHANGED <<db, own, tx, lock, status, queue, overlapped, call>>
    BY <1>5 DEF vars, sessionVars
  <2>2. TypeOK' /\ SessionInv'  BY <2>1 DEF IInv, TypeOK, SessionInv
  <2>3. Paired' /\ OncePerVersion' /\ NoneSkipped'  BY <2>1, SameLedgers DEF Ledgers
  <2>4. \A c : /\ Row(c, "schema")' = Row(c, "schema") /\ Row(c, "ledger")' = Row(c, "ledger")
               /\ NewRow(c)' = NewRow(c)
    BY <2>1, SameRows
  <2>5. \A c \in Migrators : MigratorInv(c)'
    BY <2>1, <2>4 DEF IInv, MigratorInv, Recorded, Rows
  <2>6. \A c \in Callers \ Migrators : RepositoryInv(c)'
    BY <2>1, <2>4 DEF IInv, RepositoryInv
  <2>7. \A c \in Callers : AppliedInv(c)'  BY <2>1 DEF IInv, AppliedInv, Rows
  <2>. QED  BY <2>2, <2>3, <2>5, <2>6, <2>7 DEF IInv
<1>. QED  BY <1>1, <1>2, <1>3, <1>4, <1>5 DEF Next

-----------------------------------------------------------------------------
(* The theorems. *)

\* The sessions and the calls on them keep their types and the inductive
\* invariant: the migrator that holds the advisory lock is alone, and its
\* transaction holds what it has run of the first version that is missing; an
\* append whose session is not shared has its own transaction.
THEOREM StorageInvariant == Spec => []IInv
BY InvInit, InvNext, PTL DEF Spec

\* The ledger of applyMigrations tells what has run: once, from the file of
\* that checksum, and never past a version that is missing, wherever sessions
\* and processes are lost.
THEOREM LedgerTellsTheTruth == Spec => []LedgerIsTrue
<1>1. ASSUME IInv  PROVE LedgerIsTrue
  <2>. USE <1>1 DEF IInv
  <2>1. \A r \in db : IsRow(r)  BY DEF TypeOK
  <2>2. ASSUME NEW r \in Rows("schema")
        PROVE  /\ [r EXCEPT !.table = "ledger"] \in Rows("ledger")
               /\ [[r EXCEPT !.table = "ledger"] EXCEPT !.table = "schema"] = r
    <3>1. r \in db /\ r.table = "schema" /\ IsRow(r)  BY <2>1 DEF Rows
    <3>2. [r EXCEPT !.table = "ledger"] \in db  BY <3>1 DEF Paired
    <3>3. [r EXCEPT !.table = "ledger"].table = "ledger"  BY <3>1 DEF IsRow
    <3>4. [[r EXCEPT !.table = "ledger"] EXCEPT !.table = "schema"] = r
      BY <3>1 DEF IsRow
    <3>. QED  BY <3>2, <3>3, <3>4 DEF Rows
  <2>3. ASSUME NEW r \in Rows("ledger")
        PROVE  [r EXCEPT !.table = "schema"] \in Rows("schema")
    <3>1. r \in db /\ r.table = "ledger" /\ IsRow(r)  BY <2>1 DEF Rows
    <3>2. [r EXCEPT !.table = "schema"] \in db  BY <3>1 DEF Paired
    <3>3. [r EXCEPT !.table = "schema"].table = "schema"  BY <3>1 DEF IsRow
    <3>. QED  BY <3>2, <3>3 DEF Rows
  <2>4. Rows("schema") = {[r EXCEPT !.table = "schema"] : r \in Rows("ledger")}
    <3>1. ASSUME NEW r \in Rows("schema")
          PROVE  \E q \in Rows("ledger") : r = [q EXCEPT !.table = "schema"]
      BY <2>2
    <3>. QED  BY <2>3, <3>1
  <2>5. \A r, q \in Rows("schema") : r.key = q.key => r = q
    <3>. SUFFICES ASSUME NEW r \in Rows("schema"), NEW q \in Rows("schema"), r.key = q.key
                  PROVE  r = q
      OBVIOUS
    <3>. DEFINE L(x) == [x EXCEPT !.table = "ledger"]
    <3>1. IsRow(r) /\ IsRow(q)  BY <2>1 DEF Rows
    <3>2. L(r).key = r.key /\ L(q).key = q.key  BY <3>1 DEF IsRow
    <3>3. L(r) \in Rows("ledger") /\ L(q) \in Rows("ledger")  BY <2>2
    <3>4. L(r) = L(q)
      <4>. HIDE DEF L
      <4>. QED  BY <3>2, <3>3 DEF OncePerVersion
    <3>. QED  BY <2>2, <3>4
  <2>. QED  BY <2>4, <2>5 DEF LedgerIsTrue, NoneSkipped
<1>. QED  BY <1>1, StorageInvariant, PTL

\* What a migrator lists as applied and what a repository call has returned is
\* committed, but for sessions on which statements ran inside the transaction
\* of another call.
THEOREM ReportsAreStored == Spec => []ReportedIsStored
<1>1. ASSUME IInv  PROVE ReportedIsStored
  BY <1>1 DEF IInv, ReportedIsStored, AppliedInv, RepositoryInv
<1>. QED  BY <1>1, StorageInvariant, PTL
=============================================================================
