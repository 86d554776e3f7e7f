--------------------------- MODULE PostgresStorage ---------------------------
(***************************************************************************)
(* What runs on the PostgreSQL sessions (packages/storage):                *)
(* applyMigrations, one session per migrating process, and the calls of    *)
(* the repositories, which share the session of their process.  A call     *)
(* waits for each of its statements; an action is one statement with all   *)
(* the code up to the call's next one.                                     *)
(***************************************************************************)
EXTENDS PsqlSession, FiniteSetsExt, Integers

CONSTANTS
    Migrators,      \* callers that migrate; the others use the repositories
    Directories,    \* what a migrator may find: sequences of files
    Jobs,           \* repository calls that may be made
    Crews,          \* sets of callers that may be at work together
    MaxFaults       \* bound on lost sessions and crashes

\* A file has a checksum, and SQL that runs ("good"), that the server rejects
\* ("bad") or that holds a $n, which the client takes for a parameter
\* ("unbound").  A job inserts a row with one statement ("put"), appends an
\* event at a sequence number, or appends a manifest with a fingerprint.  The
\* session of a migrator is its own.
ASSUME JobShape ==
    /\ Migrators \subseteq Callers
    /\ \A c \in Migrators : \A d \in Callers \ {c} : SessionOf[d] # SessionOf[c]
    /\ \A d \in Directories : \A v \in DOMAIN d :
          /\ v \in Nat \ {0} /\ 1 .. v \subseteq DOMAIN d
          /\ d[v].sql \in {"good", "bad", "unbound"}
    /\ \A j \in Jobs : j.kind \in {"put", "event", "manifest"}
    /\ None # "ok"

VARIABLES
    call,       \* [Callers -> where the call stands]
    faults

vars == <<sessionVars, call, faults>>

Idle == [at |-> "idle", job |-> None, dir |-> <<>>, todo |-> {}, applied |-> {}, result |-> None]

Init ==
    /\ SessionInit
    /\ \E crew \in Crews :
          call = [c \in Callers |-> IF c \in crew THEN Idle ELSE [Idle EXCEPT !.at = "done"]]
    /\ faults = 0

Over == {"idle", "done", "dead"}

At(c, place) == Pending(c) /\ call[c].at = place

\* The answer takes c to r.
Goes(c, r) ==
    /\ call' = [call EXCEPT ![c] = r]
    /\ Answered(c, r.at # "done")
    /\ UNCHANGED faults

To(c, place) == Goes(c, [call[c] EXCEPT !.at = place])
Ends(c, result) == Goes(c, [call[c] EXCEPT !.at = "done", !.result = result])

\* A call begins with its first query; on a session that has ended it fails.
Starts(c, r) ==
    LET s == SessionOf[c] IN
    /\ call[c].at = "idle"
    /\ IF status[s] = "open"
       THEN /\ call' = [call EXCEPT ![c] = r]
            /\ queue' = [queue EXCEPT ![s] = Append(@, c)]
       ELSE /\ call' = [call EXCEPT ![c] = [r EXCEPT !.at = "done", !.result = "error"]]
            /\ UNCHANGED queue
    /\ UNCHANGED <<db, own, tx, lock, rowLock, status, overlapped, faults>>

-----------------------------------------------------------------------------
(* applyMigrations                                                         *)

Migrate(c) ==
    \E d \in Directories : Starts(c, [Idle EXCEPT !.at = "lock", !.dir = d])

Lock_Skipped(c) == At(c, "lock") /\ Asks(c) /\ To(c, "ensure")

Lock(c) == At(c, "lock") /\ LocksSession(c) /\ To(c, "ensure")

\* The table is there from now on, so the ledger can be read.
EnsureLedger(c) == At(c, "ensure") /\ Asks(c) /\ To(c, "ledger")

Ledger(s) == {r \in Visible(s) : r.table = "ledger"}

Mismatch(dir, rows) == \E r \in rows : r.key \in DOMAIN dir /\ r.val # dir[r.key].sum
PendingVersions(dir, rows) == DOMAIN dir \ {r.key : r \in rows}

\* The next version, or the way out.
Proceed(r) ==
    IF r.todo = {} THEN [r EXCEPT !.at = "unlock", !.result = "ok"] ELSE [r EXCEPT !.at = "begin"]

ReadLedger(c) ==
    LET rows == Ledger(SessionOf[c])
        dir == call[c].dir IN
    /\ At(c, "ledger")
    /\ Asks(c)
    /\ Goes(c, IF Mismatch(dir, rows)
               THEN [call[c] EXCEPT !.at = "unlock", !.result = "checksum_mismatch"]
               ELSE Proceed([call[c] EXCEPT !.todo = PendingVersions(dir, rows)]))

Version(c) == Min(call[c].todo)
File(c) == call[c].dir[Version(c)]
Row(c, table) == [table |-> table, key |-> Version(c), val |-> File(c).sum, by |-> c]

BeginMigration_Autocommit(c) == At(c, "begin") /\ c \in Migrators /\ Asks(c) /\ To(c, "sql")

BeginMigration(c) == At(c, "begin") /\ c \in Migrators /\ Begins(c) /\ To(c, "sql")

RunSql(c) ==
    /\ At(c, "sql")
    /\ File(c).sql = "good"
    /\ Writes(c, Row(c, "schema"))
    /\ To(c, "record")

InsertLedger_Reported(c) ==
    /\ At(c, "record")
    /\ ~Undecided(SessionOf[c], Row(c, "ledger"))
    /\ ~Duplicate(SessionOf[c], Row(c, "ledger"))
    /\ Writes(c, Row(c, "ledger"))
    /\ Goes(c, [call[c] EXCEPT !.at = "apply", !.applied = @ \cup {Version(c)}])

InsertLedger(c) ==
    /\ At(c, "record")
    /\ ~Undecided(SessionOf[c], Row(c, "ledger"))
    /\ ~Duplicate(SessionOf[c], Row(c, "ledger"))
    /\ Writes(c, Row(c, "ledger"))
    /\ To(c, "apply")

CommitMigration(c) ==
    /\ At(c, "apply")
    /\ Commits(c)
    /\ Goes(c, Proceed([call[c] EXCEPT !.applied = @ \cup {Version(c)},
                                       !.todo = @ \ {Version(c)}]))

\* The lock is given back and the connection released.
Unlock(c) ==
    LET s == SessionOf[c] IN
    /\ At(c, "unlock")
    /\ UnlocksSession(c)
    /\ call' = [call EXCEPT ![c].at = "done"]
    /\ queue' = [queue EXCEPT ![s] = Tail(@)]
    /\ Release(s)
    /\ UNCHANGED <<overlapped, faults>>

\* bindParameters throws before anything is written to psql.  The chain of
\* promises is rejected for good, so neither ROLLBACK nor the unlocking is
\* sent: what ends transaction and lock is the release.
BindThrows(c) ==
    LET s == SessionOf[c] IN
    /\ At(c, "sql")
    /\ File(c).sql = "unbound"
    /\ call' = [call EXCEPT ![c].at = "done", ![c].result = "migration_failed"]
    /\ queue' = [queue EXCEPT ![s] = <<>>]
    /\ Release(s)
    /\ UNCHANGED <<db, own, tx, lock, rowLock, overlapped, faults>>

-----------------------------------------------------------------------------
(* The repositories                                                        *)

Request(c) ==
    \E j \in Jobs :
        Starts(c, [Idle EXCEPT !.job = j,
                               !.at = CASE j.kind = "put" -> "insert"
                                        [] j.kind = "event" -> "begin"
                                        [] j.kind = "manifest" -> "find"])

\* The row that the job of c inserts.
NewRow(c) ==
    LET j == call[c].job IN
    [table |-> IF j.kind = "put" THEN "runs" ELSE j.kind, key |-> j.key, val |-> j.val, by |-> c]

\* withTransaction
BeginAppend(c) == At(c, "begin") /\ c \notin Migrators /\ Begins(c) /\ To(c, "run")

\* A run that is not there: the transaction is rolled back.
LockRun(c) ==
    /\ At(c, "run")
    /\ LocksRow(c)
    /\ To(c, IF \E r \in Visible(SessionOf[c]) : r.table = "runs" THEN "last" ELSE "rollback")

\* parseRows does not know the statement that asks for the last sequence and
\* answers with no rows, whatever the table holds.
LastSequence == -1

ReadLast(c) ==
    /\ At(c, "last")
    /\ Asks(c)
    /\ To(c, IF call[c].job.key = LastSequence + 1 THEN "insert" ELSE "rollback")

\* append of a manifest: the same one again is no error.
FindManifest(c) ==
    LET found == {r \in Visible(SessionOf[c]) : SameKey(r, NewRow(c))} IN
    /\ At(c, "find")
    /\ Asks(c)
    /\ IF found = {} THEN To(c, "insert")
       ELSE Ends(c, IF \E r \in found : r.val = NewRow(c).val THEN "ok" ELSE "error")

Insert(c) ==
    /\ At(c, "insert")
    /\ ~Undecided(SessionOf[c], NewRow(c))
    /\ ~Duplicate(SessionOf[c], NewRow(c))
    /\ Writes(c, NewRow(c))
    /\ IF call[c].job.kind = "event" THEN To(c, "commit") ELSE Ends(c, "ok")

CommitAppend(c) == At(c, "commit") /\ Commits(c) /\ Ends(c, "ok")

RollbackAppend(c) == At(c, "rollback") /\ RollsBack(c) /\ Ends(c, "error")

-----------------------------------------------------------------------------
(* Failures                                                                *)

\* What a call makes of a rejected query.  The result of a migration stands
\* when only the unlocking is refused.
Rejected(c) ==
    LET r == call[c] IN
    [r EXCEPT !.at = "done",
              !.result = IF r.at = "unlock" THEN @
                         ELSE IF r.at \in {"begin", "sql", "record", "apply"} /\ c \in Migrators
                         THEN "migration_failed" ELSE "error"]

AllRejected(s) ==
    call' = [c \in Callers |-> IF c \in Rejects(s) THEN Rejected(c) ELSE call[c]]

\* The server refuses the pending statement.
Refused(c) ==
    \/ At(c, "sql") /\ File(c).sql = "bad"
    \/ At(c, "record") /\ Duplicate(SessionOf[c], Row(c, "ledger"))
    \/ At(c, "insert") /\ Duplicate(SessionOf[c], NewRow(c))

StatementFails(c) ==
    /\ Refused(c)
    /\ AllRejected(SessionOf[c])
    /\ Dies(SessionOf[c], {})
    /\ UNCHANGED faults

\* What the pending statement commits if it comes through although nobody hears
\* of it.
Unheard(s) ==
    IF queue[s] = <<>> THEN {}
    ELSE LET c == Head(queue[s]) IN
         CASE call[c].at \in {"apply", "commit"} -> own[s]
           [] call[c].at = "insert" /\ tx[s] = None /\ ~Refused(c) -> {NewRow(c)}
           [] OTHER -> {}

Fault(s) ==
    /\ status[s] # "closed"
    /\ faults < MaxFaults
    /\ faults' = faults + 1
    /\ \E kept \in {{}, Unheard(s)} : Dies(s, kept)

\* psql or the connection is lost.
Lose(s) == Fault(s) /\ AllRejected(s)

\* The process dies with its calls; psql reads the end of its input.  A write to
\* a psql that has gone ends the process too, since nothing listens for it.
Crash(s) ==
    /\ Fault(s)
    /\ call' = [c \in Callers |->
          IF SessionOf[c] = s /\ call[c].at \notin Over THEN [call[c] EXCEPT !.at = "dead"]
          ELSE call[c]]

-----------------------------------------------------------------------------
Statement(c) ==
    \/ Lock(c) \/ EnsureLedger(c) \/ ReadLedger(c) \/ BeginMigration(c) \/ RunSql(c)
    \/ InsertLedger(c) \/ CommitMigration(c) \/ Unlock(c) \/ BindThrows(c)
    \/ BeginAppend(c) \/ LockRun(c) \/ ReadLast(c) \/ FindManifest(c) \/ Insert(c)
    \/ CommitAppend(c) \/ RollbackAppend(c) \/ StatementFails(c)

Quit(s) == Quits(s) /\ UNCHANGED <<call, faults>>

Next ==
    \/ \E c \in Migrators : Migrate(c)
    \/ \E c \in Callers \ Migrators : Request(c)
    \/ \E c \in Callers : Statement(c)
    \/ \E s \in Sessions : Quit(s) \/ Lose(s) \/ Crash(s)

\* psql works on what it was sent, and answers are delivered.
Fairness ==
    /\ \A c \in Callers : WF_vars(Statement(c))
    /\ \A s \in Sessions : WF_vars(Quit(s))

Spec == Init /\ [][Next]_vars /\ Fairness

-----------------------------------------------------------------------------
(* Properties                                                              *)

Rows(table) == {r \in db : r.table = table}

\* The ledger tells what has run: the SQL of a version was committed once if its
\* row is in the ledger and never if it is not, by the same migrator and from
\* the file with that checksum, and never past a version that has failed;
\* whatever is lost or dies between BEGIN and COMMIT (applyMigrations).
LedgerIsTrue ==
    /\ Rows("schema") = {[r EXCEPT !.table = "schema"] : r \in Rows("ledger")}
    /\ \A r, q \in Rows("schema") : r.key = q.key => r = q
    /\ \A r \in Rows("ledger") : \A v \in 1 .. r.key : \E q \in Rows("ledger") : q.key = v

\* What a call has reported is in the database and stays there: the versions a
\* migrator lists as applied, even when a later one failed, and the row of a
\* repository call that returned.  Left out are sessions on which a statement
\* ran inside the transaction of another call: a ROLLBACK there undoes what
\* others were told is stored (withTransaction on a shared client).
ReportedIsStored ==
    \A c \in Callers :
        /\ \A v \in call[c].applied : \E r \in Rows("ledger") : r.key = v /\ r.by = c
        /\ call[c].result = "ok" /\ c \notin Migrators /\ SessionOf[c] \notin overlapped =>
               \E r \in db : SameKey(r, NewRow(c)) /\ r.val = NewRow(c).val

\* A migrator has itself or a fault to blame for its failure, not another one.
Blameless(c) ==
    call[c].result = "migration_failed" =>
        faults > 0 \/ \E v \in DOMAIN call[c].dir : call[c].dir[v].sql # "good"

\* Every call comes to an end, with no lock or transaction of a migrator left
\* behind even where the unlocking could not be sent, and migrators that meet
\* wait for each other instead of failing (withSessionLock, release).
CallsEnd ==
    <>[](/\ \A c \in Callers : call[c].at \in Over
         /\ lock = None
         /\ \A c \in Migrators : tx[SessionOf[c]] = None /\ Blameless(c))
=============================================================================
