----------------------------- MODULE PsqlSession -----------------------------
(***************************************************************************)
(* Sessions of PsqlSessionClient (packages/storage/psql-session-client):   *)
(* each is one psql child process, fed one statement at a time.  Calls of  *)
(* one process share a session and with it its transaction.  psql stops at *)
(* the first error (ON_ERROR_STOP), which ends the session for everyone.   *)
(*                                                                         *)
(* PostgreSQL is external and modelled by what the statements rely on:     *)
(* committed rows, the rows of open transactions, one advisory lock, the   *)
(* lock of the run row, and unique keys.  A row carries the call that      *)
(* wrote it.                                                               *)
(***************************************************************************)
EXTENDS Naturals, Sequences, FiniteSets

CONSTANTS
    Callers,    \* calls of applyMigrations and of the repositories
    Sessions,
    SessionOf,  \* [Callers -> Sessions]
    None

ASSUME SessionAssumption ==
    /\ SessionOf \in [Callers -> Sessions]
    /\ None \notin Callers \cup Sessions

VARIABLES
    db,         \* rows that are committed
    own,        \* [Sessions -> rows written by its open transaction]
    tx,         \* [Sessions -> the caller whose BEGIN opened the transaction, or None]
    lock,       \* holder of the advisory lock, or None
    rowLock,    \* holder of the lock of the run row, or None
    status,     \* [Sessions -> "open", "quitting" (\q is written) or "closed"]
    queue,      \* [Sessions -> the callers whose query waits, the pending one first]
    overlapped  \* history: sessions that ran a statement inside another call's transaction

sessionVars == <<db, own, tx, lock, rowLock, status, queue, overlapped>>

SessionInit ==
    /\ db = {}
    /\ own = [s \in Sessions |-> {}]
    /\ tx = [s \in Sessions |-> None]
    /\ lock = None
    /\ rowLock = None
    /\ status = [s \in Sessions |-> "open"]
    /\ queue = [s \in Sessions |-> <<>>]
    /\ overlapped = {}

Visible(s) == db \cup own[s]
SameKey(r, q) == r.table = q.table /\ r.key = q.key

\* The query of c is the one that was written to psql.
Pending(c) ==
    LET s == SessionOf[c] IN
    /\ status[s] = "open"
    /\ queue[s] # <<>>
    /\ Head(queue[s]) = c

\* c gets its answer and, unless it is done, queues its next query at once.
Answered(c, more) ==
    LET s == SessionOf[c] IN
    /\ queue' = [queue EXCEPT ![s] = IF more THEN Append(Tail(@), c) ELSE Tail(@)]
    /\ overlapped' = IF tx[s] \in {None, c} THEN overlapped ELSE overlapped \cup {s}
    /\ UNCHANGED status

-----------------------------------------------------------------------------
(* Statements of c                                                         *)

Asks(c) == UNCHANGED <<db, own, tx, lock, rowLock>>

\* A BEGIN inside a transaction is a warning.
Begins(c) ==
    LET s == SessionOf[c] IN
    /\ tx' = IF tx[s] = None THEN [tx EXCEPT ![s] = c] ELSE tx
    /\ UNCHANGED <<db, own, lock, rowLock>>

\* The transaction is over, whoever began it; without one this is a warning.
EndsTransaction(s, kept) ==
    /\ db' = db \cup kept
    /\ own' = [own EXCEPT ![s] = {}]
    /\ tx' = [tx EXCEPT ![s] = None]
    /\ rowLock' = IF rowLock = s THEN None ELSE rowLock

Commits(c) == EndsTransaction(SessionOf[c], own[SessionOf[c]]) /\ UNCHANGED lock
RollsBack(c) == EndsTransaction(SessionOf[c], {}) /\ UNCHANGED lock

\* Outside a transaction a statement commits by itself.
Writes(c, row) ==
    LET s == SessionOf[c] IN
    /\ IF tx[s] = None
       THEN db' = db \cup {row} /\ UNCHANGED own
       ELSE own' = [own EXCEPT ![s] = @ \cup {row}] /\ UNCHANGED db
    /\ UNCHANGED <<tx, lock, rowLock>>

\* The same key is in an open transaction of another session: the insert waits.
Undecided(s, row) == \E o \in Sessions \ {s} : \E r \in own[o] : SameKey(r, row)
Duplicate(s, row) == \E r \in Visible(s) : SameKey(r, row)

\* SELECT ... FOR UPDATE
LocksRow(c) ==
    LET s == SessionOf[c] IN
    /\ rowLock \in {None, s}
    /\ rowLock' = IF tx[s] = None THEN rowLock ELSE s
    /\ UNCHANGED <<db, own, tx, lock>>

LocksSession(c) ==
    /\ lock = None
    /\ lock' = SessionOf[c]
    /\ UNCHANGED <<db, own, tx, rowLock>>

UnlocksSession(c) ==
    /\ lock' = None
    /\ UNCHANGED <<db, own, tx, rowLock>>

-----------------------------------------------------------------------------
(* Ends of a session                                                       *)

\* PostgreSQL drops the connection: its transaction is rolled back unless the
\* last statement, which commits "kept", still came through.
Disconnects(s, kept) ==
    /\ EndsTransaction(s, kept)
    /\ lock' = IF lock = s THEN None ELSE lock
    /\ status' = [status EXCEPT ![s] = "closed"]
    /\ UNCHANGED overlapped

\* The close event rejects the pending query, and with it the chain of promises
\* behind it: all of these callers have their error.
Rejects(s) == {c \in Callers : \E i \in DOMAIN queue[s] : queue[s][i] = c}

Dies(s, kept) ==
    /\ Disconnects(s, kept)
    /\ queue' = [queue EXCEPT ![s] = <<>>]

Release(s) == status' = [status EXCEPT ![s] = "quitting"]

\* psql reads the \q.
Quits(s) ==
    /\ status[s] = "quitting"
    /\ Disconnects(s, {})
    /\ UNCHANGED queue
=============================================================================
