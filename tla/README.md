# Verification of Memory Recall

TLA+ models of the parts of Memory Recall that keep state under concurrency and
failure, TLC configurations that check them on small instances, and TLAPS proofs
of their main invariants for instances of every size. Paths below are relative
to the repository; line numbers refer to the modelled commit.

1. [The system](#1-the-system)
2. [Modules and their correspondence to the code](#2-modules-and-their-correspondence-to-the-code)
3. [Runs](#3-runs)
4. [Proofs](#4-proofs)
5. [Where the code and its documents disagree](#5-where-the-code-and-its-documents-disagree)
6. [Hazards and their properties](#6-hazards-and-their-properties)
7. [Not modelled](#7-not-modelled)
8. [Plan](#8-plan)

To check a run: `tlc -config <name>.cfg <MC module>`; to check the proofs of a
module: `tlapm <module>.tla`.

## 1. The system

Memory Recall keeps reviewed, local memory for coding agents and runs local
workflows over it. The core is a set of JavaScript providers, each around one
SQLite database or one directory, used by a command line, an HTTP control API
and MCP servers. Nothing coordinates these processes but the files they share.

### Durable workflow runtime (`providers/native/workflow-durable-sqlite`)

- **State.** SQLite tables `runs`, `steps`, `approvals`, `effects` and an event
  history; per process, the handlers registered and a map `active` from runs to
  abort controllers.
- **Operations.** `start`, `cancel`, `signal`/`resolveApproval`; a worker's
  `tick`: expire approvals, claim a runnable run under a lease, work one step
  (activity, timer or approval), give the run back. An idempotent activity
  records its effect in `effects` before the step completes, and a later attempt
  reuses the record.
- **Interaction.** Workers of several processes (`scripts/workflow-worker.mjs`)
  share the file; handlers are callbacks that run while the database is free for
  everyone else; a timeout abandons a handler that goes on running.
- **Hard.** Statements of two processes between any two statements of a third;
  leases that lapse while a handler runs; crashes between effect and completion;
  a cancellation or an approval at any moment; timed-out handlers that still
  reach the effect boundary.
- **Correct when** completed runs have completed steps, steps go in order, a
  stale attempt cannot commit, effects are recorded once and by a live attempt,
  a suspended run can be woken, histories end once, and every run ends.

### Memory provider (`providers/native/memory-sqlite`)

- **State.** `memory_proposal_queue`, `memory_facts` (with episodes, entities,
  edges and a search index that follow the facts) and `memory_records`.
- **Operations.** `enqueueProposal`; `claimProposal` and `claimProposalById`
  under a lease of one minute; `recordProposalResult`; `approveProposalFact`
  (claim, then fact and decision in one transaction); `rejectProposal` (claim,
  then a result); `addTemporalFact` behind the proposal gate; `put`,
  `supersede`, `forget` on records; many read-only queries.
- **Interaction.** Every command-line call opens the database as its own process
  with the reviewer id `memory-review`; the control API reviews as
  `memory-cockpit`.
- **Hard.** Two reviewers of one proposal, a lease that lapses under a reviewer,
  a result checked on one read and written by another statement, the order in
  which observations are approved.
- **Correct when** facts rest on decided proposals, an approval and its fact come
  together, decisions and retired facts are final, and each subject and
  predicate has one current truth and never loses its last.

### Embedded workflow runtime (`providers/native/workflow-embedded`, `packages/workflow-runtime`, `packages/storage/src/file-store.mjs`)

- **State.** Runs and events in one JSON file; per process a map of abort
  controllers and the queue of updates of the file.
- **Operations.** `start` (row, step loop with retries, timeouts and events,
  result), `cancel`, queries.
- **Interaction.** The control API starts runs of the content workflow with it.
- **Hard.** Awaits between the check for a duplicate and the start, a
  cancellation at any await, handlers that go on after they were given up, one
  failed write that rejects every later update of the process.
- **Correct when** the file shows the life of a run, no handler starts after an
  abort, and only faults leave runs behind.

### Tools and policy (`packages/tool-registry`, `packages/policy`)

- **State.** Registered tools, one-use grants, records of idempotent effects, the
  files of the workspace. The policy engine is a pure function of a request.
- **Operations.** `execute`: validate, decide, audit, grant, run the handler under
  a deadline, report.
- **Hard.** A deadline or a cancellation against a handler that goes on, a retry
  under the same key, a failing audit or event sink.
- **Correct when** an aborted call leaves no record, retries write once, what is
  reported as completed has happened, writes are audited, every call is answered.

### Artifact store, backup and restore (`providers/native/artifact-filesystem`, `packages/operations`)

- **State.** Bodies named by their content, records, tombstones, all of them files;
  a backup is a directory with a state, an export of these and a manifest.
- **Operations.** put, remove, retention, export, import; create, verify, restore.
- **Hard.** No lock anywhere; a crash between any two files; use of the store
  while it is exported.
- **Correct when** records have bodies, nothing leaks, a backup that verifies is
  whole, a restore is sound and can be repeated.

### Context compiler and manifests (`packages/context-compiler`, `providers/native/context-manifest-local`)

- **State.** A compilation in progress (plan, candidates, reports); manifest files.
- **Operations.** Ask each source of the plan behind policy and deadline, merge,
  select under a budget, assemble, append the manifest, read it back, announce it.
- **Hard.** Sources that hang, fail or answer late, records that change between
  two sources, overlapping appends of one manifest.
- **Correct when** candidates come from sources that succeeded, the selection
  accounts for every candidate within its budget, and what was announced is stored.

### Control API and identity (`services/control-api`, `providers/native/identity-local`, `scripts/auth-bootstrap.mjs`)

- **State.** Users, roles, sessions and tokens in one JSON file, `state.json` with
  the runs, rate limiters, requests in progress and open streams.
- **Operations.** One handler per route behind limits, authentication, CSRF,
  policy and its audit; the bootstrap script works on the same identity file.
- **Hard.** Whole-file updates queued in one process only, a credential that ends
  while a request waits, a failed write in the middle of a queue.
- **Correct when** what was answered is kept, an ended credential opens nothing,
  every request ends.

### PostgreSQL storage (`packages/storage/src/p*.mjs`, `scripts/db.mjs`)

- **State.** The database, one `psql` process per session with a queue of
  statements, an advisory lock for migrations.
- **Operations.** `applyMigrations`, the repositories' calls, `release`.
- **Hard.** Two migrators, a session lost between `BEGIN` and the answer to
  `COMMIT`, calls that share a session and its transaction.
- **Correct when** the ledger says what has run, what was reported is stored, and
  no lock outlives its holder.

### Other parts

| part | state | why it is left out or for later |
| --- | --- | --- |
| memory records (`memory_records`) | rows with a chain of replacements | single transactions; next in the plan |
| model gateway | a call in progress | one timeout and one repair; planned |
| MCP bridges | cursors | read-only requests; planned last |
| semantic setup | configuration files | interactive detection, file writes |
| harness context | the registry of pinned context packs | text, but for the registry, which is planned |
| code intelligence, evidence, evaluation, replay, observability, content intelligence, contracts | none that outlives a call | computations over text |
| command line, web cockpit | none shared | argument handling and rendering over the parts above |
| Rust store and ingest | a SQLite store like the memory provider's | experimental accelerator |

`PROJECT.json` lists every part with its status.

## 2. Modules and their correspondence to the code

| module | role |
| --- | --- |
| `DurableWorkflow` | the durable workflow runtime: state, actions, properties |
| `DurableWorkflowProofs` | its type invariant and all safety properties of its passing runs, proved |
| `MemoryReview` | the proposal queue and the temporal facts |
| `MemoryReviewProofs` | its type invariant and all properties of its passing run, proved |
| `Policy` | the policy engine, as operators of a request |
| `ToolExecution` | the tool executor over `Policy` |
| `ToolExecutionProofs` | its four safety properties, proved |
| `ArtifactStore` | the artifact store |
| `Backup` | backup and restore composed with the `ArtifactStore` in use |
| `BackupProofs` | the four properties of the store, its backups and restores, proved |
| `RunLifecycle` | what a runtime promises of a run: the abstract specification |
| `EmbeddedWorkflow` | the embedded runtime, which implements `RunLifecycle` |
| `EmbeddedWorkflowProofs` | that refinement and its two other properties, proved |
| `ContextSelection` | eligibility, selection and assembly, as operators |
| `ContextCompiler` | compilations and manifests over `ContextSelection` |
| `ContextCompilerProofs` | where candidates come from, what a manifest accounts for and what stays announced, proved |
| `Identity` | the identity file and its queues of updates, over `Policy` |
| `ControlApi` | requests of the control API, composed with `Identity` |
| `ControlApiProofs` | what was answered stands and ended credentials stay out, proved |
| `PsqlSession` | sessions of the PostgreSQL client, and what the code relies on of the server |
| `PostgresStorage` | migrations and repository calls composed with `PsqlSession` |
| `PostgresStorageProofs` | its two safety properties, proved |
| `MC...` | the small instance of each: `MCDurableWorkflow`, `MCMemoryReview`, `MCToolExecution`, `MCBackup`, `MCEmbeddedWorkflow`, `MCContextCompiler`, `MCControlApi`, `MCPostgresStorage` |

Operators named `<Definition>_<Fault>` are seeded faults: plausible bugs of the
definition that follows, kept beside it. With the fault in place of the
definition TLC refutes the property named in `PROJECT.json`; they are used
nowhere else.

### DurableWorkflow

One action is one SQL statement or one `BEGIN IMMEDIATE` transaction, because
SQLite serialises exactly these between processes. Within a process JavaScript
runs to completion, so a worker between two `await`s (a `pc` in `Sync`) blocks
the other workers and client calls of its process: `LoopFree` is that condition.

- `run`, `step`, `approval`, `effect` are the tables; a row of kind `"none"` or
  the value `None` is an absent row. `ended` keeps the terminal events of each
  history in order; other events only echo transitions the tables show.
- `wk` is the local state of each `tick` (program counter, row read, attempt
  read, output), `active` the map of abort controllers, `zombie` the handler
  invocations that lost the race with their timeout and are still running.
- A tick is `TickBegin` and `ExpireOne` (`#expirePendingApprovals`), `Scan`,
  `TryRow`, `Claim` and `ScanDone` (`#claim`: the query, each candidate, its
  conditional `UPDATE`), `WorkRead`, `MarkStarted`, `MarkResumed` (`#workClaim`),
  then per kind `ScheduleTimer`, `RequestApproval`, `CompleteWait`, or
  `LookupEffect`, `BeginAttempt`, `HandlerReturns`/`HandlerThrows`/`Timeout`,
  with `EffectBegin` and `EffectCommit` around `execute`, and `FailCommit`.
- `Start`, `Cancel`, `Resolve` are the client calls. A repeated `start` with the
  same key, or any call that throws, changes nothing and is no action.
- `Crash` ends a process with all its workers and zombies; `close()` does the
  same.

Abstractions. Each deadline is a flag raised by `TimerDue`, `ApprovalDue` or
`LeaseLapse`; `LeaseOverrun` raises the flag of a lease whose holder is still at
work. A stored value is named after the invocation that produced it
(`Outputs`), which is what the properties tell apart; JSON bounds are the
constants `Oversized` and `RunOversized`. Rows of a query are tried in any
order, which includes the code's `ORDER BY`. Definitions never change, so the
fingerprint comparison of `#workClaim` (line 659) cannot fail; the release
branch of line 730 cannot be reached. A handler of an idempotent step calls
`effect()` once and returns its result, as the handlers in the repository do.

### MemoryReview

One action is again one statement or transaction; every caller is a process.

- `queue` and `fact` are the tables. `queue[p].lapsed` says that `lease_until` is
  over. A fact keeps its validity (`from`, `until`), because the supersession
  compares it; subject, predicate and object are those of its proposal, which
  `#assertProposalPayloadMatches` enforces.
- `call` is where each caller stands: idle, holding a claim to approve, reject or
  work on a proposal, about to write the result it has checked, or past the
  proposal gate.
- `Enqueue` is `enqueueProposal`; `ClaimById` and `ClaimNext` are the two claims,
  each with the poisoning of abandoned claims that precedes it; `RecordRead` and
  `RecordWrite` are the two unconnected statements of `recordProposalResult`;
  `ApproveCommit` is the transaction of `approveProposalFact`; `AddCheck` and
  `AddCommit` are the gate and the transaction of `addTemporalFact`; `Retired`
  is the `WHERE` clause of the supersession and `Materialize` its effect.
- `LeaseLapse`, `LeaseOverrun` and `Crash` are the environment. A call that
  throws between two statements is a `Crash` too.

Abstractions. `claimProposal` takes one proposal, in any order. No caller passes
an end date with a fact, and only benchmarks switch the supersession of
`addTemporalFact` off. Episodes, entities, edges and the search index follow the
fact inside its transaction and are part of `Materialize`. A result is recorded
as `applied`, or with an error as `poison` or, when retried, `pending`, as every
caller in the repository does.

### Policy and ToolExecution

`Policy` has one named condition per reason to deny: `CapabilityDenials`,
`ApprovalDenials` and the rest of the checks make `Denials`, the set of reasons that
hold, and `Allowed` is the decision by what became of its audit:
recorded, failed, or none, when the service has no audit sink and the decision
stands as it is. Requests are well formed.

`ToolExecution`: an action is what one call does between two awaits.

- `req` is what each call asks, `call` how far it is, `records` the effect
  boundary's records by key, `files` the workspace, by the call that wrote last.
- `Receive`, `Requested`, `Decide`, `Authorized`, `Complete`, `ReportDenial` and
  `ReportFailure` are the stages of `execute` around its events and the audit;
  `StartHandler`, `StartWrite`, `TempWritten`, `RenameLands`, `WriteFails`,
  `RenameReturns` and `ReadReturns` are the two file handlers of the broker,
  which go on after `Deadline` or `Cancel`; `GrantEnds` is the lapse of a grant.
- `sink` in a request says whether the policy of the registry that is called has an
  audit sink: a registry is built without one unless its creator passes one
  (`tool-registry`, 965-966). Registries may share the workspace and the boundary.

A fingerprint is the tuple of the fields it hashes. The catalogue and handlers
that touch no state are left out.

### ArtifactStore and Backup

An action is one file operation. `objects`, `records` and `tombstones` are the
directories, `op` what each worker (an operation of any process) is about to do.
`PutBegin` to `WriteRecord` are `put`, `RemoveBegin` to `WriteReceipt` are
`remove`, `PlanRetention` and `ApplyNext` the retention run; `Stop` ends an
operation between two files, for whatever reason. `raced` notes the bodies that a
removal deleted after a put had found them.

`Backup` adds `backup` (each directory, as far as its writer is), `target` and
`restore`: `SaveState`, `ExportRecords`, `CopyObject`, `ExportTombstones`, `Seal`;
`Damage` of any file later, also during a restore; `RestoreBegin` (with the
verification), `RestoreState`, `ReadExport`, `ImportObject`, `ImportRecord`,
`ImportTombstones`, `RestoreEnd` (with the integrity check) and `RestoreDies`.

A restore reads each file of the backup again after it was verified, and what it
makes of a damaged one depends on the file. A body is compared with its hash and
the manifest of the export with its fingerprint, so damage to either ends the
restore. The state file is looked at for its shape only: it may be lost, and the
restore fails before it writes anything, or well formed but different, and is
installed (`Altered`). A record is looked at for its shape and for whether the body
it names was imported: one that was changed is imported, under the id it now has
(`ImportAltered`; the target keeps such records apart, with the body each names).
A tombstone must still name its record (`TombstonesRead`). What is already in the
target must not differ (`ImportGenuine`, `ImportTombstones`).

### RunLifecycle and EmbeddedWorkflow

`RunLifecycle` is the abstract specification: a run is created, advances step by
step, and ends once, as completed only with all steps, as cancelled only when
asked to, by its caller or by one of its handlers.

`EmbeddedWorkflow`: an action is what runs between two awaits of a `start`.

- `rows` and `history` are the file, `controllers` and `aborted` the map of abort
  controllers, `abandoned` the handlers that were given up and go on, `broken` the
  rejected queue of updates. `resigned` notes the calls of which a handler threw an
  error with the code `run_cancelled`: the loop ends such a run as cancelled, without
  a retry and without asking whether the call was aborted (`workflow-runtime`,
  90-92 and 105-108).
- `Start`, `Register`, `CreateRow`, `Loop`, `Emit`, `Invoke`, `HandlerReturns`,
  `HandlerThrows`, `Timeout`, `StopHandler`, `SaveResult` follow the code;
  `HandlerEmits` and `AbandonedEnds` are what handlers do late; `WriteFails`,
  `Rejected` and `Crash` are the faults. An event that a handler emits is a `note`:
  the type is the handler's to choose, and it is taken to be none of those the loop
  records itself.
- The refinement mapping shows the first row of a run as its status, its recorded
  `step.completed` events as its progress, and the abort of its call, or the error
  with which a handler declared it cancelled, as the request to cancel. It is over
  the runs that one call starts (`OwnRuns`): two
  overlapping starts of one id share the first row, see section 6.

### ContextSelection and ContextCompiler

`ContextSelection` computes eligibility, conflicts, utilities in units of 1/20,
the greedy loop with its caps, thresholds and budget, and the assembly. The text
of a record is a topic; scores are small numbers chosen so that every threshold
has records on both sides. Sorting is by rank: an order gives for each element
those before it (`ById`, the sections of `Assemble`), and `Sorted` puts each
element at its rank. `Greedy` is one recursive function over the number of
optional candidates, and `Tokens` a sum over a set, so that both can be
evaluated and reasoned about.

`ContextCompiler` asks the sources one after the other: `Begin`, `Ask` (policy),
`Answer`, `QueryFails`, `QueryCancelled`, `Deadline`, `Hang`, `Merge`
(`mergeSourceOutput`), then `Compile` (selection and assembly run without an
await), `AppendCheck` and `AppendWrite` (the two halves of `append`), `ReadBack`,
`Announce`. `Edit` is another process that changes a record; `Abort` is the
caller's signal. `overlapped` notes the manifests that two appends looked for
before either was written.

### Identity and ControlApi

`Identity`: `file` is `identity.json`; `queue` and `snapshot` are the updates of
each process, which read the file, compute and rename a new one over it. Each
update is an operator from the state read to a new state or an error.
`overlapped` notes that an update wrote over one it had not read.

`ControlApi`: a request is a record of what the checks tell apart; `Routes` holds
the contract of every route. `Receive`, `CheckRequest`, `CheckLogin`,
`VerifyPassword`, `Authenticate`, `Execute`, `RecallMap`, `WorkflowEnds`,
`StreamCloses` are the stages of a request, `UpdateReads`, `UpdateSettles` and
`SaveEnds` the updates of the two files, `WindowEnds`, `Expire` and `Crash` the
environment, `ScriptStarts` the bootstrap script. `issued`, `ended` and `kept` note
what was answered, and `dead` in a call that its credential had been ended when it
arrived at a route that asks for one. Read-only routes are answered
without what they compute. `createUser`, `putWorkspace` and `putMembership` are
called by tests only; there is one workspace.

### PsqlSession and PostgresStorage

An action is one statement with all the code up to the call's next one. `queue`
is what waits on a session, `tx` its transaction, `own` the rows the transaction
has written, `db` what is committed, `lock` the advisory lock and `rowLock` the lock
of the run row. PostgreSQL is external: committed rows, unique keys and locks are
what the statements rely on. `ON_ERROR_STOP` makes a failed statement end the
session (`StatementFails`, `AllRejected`); a lost session's last statement may or
may not have taken effect (`Lose`).

`PostgresStorage` has `Migrate`, `Lock`, `EnsureLedger`, `ReadLedger`,
`BeginMigration`, `RunSql`, `InsertLedger`, `CommitMigration`, `Unlock` for
`applyMigrations`, and `Request`, `BeginAppend`, `LockRun`, `ReadLast`,
`FindManifest`, `Insert`, `CommitAppend`, `RollbackAppend` for the repositories.
`LastSequence` is what the client's `parseRows` makes of the answer, which is
nothing. A single `INSERT` stands for the writes of the other repositories.

## 3. Runs

| run | instance | shows |
| --- | --- | --- |
| `durable_one_process` | 1 run of an idempotent activity, a timer and an approval; 1 process, 2 workers; 2 approvals, 2 attempts; 1 crash, 1 overrun | `StepsInOrder`, `SuspendedHasWaker`, `OneApprovalPerStep`, `AttemptBudget`, `OneTerminalEvent`, `AbortDelivered` (one handler at a time, and a cancellation reaches it), and `EventuallyEnds` under fairness |
| `durable_two_processes` | 1 run of 2 activities, the second idempotent; 2 processes with a worker each; 2 attempts; 1 crash, 1 overrun | `CompletedMeansAll`, `NoStaleCommit`, `EffectOutputAgrees`, `EffectByLiveAttempt` |
| `durable_shared_key` | 2 runs whose definitions share an idempotency key for different operations; 2 processes, one without the last handler; run output over its bound | `KeyKeepsOperation` |
| `durable_approve_after_cancel` | 1 process, an approval step | violation of `TerminalIsFinal` |
| `memory_review` | 3 proposals about one subject and predicate (two superseding, one not), 2 processes with one reviewer id, 1 overrun, 2 times; the first proposal may be claimed three times | `ApprovalHasFact`, `FactsAreGated`, `OneActiveObject`, `SlotKeepsTruth`, `DecisionFinal`, `HistoryFinal` |
| `memory_rejected_fact` | as above | violation of `RejectedStaysOut` |
| `tool_execution` | 3 calls, the third a retry of the first, over requests that meet every refusal, denial and handler, through registries with and without an audit sink; 1 fault of the sink or the audit | `AbortedNeverRecords`, `EffectOnce`, `CompletedWriteHappened`, `WritesAudited`, and `EventuallyAnswered` under fairness |
| `artifact_backup` | 2 records of one body, 2 workers, 3 operations, 2 backups; 1 operation, backup or restore cut short or 1 file damaged, at any time; 2 altered records in the target | `RecordHasBody`, `NoStrayBody`, `VerifiedIsWhole`, `RestoreSound` |
| `embedded_workflow` | 3 calls of which 2 are made, 2 runs, one of them started by two calls; 2 steps, the second with a retry; 1 failed write or crash, 1 event of a handler | `ImplementsLifecycle` (the refinement), `NoHandlerAfterAbort`, `LeftBehindByFaults` |
| `context_compile` | 2 compilations over 7 records (a policy, a required one, duplicates, a superseding one, a hidden one), 1 edit, 1 fault | `OnlyFromSuccess`, `SelectionSound`, `AnnouncedIsStored`, and `QueriesEnd` under fairness |
| `control_api` | 3 requests of 6, 7 and 11 kinds, over an empty identity file beside the bootstrap script or over one with an owner and an auditor; 1 failed write, crash or expiry | `AnsweredKept`, `EndedIsOut`, and `RequestsEnd` under fairness |
| `postgres_storage` | 2 migrators, each over one of 4 releases (good, faulty, unbindable, changed), or 3 repository calls on 2 sessions; 1 lost session or crash | `LedgerIsTrue`, `ReportedIsStored`, and `CallsEnd` under fairness |

**Bounds.** Two workers are what every hazard of the durable runtime needs: a
holder of a lease and the one that takes it over. One crash and one overrun can
each happen at every point, and in either order; a second of either only
repeats what the first enables. Two attempts distinguish the last attempt from
an earlier one. Two approvals suffice because one run has one approval step and
the second approval is the one `OneApprovalPerStep` excludes. In `memory_review`
three claims of the first proposal are needed: one overrun, one decision that a
late write reopens, and one more claim. With two, the reopening that limits
`HistoryFinal` cannot happen. The fact-less proposal kind, which approval poisons,
is in the model and in the proofs but in no run.

In the other runs two actors meet at every await, file or statement, and one
fault falls anywhere: `tool_execution` needs the third call for a retry of work
that another call interrupts; `artifact_backup` needs two records of one body for
the removal that must spare it, and two backups for a restore over another (each
backup lists at most two records, so a restore reads at most two altered ones;
`MaxAltered` bounds what several restores leave);
`embedded_workflow` makes two calls, either both of one run or of a run each;
`context_compile` needs the second compilation for overlapping appends and the
edit for sources that read different versions; `control_api` needs one request
that makes a credential, one that ends it and one that uses it;
`postgres_storage` never mixes migrators and repositories, which touch different
rows.

**Restores apart.** `RestoresApart`, an action constraint of `artifact_backup`, takes
the steps of a restore, and damage to a sealed backup, when the store and the
writers of backups have come to rest. A restore reads a sealed backup, which nothing
else but damage changes, and writes to a directory that nothing else reads. What it
looks at in the store, whether a record was put again after a removal, stays true
once it is. So these steps commute with the others, and each property speaks
either of the store and the writers or of the restore. The proofs are without that
constraint.

**Symmetry** is used for the callers of `memory_review`, the workers and the backups of
`artifact_backup` and the two calls of one run in `embedded_workflow`: they differ
in nothing, and those runs check no liveness.

**Deadlock.** The durable and the memory runs check it: some action stays possible
there, a worker's next tick or a caller's next claim. The other instances make
each call once and then are at rest, so their configurations switch it off;
liveness properties say that the calls end.

**What is conditional.** `AbortDelivered`, `FactsAreGated`, `DecisionFinal` and
`HistoryFinal` hold while no lease has lapsed under its holder (`overruns = 0`).
Leases are not renewed, so beyond that the code does not provide them.
`AttemptBudget` allows one attempt more per fault. `ApprovalHasFact`,
`SlotKeepsTruth` and `HistoryFinal` are about facts added under fresh ids.
`EffectOnce` leaves out aborted calls and calls that looked up a key while another
one was executing; `WritesAudited` leaves out requests that understate the class of
their operation, and says nothing of a registry without an audit sink, which is the
default and writes unaudited (`packages/policy`, 301). `RestoreSound` promises the
state, the records and the tombstones of a backup only as far as their files were
not damaged, the state's after the verification. `RecordHasBody` leaves out
the race noted in `raced`;
`AnsweredKept`, `AnnouncedIsStored` and `ReportedIsStored` leave out what history
variables note as overwritten by an overlapping update. In each case the
behaviour behind the exception is real and described in section 6.

**Fairness.** `FairSpec` of `DurableWorkflow` assumes that `runWorker` keeps
ticking, that an invocation settles or is timed out (each handler is raced with
`timeoutPromise`), and that deadlines pass. Fairness of workers is strong,
because two workers of one process disable each other while one holds the event
loop, and the loop serves every callback in its turn. Nothing is assumed of
clients: no one has to answer an approval, which then expires. Crashes and
overruns are bounded, since a process that always dies finishes nothing.

- `ToolExecution`: the executor's own steps, its timer among them, are weakly fair;
  no handler is trusted to return.
- `ContextCompiler`: a query that was sent ends by its answer, the signal or the
  timer of `withTimeout`; no source is trusted.
- `ControlApi`: the event loop takes every request further and serves the updates
  of both files; clients need not ask, streams need not close.
- `PostgresStorage`: `psql` works on what it was sent and its answers are delivered,
  and a session that was told to quit ends.

`RequestsEnd` and `CallsEnd` are of the form `<>[]` because each call is made
once. The review queue, the artifact store and the embedded runtime have no
polling process, so no fairness is justified there and no liveness is stated.

## 4. Proofs

All theorems hold for any number of runs, steps, processes, workers, calls,
sessions, records, proposals and facts, and any number of crashes, overruns and
other faults.

| theorem | states |
| --- | --- |
| `DurableWorkflowProofs!TypeCorrect` | `Spec => []TypeOK` |
| `DurableWorkflowProofs!CompletedCorrect` | `Spec => []CompletedMeansAll` |
| `DurableWorkflowProofs!KeysKeepOperations` | `Spec => []KeyKeepsOperation` |
| `DurableWorkflowProofs!NoStaleResult` | `Spec => []NoStaleCommit`, for `DistinctIds` and `NoApprovals` |
| `DurableWorkflowProofs!EffectsAgree` | `Spec => []EffectOutputAgrees`, for `DistinctIds` and `DistinctKeys` |
| `DurableWorkflowProofs!EffectsByLiveAttempts` | `Spec => EffectByLiveAttempt`, for `DistinctIds` and `NoApprovals` |
| `DurableWorkflowProofs!OneProcess` | `Spec => [](TypeOK /\ OneInv)`, the inductive invariant of one process; for `DistinctIds` and `OneLoop`, as the six below |
| `DurableWorkflowProofs!StepsAreInOrder` | `Spec => []StepsInOrder` |
| `DurableWorkflowProofs!SuspendedRunsWake` | `Spec => []SuspendedHasWaker` |
| `DurableWorkflowProofs!ApprovalsAskOnce` | `Spec => []OneApprovalPerStep` |
| `DurableWorkflowProofs!AttemptsAreBounded` | `Spec => []AttemptBudget` |
| `DurableWorkflowProofs!RunsEndOnce` | `Spec => []OneTerminalEvent` |
| `DurableWorkflowProofs!AbortsAreDelivered` | `Spec => []AbortDelivered` |
| `MemoryReviewProofs!ReviewTypeCorrect` | `Spec => []TypeOK` |
| `MemoryReviewProofs!OneTruth` | `Spec => []OneActiveObject` |
| `MemoryReviewProofs!DecisionsStand` | `Spec => DecisionFinal` |
| `MemoryReviewProofs!GateHolds` | `Spec => []FactsAreGated` |
| `MemoryReviewProofs!ApprovalsKept` | `Spec => []ApprovalHasFact`, for fresh ids |
| `MemoryReviewProofs!TruthKept` | `Spec => []SlotKeepsTruth`, for fresh ids |
| `MemoryReviewProofs!HistoryKept` | `Spec => HistoryFinal`, for fresh ids |
| `EmbeddedWorkflowProofs!RuntimeImplementsLifecycle` | `Spec => ImplementsLifecycle`, the refinement of `RunLifecycle` |
| `EmbeddedWorkflowProofs!NoLateHandler` | `Spec => NoHandlerAfterAbort` |
| `EmbeddedWorkflowProofs!LeftBehind` | `Spec => []LeftBehindByFaults` |
| `ToolExecutionProofs!AbortedLeaveNoRecord` | `Spec => []AbortedNeverRecords` |
| `ToolExecutionProofs!OneEffectPerKey` | `Spec => []EffectOnce` |
| `ToolExecutionProofs!CompletedHasWritten` | `Spec => []CompletedWriteHappened` |
| `ToolExecutionProofs!WritesAreAudited` | `Spec => []WritesAudited` |
| `BackupProofs!RecordsHaveBodies` | `Spec => []RecordHasBody` |
| `BackupProofs!NothingStray` | `Spec => []NoStrayBody` |
| `BackupProofs!VerifiedBackupIsWhole` | `Spec => []VerifiedIsWhole` |
| `BackupProofs!RestoreIsSound` | `Spec => []RestoreSound` |
| `PostgresStorageProofs!LedgerTellsTheTruth` | `Spec => []LedgerIsTrue` |
| `PostgresStorageProofs!ReportsAreStored` | `Spec => []ReportedIsStored` |
| `ContextCompilerProofs!CandidatesFromSuccess` | `Spec => []OnlyFromSuccess` |
| `ContextCompilerProofs!SelectionIsSound` | `Spec => []SelectionSound` |
| `ContextCompilerProofs!AnnouncedStays` | `Spec => []AnnouncedIsStored` |
| `ControlApiProofs!ApiInvariant` | `Spec => []IInv`, the inductive invariant of the control API |
| `ControlApiProofs!AnswersStand` | `Spec => []AnsweredKept` |
| `ControlApiProofs!EndedStaysOut` | `Spec => []EndedIsOut` |

**Assumptions.** The named `ASSUME`s on the constants, which TLC evaluates in every
run:

- `ConstantTypes`, `NoneIsNoValue`, `NoneIsNoEffect`, `ToolAssumption`,
  `NullAssumption`, `ArtifactAssumption`, `BackupAssumption`, `EmbeddedAssumption`,
  `SessionAssumption`: constants have their types, and the value that stands for
  "nothing" is no run, call, record, key, backup or session;
- `FactIds`: fact ids derived from different proposals differ and are never drawn
  at random;
- `JobShape`: a migrator has a session of its own, the versions of a directory are
  numbered from 1 without gaps, and a repository call is one of three kinds;
- `ContextAssumption`: a request gives either records or a plan of sources (the two
  kinds of input of `compileAndPersistContext`), its budget is a number, and required
  ids come with a required exact source;
- `RecordAssumption`: there are finitely many records, their estimates are numbers
  and no two ids sort alike; `NoneAssumption`: the value for "no error" is not the
  code of one;
- `RegistryAssumption`: the sources that answer are the native exact and lexical
  ones, those of the default registry;
- `IdentityAssumption`: the processes are the server and the bootstrap script, and
  an identity file that is there at first has the form the updates give it: whoever
  has a session or a token came after the first owner, since `createSession` and
  `createApiToken` need a user and `bootstrapOwner` makes the first;
- `RequestAssumption`: the script only bootstraps, and credentials of an earlier
  life of the system are named after calls that are not made again (session and
  token ids are random).

The theorems of the durable runtime about what a worker may rely on have hypotheses,
because the code promises them only there. `DistinctIds`: no two workers have the
same id (the lease is fenced by the id alone; `tick` draws a random one unless it
is given one). `DistinctKeys`: no two steps share an idempotency key. `OneLoop`:
all workers and client calls share one event loop. With the instance of
`durable_one_process` on two processes, TLC breaks `OneTerminalEvent` in 9 states,
`AbortDelivered` in 11, `StepsInOrder` in 26, `SuspendedHasWaker` in 28 and
`OneApprovalPerStep` in 39; it finds nothing against `AttemptBudget`, whose
hypothesis is only that of its proof. `NoApprovals`: the definition has no approval
step. This is not a
convenience: for a definition of an approval and an activity and three workers
in three processes, two lapsed leases suffice to break `NoStaleCommit` (40 states,
found by TLC while the invariant was being looked for). The rejection of a stale
second approval ends the run but leaves its `lease_owner`; the owner's next
attempt is then not counted; the first transaction of a third worker, which is
not fenced, brings the run back to `running`; and the owner completes the step
with the uncounted attempt. It rests on the unfenced transactions and the second
approval of section 6, so it is no finding of its own.

Each invariant below was first checked by TLC as an invariant of its run.

**Type correctness of the durable runtime.** `TypeOK` is inductive because
`Local` records what a worker knows at each program counter: past `#claim` its
run, past the reads of `#workClaim` its step. An approval names its run and step
once it exists, which the expiry loop relies on.

**CompletedMeansAll** is inductive together with `TypeOK`, and the reason is worth
stating: several transactions of stale workers are not fenced by the lease
(`MarkStarted`, `ScheduleTimer`, `RequestApproval`, `FailCommit`), but each of them
moves the run out of `completed` in the same transaction in which it reopens a
step. `CompletedReopened` is that argument; the other transactions leave a
completed run alone or complete the last open step.

**NoStaleCommit, EffectOutputAgrees, EffectByLiveAttempt and KeyKeepsOperation** are
consequences of `FenceInv`. `WorkerInv` says what a worker's memory is worth:
what it will do suits its step (`Prepared`); an output that `effect()` gave its
handler is that of a record of the same operation (`Backed`); and while its own id
is in `lease_owner` it is up to date (`UpToDate`): its attempt is the one in the
step's row, and an effect that was missing when `execute()` began is still
missing. That is what a superseded worker loses and what the fence of
`#completeStep` tests. `CompletionInv` says what a completed step rests on, and
timed-out invocations have been told to abort. The hypotheses stand inside the
invariant, in front of the parts that need them, so that it is one invariant for
every deployment. `Unasked` adds that without approval steps an ended run has no
owner. None of this is inductive alone: committing a result keeps `CompletionInv`
only if the committing worker is up to date.

**StepsInOrder, SuspendedHasWaker, OneApprovalPerStep, AttemptBudget, OneTerminalEvent
and AbortDelivered** are consequences of `OneInv`, which holds of one process. Most
of the transactions look at neither the lease nor the status, so what they write is
right only because of what the worker read before, and that stays true because
nobody comes between two awaits (`LoopShared`, `OthersWait`).
`ClaimInv` says what a worker may rely on from `#claim` to its next await: it holds
the lease, its step is the first open one, its copy of the row is current.
`InsideInv` says what survives an await: a worker that still holds the lease finds
its step `running` with its attempt. `RowInv`, `ApprovalInv`, `Woken` and `History`
tie a step's row to the run's, to its approval and to the recorded events, through
every suspension, answer and cancellation. `BudgetInv` counts attempts: the last one
is reached only by a worker that is still at it, and a lease can be taken from that
worker only after an overrun or a crash, each of which raises the bound. `LoneInv`
holds until a lease lapses under a worker: whoever is inside a handler is alone
with its run, has the controller in the map, and is told of a cancellation. The
proof has one lemma per action (`TickOne`, `HandlerOne`, `StartOne`, `CancelOne`,
`ResolveOne`, ...), over frames that say what the others keep when one worker
(`OwnStep`, `QuietMove`), one client (`CallOn`) or the environment (`QuietEnv`)
moves.

**OneActiveObject** needs `RetirementRecorded`: an active fact has no end and no
successor, so the `WHERE` clause of the supersession finds it. The proof covers
approvals that do not supersede, which is why the property exempts them.

**DecisionFinal and FactsAreGated** rest on `ClaimsHold`: while no lease lapsed
under its holder, a caller at work holds the live claim of its proposal, and no
two callers work on the same one. That makes the unconnected read and write of
`recordProposalResult`, and the approval fenced by owner alone, safe even when
all reviewers have the same id. `AddIsGated` carries the gate of
`addTemporalFact` over to its transaction.

**ApprovalHasFact, SlotKeepsTruth and HistoryFinal** rest on `IdIsOwn`: the fact
under a proposal's id is that proposal's. Fresh ids are needed exactly there.
The first two hold with any number of overruns.

**The embedded runtime implements `RunLifecycle`.** The mapping reads the status in
the row of a run, the number of completed steps in its history and whether it was
aborted or declared cancelled by a handler (`MapsToAskOf`, `HandlerThrowsMaps`).
The invariant has, for each call, what it knows at each of its places:
its step is the one after those it recorded as completed (`Progress`, with lemmas
on counting the events of a history), what the row shows (`RowShows`) and whose
controller is registered (`Registration`). The simulation has a step per action:
one that writes the row, completes a step or aborts is the `RunLifecycle` step
that does, every other one stutters. `NoHandlerAfterAbort` holds because only
`Invoke` enters a handler, after a look at the signal.

**The tool executor.** `Progress` says what a call has behind it at each stage, and
that a handler that outlives `execute` belongs to an aborted call. `RecordStands`
and `AnswerStands` say that an effect record, and an answer from one, tell of a
write that landed in a call that was not aborted. `EffectOnce` needs two more:
`WriteRecorded` (a write that stands has left a record under its key, so that a
later call finds one) and `OneOverlaps` (of two calls that write under a key, one
began while the other executed). `WritesAudited` is carried by `Progress` from the
decision to the write (`DecisionAudited`), where there is an audit sink.

**Artifacts, backups and restores.** `RecordHasBody` needs both sides of the race:
a put that goes on to its record still has the body it found (`FoundIsThere`) and a
removal that goes on to the body still finds no record of it (`DoomedIsUnused`),
unless the history notes the race. `NoStrayBody` needs `StrayIsHeld`: some
operation that has not reached its receipt will settle the body. `DirInv` says
what a directory holds at each place of its writer; `SourcesInv` and `RestoreInv`
what a target has taken from which sealed backup, and how far a restore is. Files
may be damaged between any two of its steps, so each part of `RestoreInv` is about
what was read (`Took`, `Did`), with the damage seen by then as the way out, and damage
is never undone.

**PostgreSQL.** `Paired`, `OncePerVersion` and `NoneSkipped` are `LedgerIsTrue` row by
row. They are kept by `MigratorInv`: a migrator past the lock on an open session
has the lock, and with it is the only one; its transaction holds what it has run
of one version, and that version is the first the ledger lacks (lemma `MinIs`,
by well-founded induction from the library). Losing the session loses the lock
and the transaction together. `RepositoryInv` says that an append whose session
ran nothing of another call inside a transaction has its own.

**The context compiler.** Per call, there is one report for each entry of the plan
already dealt with (`Reported`), and every hit of a candidate is by a source whose
report says succeeded (`Gathered`); `mergeSourceOutput` stages rows, so a bad item
leaves nothing.

`SelectionSound` is about loops over a set of candidates, and induction over data is
out of reach, so each such induction is turned into an argument about a least or
minimal counterexample, by facts the library states without operator parameters.
`MinimalSubset` and `LeastNat` are its two forms. With them, sums over a set are
what adding one element after the other gives (`SumIs`, `SumAdd`), whatever order
the fold takes; `Sorted` is a bijection from the positions to the set
(`RankBijection`, `SortedSeq`); and there is a best of a finite set of candidates
(`BestIn`). `LoopInv` is the invariant of the greedy loop: selected, left and left
out are a partition of the candidates, what is selected is so once and contains
what is forced, and the tokens counted are those of what is selected and within
the budget. `IterateInv` shows that an iteration keeps it and `GreedyInv` that the
loop ends with it; `SelectIsSound` adds what comes before the loop, and
`AssembleSame` that assembly only permutes. `SelInv` carries the result from
`Compile` through the states: a candidate set is finite because its rows are
records that the source or the caller gave (`RowsIn`, `MergeSound`), and no step
touches the manifest of a call that has one.

For the files, an append that is about to replace a manifest, or
one of two that are, is noted as overlapped (`WriteInv`), what an append has
written stays until it is announced (`StoredInv`), and after (`AnnouncedInv`).

**The control API.** `EndedIsOut` and `AnsweredKept` are about a file that two
processes rewrite as a whole from what each has read, so the invariant has to say
what will be written as well as what is there. `FileInv`: a credential whose end
was answered is revoked in the file and in the server's snapshot, and its name
belongs to a request that is over, so no update creates it again. The script's
snapshot may be as old as it likes: it only bootstraps, which throws unless its
snapshot has no owner, and a file without an owner has no credential (`StateForm`);
what it then writes lacks the sessions of the server, which `overlapped` notes, but
brings no ended one back. `WorkUpdates` is that argument for each of the six
updates. `QueueForm` and `StoreQueueInv` tie the queues to the requests: each queued
update is what its request waits for, none waits twice, which is why settling one
never wakes a request that has gone on or died. `CallForm` follows a request that
came with an ended credential: it is refused at `Authenticate`
(`EndedIsNobody`), and no failure of the audit of that refusal lets it through.

**Only model-checked.** Liveness (`EventuallyEnds`, `EventuallyAnswered`,
`QueriesEnd`, `RequestsEnd`, `CallsEnd`) is out of the prover's reach, as is anything
with `ENABLED`. Every other property of a passing run is proved.
The type invariants are part of the proved invariants and not repeated by a run.

## 5. Where the code and its documents disagree

- **An approval revives a cancelled run** (`durable_approve_after_cancel`).
  `cancel` leaves pending approvals pending and `resolveApproval` sets the run to
  `running` without looking at its status.

## 6. Hazards and their properties

`PROJECT.json` lists each hazard with its line and the properties that cover it.
Behaviour that TLC showed beyond the properties, for readers who rely on more:

- **Two processes, unfenced transactions.** `MarkStarted` (669-673),
  `ScheduleTimer` (722-727), `RequestApproval` (746-756) and `FailCommit`
  (869-889) act on a row read earlier and do not check the lease. With two
  processes a stale worker can therefore overwrite a cancellation, reopen a
  step, ask for a second approval, spend an attempt twice, or record a second
  terminal event: `StepsInOrder`, `SuspendedHasWaker`, `OneApprovalPerStep`,
  `AttemptBudget`, `OneTerminalEvent` and `AbortDelivered` are properties of one
  process.
- **Overlapping attempts.** A handler that outlasts its lease is joined by a
  second one (611). In one process the map `active` holds one controller per
  run, so a cancellation then reaches only one of the two (514, 783, 810).
- **A crash during the last attempt** leads to one attempt more than
  `maxAttempts` (761 against 867).
- **Outputs over the run's bound.** When the last step is a timer or an approval,
  the transaction that completes it throws (708-709), nothing records a failure
  and every later tick throws again.
- **A process without a handler** claims a run, throws (760) and keeps the lease
  until it lapses, any number of times.
- **busy_timeout equals the default lease** (242): a worker may wait for the
  database as long as its lease lasts.
- **Late results.** After an overrun, the write of `recordProposalResult`
  (1729-1738) can reopen a decided proposal; a second approval then overwrites
  the first fact.
- **A poisoning that is rolled back.** `claimProposalById` throws for the
  proposal it has just poisoned (1696), which undoes the poisoning: it stays
  `claimed` until a claim of another proposal succeeds.
- **The default worker id.** The fence of `#completeStep` compares the worker id
  only, and every worker process is `worker_local` by default
  (`scripts/workflow-worker.mjs:17`): with equal ids a superseded attempt of another
  process commits its result. The runs have distinct ids.
- **An older observation retires a newer fact.** The supersession (`memory-sqlite`,
  972) does not compare the starts of the facts; the retired fact's validity then
  ends before it begins.
- **Memory records.** `supersede` reads the previous record before its transaction
  (788).

Tools (`packages/tool-registry`):

- A rename that was under way when the deadline fired still lands (698); the call
  was reported as timed out, so a retry writes again.
- A grant may expire between its issue and its use (1107); the call is then refused.
- The policy looks at the class of the capability asked for, so a request that
  understates it may go on without an audit.
- A registry whose policy has no audit sink decides without an audit, writes
  included (`packages/policy`, 301); `new ToolRegistry()` is one
  (`tool-registry`, 965-966).

Artifact store and backup:

- A removal that lists the remaining records before a put of the same content has
  written its own deletes the body under the new record
  (`artifact-filesystem`, 317).
- The files of a backup are read again after their verification.
  `docs/operations/backup-restore.md` (65, 70) says that a restore fails before it
  writes the state when a checksum differs from the manifest. The checksum of the
  state is compared by the verification (`packages/operations`, 360); the state is
  then read again (396) and written as it reads, if its shape is right, so that a
  file that changed in between is restored and reported as ok. A record that was
  changed and is still well formed is imported (`artifact-filesystem`, 504-507), and
  the restore succeeds if the bodies in the target are those the records name.
- A deletion beside a backup can leave a record both exported and tombstoned.
- A restore writes `state.json` before it imports the artifacts
  (`packages/operations`, 398): a failing import leaves a partial restore, which a
  repetition completes.

Embedded runtime and state file:

- Two overlapping starts of one run id both pass the check, write two rows and
  share the first one's status (`workflow-embedded`, 39).
- A cancellation after the last step reports success while the run completes (109).
- A handler that throws an error with the code `run_cancelled` ends its run as
  cancelled, without a retry, though nobody asked for that (`workflow-runtime`, 90).
- A row that could not be written leaves its controller registered.
- One failed update rejects every later one of the process (`file-store`, 9), and
  `init` takes any failure to read for an absent file (7).

Context compiler and manifests:

- `append` checks and renames without a lock: overlapping appends replace a
  manifest that is called immutable (`context-manifest-local`, 104).
- A manifest's id leaves out its content, and `createdAt` is part of the
  fingerprint: a retry with a later clock is a conflict.
- A record that is itself ineligible still retires the one it supersedes; the cap
  before the selection (763) may drop policies; sources that read different
  versions of a record end the compilation with `candidate_identity_conflict`; a
  cancellation during the last optional source still yields a result; the limit
  on pairwise comparisons throws; the outline tier may exceed the budget.

Control API and identity:

- The script's bootstrap and one by the API can overlap: both report success and
  one writes over the other (`identity-local`, 564).
- A request that arrived before a revocation was answered is still executed, and
  open streams outlive their session. A logout with a bearer token is answered
  with `internal_error`.

PostgreSQL (`packages/storage`):

- `parseRows` (`psql-session-client`, 102) does not know the statement that asks for
  the last sequence of a run, so over this client only the event at sequence 0 is
  accepted, where `docs/architecture/storage.md` requires "the next contiguous
  sequence". The rows of the identity repositories' `RETURNING *` are not parsed
  either.
- Calls that share a client share its transaction: the `ROLLBACK` of one undoes the
  answered writes of another (`postgres-repositories`, 46).
- Of two overlapping appends of one manifest the second fails on the key, and any
  failed statement ends `psql` and with it every later query of the session (143).
- A `$n` in a migration file is taken for a parameter; only `release` then frees
  the lock and the transaction.

## 7. Not modelled

The models cover the parts that keep state under concurrency and failure: about
5,700 of the repository's 57,000 implementation lines are translated, a tenth. The
rest is, by size:

- the command line (10,700 lines), harness context (5,600), the web cockpit (3,700)
  and code intelligence (3,400): argument handling, rendering, parsing and scoring of
  text, with no state that outlives a call or that another actor sees. What they
  change, they change through the modelled providers. The registry of pinned
  context packs in harness context is the exception, and planned;
- of the modelled files, schema definitions, projections, read-only queries,
  rendering and the validation of shapes, which the models take as given (an
  ill-formed request is one kind of request);
- evidence, evaluation, replay, observability, content intelligence, contracts:
  reports computed from recorded events;
- MCP bridges (read-only requests), semantic setup (interactive file writing), the
  model gateway (a timeout and one repair), memory records (single transactions),
  the Rust store;
- of the modelled parts: a second server on one identity directory, the migration
  status, diagnostics and the rollback plan.

Database corruption and failing disks are outside the models; SQLite's and
PostgreSQL's transactions and the rename of a file are assumed to be atomic and
durable. A `psql` that has exited and is written to raises an error nobody listens
for and ends the process; it counts as a crash.

## 8. Plan

In order of importance:

1. `memory_records` (`put`, `supersede`, `forget`), the registry of pinned context packs,
   the model gateway's timeout and repair.
2. `AttemptBudget` for workers in several processes, where the attempt that a stale
   transaction rewrites has to be tied to the lapse that made it stale.
