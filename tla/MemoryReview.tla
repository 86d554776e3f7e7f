---------------------------- MODULE MemoryReview ----------------------------
(***************************************************************************)
(* Reviewed memory (providers/native/memory-sqlite/src/index.mjs): the     *)
(* queue of proposals, their claims under a lease, the decisions of        *)
(* reviewers, and the temporal facts that approved proposals become.       *)
(*                                                                         *)
(* The callers are processes that share the database file: each run of the *)
(* command line is one, and so is the control API.  One action is one SQL  *)
(* statement or one BEGIN IMMEDIATE transaction.  Lease deadlines are a    *)
(* flag raised by LeaseLapse and LeaseOverrun; the validity of facts is    *)
(* data and keeps its times.                                               *)
(***************************************************************************)
EXTENDS Integers

CONSTANTS
    Proposals,      \* queue ids
    Fingerprint,    \* [Proposals -> queue fingerprints]
    IsFact,         \* proposals whose payload.kind is 'fact'
    Slot,           \* [Proposals -> (workspace, scope, subject, predicate)]
    Object,         \* [Proposals -> objects]
    Supersedes,     \* proposals with payload.supersedesSubjectPredicate
    Observed,       \* [Proposals -> Times \cup {None}]: payload.observedAt
    MaxAttempts,    \* [Proposals -> Nat \ {0}]: max_attempts
    Facts,          \* fact ids
    FactOf,         \* [Proposals -> Facts]: factIdFromProposalId
    AddIds,         \* ids under which addTemporalFact is called
    FreshIds,       \* those that prefixedId('memfact') draws, not the caller
    Callers,        \* processes
    IdOf,           \* [Callers -> worker ids]
    MaxTime,        \* bound: times are 1 .. MaxTime
    MaxOverruns,    \* bound: leases that lapse under a caller still at work
    None            \* SQL NULL

Times == 1 .. MaxTime
Ids == {IdOf[c] : c \in Callers}

ASSUME ConstantTypes ==
    /\ IsFact \subseteq Proposals
    /\ Supersedes \subseteq IsFact
    /\ Observed \in [Proposals -> Times \cup {None}]
    /\ MaxAttempts \in [Proposals -> Nat \ {0}]
    /\ FactOf \in [Proposals -> Facts]
    /\ AddIds \subseteq Facts
    /\ FreshIds \subseteq AddIds
    /\ MaxTime \in Nat
    /\ MaxOverruns \in Nat

\* Fact ids derived from proposals are distinct and never drawn at random.
ASSUME FactIds ==
    /\ \A p, q \in Proposals : FactOf[p] = FactOf[q] => p = q
    /\ \A p \in Proposals : FactOf[p] \notin FreshIds

ASSUME NoneIsNoValue ==
    /\ None \notin Proposals
    /\ None \notin Facts
    /\ None \notin Ids
    /\ None \notin Times

VARIABLES
    queue,      \* memory_proposal_queue
    fact,       \* memory_facts
    call,       \* the local state of every caller
    overruns    \* leases that lapsed under a caller so far

vars == <<queue, fact, call, overruns>>

-----------------------------------------------------------------------------
(* Values. *)

QueueStatus == {"none", "pending", "claimed", "applied", "poison"}

\* What the last call recorded in result_json or error_json: memory approve,
\* memory reject, another worker's result, a worker's error.
Results == {"none", "approved", "rejected", "applied", "error"}

QueueRow == [status : QueueStatus, attempts : Nat, owner : Ids \cup {None},
             lapsed : BOOLEAN, result : Results]

\* superseded_by, valid_from and valid_until; subject, predicate and object are
\* those of the proposal, by #assertProposalPayloadMatches.
FactRow == [status : {"none", "active", "superseded"}, prop : Proposals \cup {None},
            from : Times \cup {None}, until : Times \cup {None},
            by : Facts \cup {None}]

\* idle, has claimed (to approve, reject or work on) a proposal, is about to
\* write a result, has passed #assertAppliedProposal.
Local ==
    {l \in [pc : {"idle", "claimed", "write", "add"},
            op : {"none", "approve", "reject", "work"},
            prop : Proposals \cup {None}, next : QueueStatus, result : Results] :
        /\ l.pc # "idle" => l.prop \in Proposals
        /\ l.pc = "add" => l.prop \in IsFact}

IdleLocal == [pc |-> "idle", op |-> "none", prop |-> None, next |-> "none",
              result |-> "none"]

Init ==
    /\ queue = [p \in Proposals |-> [status |-> "none", attempts |-> 0,
                  owner |-> None, lapsed |-> FALSE, result |-> "none"]]
    /\ fact = [f \in Facts |-> [status |-> "none", prop |-> None, from |-> None,
                                until |-> None, by |-> None]]
    /\ call = [c \in Callers |-> IdleLocal]
    /\ overruns = 0

P(c) == call[c].prop
Done(c) == call' = [call EXCEPT ![c] = IdleLocal]

-----------------------------------------------------------------------------
(* The queue. *)

\* enqueueProposal: the id and the fingerprint make a repeated call, and the
\* loser of two concurrent ones, change nothing.
Enqueue(p) ==
    /\ queue[p].status = "none"
    /\ \A q \in Proposals : queue[q].status # "none" => Fingerprint[q] # Fingerprint[p]
    /\ queue' = [queue EXCEPT ![p].status = "pending"]
    /\ UNCHANGED <<fact, call, overruns>>

\* The first UPDATE of both claim transactions: claims that lapsed after the
\* last attempt.
Poisoned ==
    [p \in Proposals |->
        IF /\ queue[p].status = "claimed"
           /\ queue[p].lapsed
           /\ queue[p].attempts >= MaxAttempts[p]
        THEN [queue[p] EXCEPT !.status = "poison", !.owner = None, !.lapsed = FALSE]
        ELSE queue[p]]

\* Seeded fault: a rejected proposal can be claimed.
Claimable_Rejected(p) ==
    /\ queue[p].attempts < MaxAttempts[p]
    /\ \/ queue[p].status = "pending" \/ queue[p].result = "rejected"
       \/ queue[p].status = "claimed" /\ queue[p].lapsed

\* Pending, or claimed under a lease that has lapsed.
Claimable(p) ==
    /\ queue[p].attempts < MaxAttempts[p]
    /\ \/ queue[p].status = "pending"
       \/ queue[p].status = "claimed" /\ queue[p].lapsed

ClaimRow(c, p) ==
    [queue[p] EXCEPT !.status = "claimed", !.attempts = @ + 1,
                     !.owner = IdOf[c], !.lapsed = FALSE]

\* claimProposalById, called by approveProposalFact and rejectProposal.  When
\* the proposal cannot be claimed the transaction rolls back, the poisoning of
\* other rows included, and the call throws: nothing changes.
ClaimById(c, p, op) ==
    /\ call[c].pc = "idle"
    /\ Claimable(p)
    /\ queue' = [Poisoned EXCEPT ![p] = ClaimRow(c, p)]
    /\ call' = [call EXCEPT ![c].pc = "claimed", ![c].op = op, ![c].prop = p]
    /\ UNCHANGED <<fact, overruns>>

\* claimProposal with limit 1; with nothing to claim the poisoning commits.
ClaimNext(c) ==
    /\ call[c].pc = "idle"
    /\ \/ \E p \in Proposals :
             /\ Claimable(p)
             /\ queue' = [Poisoned EXCEPT ![p] = ClaimRow(c, p)]
             /\ call' = [call EXCEPT ![c].pc = "claimed", ![c].op = "work", ![c].prop = p]
       \/ /\ ~ \E p \in Proposals : Claimable(p)
          /\ queue' = Poisoned
          /\ UNCHANGED call
    /\ UNCHANGED <<fact, overruns>>

\* The results a caller asks recordProposalResult to record, with the status
\* they lead to: a rejection is 'applied' with accepted: false.
Outcomes(c) ==
    CASE call[c].op = "reject" -> {<<"applied", "rejected">>}
      [] call[c].op = "approve" -> {<<"poison", "error">>}
      [] OTHER -> {<<"applied", "applied">>, <<"poison", "error">>}
                  \cup IF queue[P(c)].attempts >= MaxAttempts[P(c)] THEN {}
                       ELSE {<<"pending", "error">>}

\* The checks of recordProposalResult, made on a row read outside any
\* transaction; approveProposalFact records a result only for another kind.
RecordRead(c) ==
    /\ call[c].pc = "claimed"
    /\ call[c].op = "approve" => P(c) \notin IsFact
    /\ IF /\ queue[P(c)].status = "claimed"
          /\ queue[P(c)].owner = IdOf[c]
          /\ ~queue[P(c)].lapsed
       THEN \E o \in Outcomes(c) :
              call' = [call EXCEPT ![c].pc = "write", ![c].next = o[1], ![c].result = o[2]]
       ELSE Done(c)
    /\ UNCHANGED <<queue, fact, overruns>>

\* Its UPDATE, by id alone.
RecordWrite(c) ==
    /\ call[c].pc = "write"
    /\ queue' = [queue EXCEPT ![P(c)].status = call[c].next, ![P(c)].owner = None,
                              ![P(c)].lapsed = FALSE, ![P(c)].result = call[c].result]
    /\ Done(c)
    /\ UNCHANGED <<fact, overruns>>

-----------------------------------------------------------------------------
(* Facts. *)

\* Seeded faults: only facts that began earlier are retired; facts that were
\* retired before are retired again.
Retired_OlderOnly(f, p, from) ==
    {g \in Facts \ {f} :
        /\ fact[g].status # "none"
        /\ Slot[fact[g].prop] = Slot[p]
        /\ Object[fact[g].prop] # Object[p]
        /\ fact[g].by = None
        /\ fact[g].from < from}
Retired_Again(f, p, from) ==
    {g \in Facts \ {f} :
        /\ fact[g].status # "none"
        /\ Slot[fact[g].prop] = Slot[p]
        /\ Object[fact[g].prop] # Object[p]}

\* The WHERE clause of the supersession in #materializeTemporalFact.
Retired(f, p, from) ==
    {g \in Facts \ {f} :
        /\ fact[g].status # "none"
        /\ Slot[fact[g].prop] = Slot[p]
        /\ Object[fact[g].prop] # Object[p]
        /\ fact[g].by = None
        /\ fact[g].until = None \/ fact[g].until > from}

\* Seeded fault: the supersession comes after the insert and hits it too.
Materialize_RetiresItself(f, p, from, retired) ==
    fact' = [g \in Facts |->
        IF g \in retired \/ (g = f /\ retired # {})
        THEN [status |-> "superseded", prop |-> IF g = f THEN p ELSE fact[g].prop,
              from |-> IF g = f THEN from ELSE fact[g].from, until |-> from, by |-> f]
        ELSE IF g = f
        THEN [status |-> "active", prop |-> p, from |-> from, until |-> None, by |-> None]
        ELSE fact[g]]

\* #materializeTemporalFact: retire the facts that fact f of proposal p
\* replaces, then insert f, or overwrite it.
Materialize(f, p, from, retired) ==
    fact' = [g \in Facts |->
        IF g = f
        THEN [status |-> "active", prop |-> p, from |-> from, until |-> None, by |-> None]
        ELSE IF g \in retired
        THEN [fact[g] EXCEPT !.status = "superseded", !.until = from, !.by = f]
        ELSE fact[g]]

\* A proposal retires other facts only when its payload says so.
RetiredByApproval(p, from) ==
    IF p \in Supersedes THEN Retired(FactOf[p], p, from) ELSE {}

\* Seeded fault: the decision is recorded also when the fence fails.
ApproveCommit_Regardless(c, at) ==
    LET p == P(c)
        from == IF Observed[p] # None THEN Observed[p] ELSE at
    IN
    /\ call[c].pc = "claimed" /\ call[c].op = "approve" /\ p \in IsFact
    /\ IF queue[p].status = "claimed" /\ queue[p].owner = IdOf[c]
       THEN Materialize(FactOf[p], p, from, RetiredByApproval(p, from))
       ELSE UNCHANGED fact
    /\ queue' = [queue EXCEPT ![p].status = "applied", ![p].owner = None,
                              ![p].lapsed = FALSE, ![p].result = "approved"]
    /\ Done(c)
    /\ UNCHANGED overruns

\* approveProposalFact after its claim: the fact and the decision in one
\* transaction, fenced by status and owner but not by the lease's deadline.
ApproveCommit(c, at) ==
    LET p == P(c)
        from == IF Observed[p] # None THEN Observed[p] ELSE at
    IN
    /\ call[c].pc = "claimed" /\ call[c].op = "approve" /\ p \in IsFact
    /\ IF queue[p].status = "claimed" /\ queue[p].owner = IdOf[c]
       THEN /\ Materialize(FactOf[p], p, from, RetiredByApproval(p, from))
            /\ queue' = [queue EXCEPT ![p].status = "applied", ![p].owner = None,
                                      ![p].lapsed = FALSE, ![p].result = "approved"]
       ELSE UNCHANGED <<queue, fact>>
    /\ Done(c)
    /\ UNCHANGED overruns

\* Seeded fault: any proposal in the queue opens the gate.
GateOpen_Queued(p) == queue[p].status # "none" /\ p \in IsFact

\* #assertAppliedProposal for a fact that matches the payload of p.
GateOpen(p) == queue[p].status = "applied" /\ p \in IsFact

\* addTemporalFact up to its transaction.
AddCheck(c, p) ==
    /\ call[c].pc = "idle"
    /\ GateOpen(p)
    /\ call' = [call EXCEPT ![c].pc = "add", ![c].prop = p]
    /\ UNCHANGED <<queue, fact, overruns>>

\* Its transaction, under a fresh id or the one the caller gave.
AddCommit(c, f, from) ==
    /\ call[c].pc = "add"
    /\ f \in FreshIds => fact[f].status = "none"
    /\ Materialize(f, P(c), from, Retired(f, P(c), from))
    /\ Done(c)
    /\ UNCHANGED <<queue, overruns>>

-----------------------------------------------------------------------------
(* The environment. *)

Attended(p) ==
    \E c \in Callers : /\ call[c].pc \in {"claimed", "write"}
                       /\ P(c) = p
                       /\ IdOf[c] = queue[p].owner

\* lease_until passes with nobody at work.
LeaseLapse(p) ==
    /\ queue[p].status = "claimed" /\ ~queue[p].lapsed
    /\ ~Attended(p)
    /\ queue' = [queue EXCEPT ![p].lapsed = TRUE]
    /\ UNCHANGED <<fact, call, overruns>>

\* lease_until passes under a caller: a stalled process, or a deadline that a
\* bulk approval computed from the time it began.
LeaseOverrun(p) ==
    /\ queue[p].status = "claimed" /\ ~queue[p].lapsed
    /\ Attended(p)
    /\ overruns < MaxOverruns
    /\ queue' = [queue EXCEPT ![p].lapsed = TRUE]
    /\ overruns' = overruns + 1
    /\ UNCHANGED <<fact, call>>

\* The process dies (or its call fails) between two statements.
Crash(c) ==
    /\ call[c].pc # "idle"
    /\ Done(c)
    /\ UNCHANGED <<queue, fact, overruns>>

-----------------------------------------------------------------------------

Review(c) ==
    \/ ClaimNext(c) \/ RecordRead(c) \/ RecordWrite(c) \/ Crash(c)
    \/ \E p \in Proposals : \/ AddCheck(c, p)
                            \/ \E op \in {"approve", "reject"} : ClaimById(c, p, op)
    \/ \E t \in Times : \/ ApproveCommit(c, t)
                        \/ \E f \in AddIds : AddCommit(c, f, t)

Next ==
    \/ \E c \in Callers : Review(c)
    \/ \E p \in Proposals : Enqueue(p) \/ LeaseLapse(p) \/ LeaseOverrun(p)

Spec == Init /\ [][Next]_vars

-----------------------------------------------------------------------------
(* Properties. *)

\* Every row and every local variable has its type: a proposal is claimed at
\* most max_attempts times, a fact names its proposal and when it began.
TypeOK ==
    /\ queue \in [Proposals -> QueueRow]
    /\ \A p \in Proposals : queue[p].attempts <= MaxAttempts[p]
    /\ fact \in [Facts -> FactRow]
    /\ \A f \in Facts : fact[f].status # "none" =>
          fact[f].prop \in IsFact /\ fact[f].from \in Times
    /\ call \in [Callers -> Local]
    /\ overruns \in 0 .. MaxOverruns

\* An approval is recorded together with the fact it stands for, which stays
\* on record (addTemporalFact under an id its caller chose could overwrite it:
\* this property and the next two about histories are for fresh ids).
ApprovalHasFact ==
    \A p \in Proposals : queue[p].result = "approved" =>
        /\ fact[FactOf[p]].status # "none"
        /\ fact[FactOf[p]].prop = p

\* The proposal gate: as long as no lease lapsed under a reviewer, every fact
\* rests on a proposal that has been decided.
FactsAreGated ==
    overruns = 0 =>
        \A f \in Facts : fact[f].status # "none" => queue[fact[f].prop].status = "applied"

\* As long as no lease lapsed under a reviewer, a decision is final: nobody
\* claims, changes or poisons a decided proposal.
DecisionFinal ==
    [][\A p \in Proposals :
          overruns = 0 /\ queue[p].status = "applied" => queue'[p] = queue[p]]_vars

\* The current truth about a subject and a predicate is one object, unless a
\* proposal that does not claim to supersede was approved beside it.
OneActiveObject ==
    \A f, g \in Facts :
        fact[f].status = "active" /\ fact[g].status = "active"
        /\ Slot[fact[f].prop] = Slot[fact[g].prop]
        /\ Object[fact[f].prop] # Object[fact[g].prop]
        => ~({fact[f].prop, fact[g].prop} \subseteq Supersedes)

\* Something is always true now of a subject and predicate that had a truth: a
\* fact is retired only in favour of another that is active or was retired in
\* its turn.
SlotKeepsTruth ==
    \A f \in Facts : fact[f].status = "superseded" =>
        \E g \in Facts : fact[g].status = "active" /\ Slot[fact[g].prop] = Slot[fact[f].prop]

\* No hard delete: a retired fact is history and is not rewritten, as long as
\* no lease lapsed under a reviewer; a result written late can reopen a decided
\* proposal, whose second approval overwrites its first fact.
HistoryFinal ==
    [][\A f \in Facts :
          overruns = 0 /\ fact[f].status = "superseded" => fact'[f] = fact[f]]_vars

\* A rejected proposal has no fact.
RejectedStaysOut ==
    \A p \in Proposals : queue[p].result = "rejected" =>
        ~ \E f \in Facts : fact[f].status # "none" /\ fact[f].prop = p
=============================================================================
