------------------------- MODULE MemoryReviewProofs -------------------------
(***************************************************************************)
(* Proofs about reviewed memory, for any number of proposals, facts and    *)
(* processes.                                                              *)
(***************************************************************************)
EXTENDS MemoryReview, TLAPS

-----------------------------------------------------------------------------
(* Types. *)

LEMMA CallerKnows ==
    ASSUME TypeOK, NEW c \in Callers
    PROVE  /\ call[c] \in Local
           /\ call[c].pc # "idle" => P(c) \in Proposals
           /\ call[c].next \in QueueStatus /\ call[c].result \in Results
           /\ IdOf[c] \in Ids
<1>1. call[c] \in Local  BY DEF TypeOK
<1>. QED  BY <1>1 DEF Local, P, Ids

LEMMA DoneType ==
    ASSUME TypeOK, NEW c \in Callers, Done(c)
    PROVE  call' \in [Callers -> Local]
<1>1. IdleLocal \in Local  BY DEF IdleLocal, Local, QueueStatus, Results
<1>. QED  BY <1>1 DEF Done, TypeOK

\* Both claim transactions, on the row they claim and on the rows they poison.
LEMMA ClaimType ==
    ASSUME TypeOK, NEW c \in Callers, NEW p \in Proposals, Claimable(p)
    PROVE  LET q == [Poisoned EXCEPT ![p] = ClaimRow(c, p)] IN
           /\ q \in [Proposals -> QueueRow]
           /\ \A r \in Proposals : q[r].attempts <= MaxAttempts[r]
<1>. DEFINE q == [Poisoned EXCEPT ![p] = ClaimRow(c, p)]
<1>1. \A r \in Proposals : queue[r] \in QueueRow /\ queue[r].attempts <= MaxAttempts[r]
  BY DEF TypeOK
<1>2. \A r \in Proposals : /\ Poisoned[r] \in QueueRow
                           /\ Poisoned[r].attempts <= MaxAttempts[r]
  BY <1>1 DEF Poisoned, QueueRow, QueueStatus
<1>3. queue[p].attempts + 1 \in Nat /\ queue[p].attempts + 1 <= MaxAttempts[p]
  BY <1>1, ConstantTypes DEF Claimable, QueueRow
<1>4. IdOf[c] \in Ids  BY DEF Ids
<1>5. ClaimRow(c, p) \in QueueRow /\ ClaimRow(c, p).attempts <= MaxAttempts[p]
  BY <1>1, <1>3, <1>4 DEF ClaimRow, QueueRow, QueueStatus
<1>6. Poisoned \in [Proposals -> QueueRow]  BY <1>2 DEF Poisoned
<1>7. q \in [Proposals -> QueueRow]  BY <1>5, <1>6
<1>8. \A r \in Proposals : q[r].attempts <= MaxAttempts[r]  BY <1>2, <1>5, <1>6
<1>. QED  BY <1>7, <1>8

\* The facts that a materialized one leaves alone or retires.
LEMMA MaterializeOthers ==
    ASSUME TypeOK, NEW f, NEW p, NEW t, NEW R, Materialize(f, p, t, R),
           NEW g \in Facts, g # f
    PROVE  \/ g \notin R /\ fact'[g] = fact[g]
           \/ /\ g \in R
              /\ fact'[g].status = "superseded"
              /\ fact'[g].prop = fact[g].prop /\ fact'[g].from = fact[g].from
              /\ fact'[g].until = t /\ fact'[g].by = f
              /\ f \in Facts /\ t \in Times => fact'[g] \in FactRow
<1>1. fact[g] \in FactRow  BY DEF TypeOK
<1>2. CASE g \notin R  BY <1>2 DEF Materialize
<1>3. CASE g \in R
  <2>1. fact'[g] = [fact[g] EXCEPT !.status = "superseded", !.until = t, !.by = f]
    BY <1>3 DEF Materialize
  <2>. QED  BY <1>1, <1>3, <2>1 DEF FactRow
<1>. QED  BY <1>2, <1>3

\* What a materialized fact looks like.
LEMMA MaterializeNew ==
    ASSUME NEW f \in Facts, NEW p, NEW t, NEW R, Materialize(f, p, t, R)
    PROVE  /\ fact'[f].status = "active" /\ fact'[f].prop = p /\ fact'[f].from = t
           /\ fact'[f].until = None /\ fact'[f].by = None
           /\ p \in Proposals /\ t \in Times => fact'[f] \in FactRow
           /\ fact' = [g \in Facts |-> fact'[g]]
<1>1. fact'[f] = [status |-> "active", prop |-> p, from |-> t, until |-> None, by |-> None]
  BY DEF Materialize
<1>2. fact' = [g \in Facts |-> fact'[g]]  BY DEF Materialize
<1>. QED  BY <1>1, <1>2 DEF FactRow

\* Only facts on record are retired.
LEMMA RetiredRows ==
    ASSUME NEW f \in Facts, NEW p \in Proposals, NEW t \in Times
    PROVE  /\ Retired(f, p, t) \in SUBSET Facts
           /\ \A g \in Retired(f, p, t) : fact[g].status # "none"
           /\ RetiredByApproval(p, t) \in SUBSET Facts
           /\ \A g \in RetiredByApproval(p, t) : fact[g].status # "none"
BY DEF Retired, RetiredByApproval

\* A materialized fact is typed and the others keep proposal and start.
LEMMA MaterializeType ==
    ASSUME TypeOK, NEW f \in Facts, NEW p \in IsFact, NEW t \in Times, NEW R \in SUBSET Facts,
           Materialize(f, p, t, R), \A g \in R : fact[g].status # "none"
    PROVE  /\ fact' \in [Facts -> FactRow]
           /\ \A g \in Facts : fact'[g].status # "none" =>
                 fact'[g].prop \in IsFact /\ fact'[g].from \in Times
<1>1. p \in Proposals  BY ConstantTypes
<1>2. \A g \in Facts : fact[g].status # "none" =>
         fact[g].prop \in IsFact /\ fact[g].from \in Times
  BY DEF TypeOK
<1>3. /\ fact'[f] \in FactRow /\ fact'[f].prop = p /\ fact'[f].from = t
      /\ fact' = [g \in Facts |-> fact'[g]]
  BY <1>1, MaterializeNew
<1>4. ASSUME NEW g \in Facts, g # f
      PROVE  /\ fact'[g] \in FactRow
             /\ fact'[g].status # "none" => fact'[g].prop \in IsFact /\ fact'[g].from \in Times
  <2>1. fact[g] \in FactRow  BY DEF TypeOK
  <2>. QED  BY <1>2, <1>4, <2>1, MaterializeOthers
<1>5. \A g \in Facts : fact'[g] \in FactRow  BY <1>3, <1>4
<1>6. fact' \in [Facts -> FactRow]  BY <1>3, <1>5
<1>. QED  BY <1>3, <1>4, <1>6

\* A changed queue row that keeps its attempts keeps the type of the queue.
LEMMA QueueType ==
    ASSUME TypeOK, NEW p \in Proposals, NEW row \in QueueRow,
           row.attempts = queue[p].attempts, queue' = [queue EXCEPT ![p] = row]
    PROVE  /\ queue' \in [Proposals -> QueueRow]
           /\ \A r \in Proposals : queue'[r].attempts <= MaxAttempts[r]
BY DEF TypeOK

\* TypeOK of the next state, from its parts.
LEMMA TypeParts ==
    ASSUME queue' \in [Proposals -> QueueRow],
           \A p \in Proposals : queue'[p].attempts <= MaxAttempts[p],
           fact' \in [Facts -> FactRow],
           \A f \in Facts : fact'[f].status # "none" =>
              fact'[f].prop \in IsFact /\ fact'[f].from \in Times,
           call' \in [Callers -> Local], overruns' \in 0 .. MaxOverruns
    PROVE  TypeOK'
BY DEF TypeOK

LEMMA TypeInit == Init => TypeOK
<1>. SUFFICES ASSUME Init PROVE TypeOK  OBVIOUS
<1>1. IdleLocal \in Local  BY DEF IdleLocal, Local, QueueStatus, Results
<1>2. [status |-> "none", attempts |-> 0, owner |-> None, lapsed |-> FALSE,
       result |-> "none"] \in QueueRow
  BY DEF QueueRow, QueueStatus, Results
<1>3. [status |-> "none", prop |-> None, from |-> None, until |-> None, by |-> None] \in FactRow
  BY DEF FactRow
<1>4. queue \in [Proposals -> QueueRow] /\ \A p \in Proposals : queue[p].attempts = 0
  BY <1>2 DEF Init
<1>5. fact \in [Facts -> FactRow] /\ \A f \in Facts : fact[f].status = "none"
  BY <1>3 DEF Init
<1>6. \A p \in Proposals : 0 <= MaxAttempts[p]  BY ConstantTypes
<1>7. call \in [Callers -> Local]  BY <1>1 DEF Init
<1>8. overruns \in 0 .. MaxOverruns  BY ConstantTypes DEF Init
<1>. QED  BY <1>4, <1>5, <1>6, <1>7, <1>8 DEF TypeOK

LEMMA TypeNext == TypeOK /\ [Next]_vars => TypeOK'
<1>. SUFFICES ASSUME TypeOK, [Next]_vars PROVE TypeOK'  OBVIOUS
<1>q. /\ queue \in [Proposals -> QueueRow]
      /\ \A p \in Proposals : queue[p] \in QueueRow /\ queue[p].attempts <= MaxAttempts[p]
  BY DEF TypeOK
<1>f. /\ fact \in [Facts -> FactRow]
      /\ \A f \in Facts : fact[f].status # "none" =>
            fact[f].prop \in IsFact /\ fact[f].from \in Times
  BY DEF TypeOK
<1>c. call \in [Callers -> Local] /\ \A c \in Callers : call[c] \in Local  BY DEF TypeOK
<1>o. overruns \in 0 .. MaxOverruns  BY DEF TypeOK
<1>1. ASSUME NEW p \in Proposals, Enqueue(p)  PROVE TypeOK'
  <2>1. [queue[p] EXCEPT !.status = "pending"] \in QueueRow
    BY <1>q DEF QueueRow, QueueStatus
  <2>2. [queue[p] EXCEPT !.status = "pending"].attempts = queue[p].attempts
    BY <1>q DEF QueueRow
  <2>3. queue' = [queue EXCEPT ![p] = [queue[p] EXCEPT !.status = "pending"]]
    BY <1>1, <1>q DEF Enqueue
  <2>. QED  BY <1>1, <1>f, <1>c, <1>o, <2>1, <2>2, <2>3, QueueType, TypeParts DEF Enqueue
<1>2. ASSUME NEW p \in Proposals, LeaseLapse(p)  PROVE TypeOK'
  <2>1. [queue[p] EXCEPT !.lapsed = TRUE] \in QueueRow  BY <1>q DEF QueueRow
  <2>2. [queue[p] EXCEPT !.lapsed = TRUE].attempts = queue[p].attempts
    BY <1>q DEF QueueRow
  <2>3. queue' = [queue EXCEPT ![p] = [queue[p] EXCEPT !.lapsed = TRUE]]
    BY <1>2, <1>q DEF LeaseLapse
  <2>. QED  BY <1>2, <1>f, <1>c, <1>o, <2>1, <2>2, <2>3, QueueType, TypeParts DEF LeaseLapse
<1>3. ASSUME NEW p \in Proposals, LeaseOverrun(p)  PROVE TypeOK'
  <2>1. [queue[p] EXCEPT !.lapsed = TRUE] \in QueueRow  BY <1>q DEF QueueRow
  <2>2. [queue[p] EXCEPT !.lapsed = TRUE].attempts = queue[p].attempts
    BY <1>q DEF QueueRow
  <2>3. queue' = [queue EXCEPT ![p] = [queue[p] EXCEPT !.lapsed = TRUE]]
    BY <1>3, <1>q DEF LeaseOverrun
  <2>4. overruns' \in 0 .. MaxOverruns  BY <1>3, <1>o, ConstantTypes DEF LeaseOverrun
  <2>. QED  BY <1>3, <1>f, <1>c, <2>1, <2>2, <2>3, <2>4, QueueType, TypeParts DEF LeaseOverrun
<1>4. ASSUME NEW c \in Callers, NEW p \in Proposals, NEW op \in {"approve", "reject", "work"},
             call[c].pc = "idle"
      PROVE  [call EXCEPT ![c].pc = "claimed", ![c].op = op, ![c].prop = p]
                \in [Callers -> Local]
  <2>1. [call[c] EXCEPT !.pc = "claimed", !.op = op, !.prop = p] \in Local
    BY <1>c DEF Local
  <2>. QED  BY <1>c, <2>1
<1>5. ASSUME NEW c \in Callers, NEW p \in Proposals, NEW op \in {"approve", "reject"},
             ClaimById(c, p, op)
      PROVE  TypeOK'
  <2>1. call' \in [Callers -> Local]  BY <1>4, <1>5 DEF ClaimById
  <2>. QED  BY <1>5, <1>f, <1>o, <2>1, ClaimType, TypeParts DEF ClaimById
<1>6. ASSUME NEW c \in Callers, ClaimNext(c)  PROVE TypeOK'
  <2>1. ASSUME NEW p \in Proposals, Claimable(p),
               queue' = [Poisoned EXCEPT ![p] = ClaimRow(c, p)],
               call' = [call EXCEPT ![c].pc = "claimed", ![c].op = "work", ![c].prop = p]
        PROVE  TypeOK'
    <3>1. call' \in [Callers -> Local]  BY <1>4, <1>6, <2>1 DEF ClaimNext
    <3>. QED  BY <1>6, <1>f, <1>o, <2>1, <3>1, ClaimType, TypeParts DEF ClaimNext
  <2>2. CASE queue' = Poisoned /\ UNCHANGED call
    <3>1. \A r \in Proposals : /\ Poisoned[r] \in QueueRow
                               /\ Poisoned[r].attempts <= MaxAttempts[r]
      BY <1>q DEF Poisoned, QueueRow, QueueStatus
    <3>2. Poisoned \in [Proposals -> QueueRow]  BY <3>1 DEF Poisoned
    <3>. QED  BY <1>6, <1>f, <1>c, <1>o, <2>2, <3>1, <3>2, TypeParts DEF ClaimNext
  <2>. QED  BY <1>6, <2>1, <2>2 DEF ClaimNext
<1>7. ASSUME NEW c \in Callers, RecordRead(c)  PROVE TypeOK'
  <2>1. ASSUME NEW o \in Outcomes(c),
               call' = [call EXCEPT ![c].pc = "write", ![c].next = o[1], ![c].result = o[2]]
        PROVE  call' \in [Callers -> Local]
    <3>1. o[1] \in QueueStatus /\ o[2] \in Results
      BY <2>1 DEF Outcomes, QueueStatus, Results
    <3>2. call[c] \in Local /\ call[c].prop \in Proposals
      BY <1>7, CallerKnows DEF RecordRead, P
    <3>3. [call[c] EXCEPT !.pc = "write", !.next = o[1], !.result = o[2]] \in Local
      BY <3>1, <3>2 DEF Local
    <3>. QED  BY <1>c, <2>1, <3>3
  <2>2. call' \in [Callers -> Local]  BY <1>7, <2>1, DoneType DEF RecordRead
  <2>. QED  BY <1>7, <1>q, <1>f, <1>o, <2>2, TypeParts DEF RecordRead
<1>8. ASSUME NEW c \in Callers, RecordWrite(c)  PROVE TypeOK'
  <2>. DEFINE row == [queue[P(c)] EXCEPT !.status = call[c].next, !.owner = None,
                                         !.lapsed = FALSE, !.result = call[c].result]
  <2>1. P(c) \in Proposals  BY <1>8, CallerKnows DEF RecordWrite
  <2>2. row \in QueueRow /\ row.attempts = queue[P(c)].attempts
    BY <1>q, <2>1, CallerKnows DEF QueueRow
  <2>3. queue' = [queue EXCEPT ![P(c)] = row]  BY <1>8, <1>q, <2>1 DEF RecordWrite
  <2>4. call' \in [Callers -> Local]  BY <1>8, DoneType DEF RecordWrite
  <2>. HIDE DEF row
  <2>. QED  BY <1>8, <1>f, <1>o, <2>1, <2>2, <2>3, <2>4, QueueType, TypeParts DEF RecordWrite
<1>9. ASSUME NEW c \in Callers, NEW t \in Times, ApproveCommit(c, t)  PROVE TypeOK'
  <2>. DEFINE p == P(c)
              row == [queue[p] EXCEPT !.status = "applied", !.owner = None,
                                      !.lapsed = FALSE, !.result = "approved"]
              from == IF Observed[p] # None THEN Observed[p] ELSE t
  <2>1. p \in IsFact /\ p \in Proposals /\ FactOf[p] \in Facts /\ from \in Times
    BY <1>9, ConstantTypes, NoneIsNoValue DEF ApproveCommit
  <2>2. row \in QueueRow /\ row.attempts = queue[p].attempts
    BY <1>q, <2>1 DEF QueueRow, QueueStatus, Results
  <2>3. call' \in [Callers -> Local] /\ UNCHANGED overruns  BY <1>9, DoneType DEF ApproveCommit
  <2>4. CASE Materialize(FactOf[p], p, from, RetiredByApproval(p, from)) /\ queue' = [queue EXCEPT ![p] = row]
    <3>. HIDE DEF row, from, p
    <3>1. /\ fact' \in [Facts -> FactRow]
          /\ \A f \in Facts : fact'[f].status # "none" =>
                fact'[f].prop \in IsFact /\ fact'[f].from \in Times
      BY <2>1, <2>4, RetiredRows, MaterializeType
    <3>. QED  BY <1>o, <2>1, <2>2, <2>3, <2>4, <3>1, QueueType, TypeParts
  <2>5. CASE UNCHANGED <<queue, fact>>  BY <1>q, <1>f, <1>o, <2>3, <2>5, TypeParts
  <2>6. \/ Materialize(FactOf[p], p, from, RetiredByApproval(p, from)) /\ queue' = [queue EXCEPT ![p] = row]
        \/ UNCHANGED <<queue, fact>>
    BY <1>9, <1>q, <2>1 DEF ApproveCommit
  <2>. QED  BY <2>4, <2>5, <2>6
<1>10. ASSUME NEW c \in Callers, NEW p \in Proposals, AddCheck(c, p)  PROVE TypeOK'
  <2>1. [call[c] EXCEPT !.pc = "add", !.prop = p] \in Local
    BY <1>10, <1>c DEF Local, AddCheck, GateOpen
  <2>2. call' \in [Callers -> Local]  BY <1>10, <1>c, <2>1 DEF AddCheck
  <2>. QED  BY <1>10, <1>q, <1>f, <1>o, <2>2, TypeParts DEF AddCheck
<1>12. ASSUME NEW c \in Callers, Crash(c)  PROVE TypeOK'
  BY <1>12, <1>q, <1>f, <1>o, DoneType, TypeParts DEF Crash
<1>13. CASE UNCHANGED vars  BY <1>13, <1>q, <1>f, <1>c, <1>o, TypeParts DEF vars
<1>11. ASSUME NEW c \in Callers, NEW f \in AddIds, NEW t \in Times, AddCommit(c, f, t)
       PROVE  TypeOK'
  <2>1. P(c) \in IsFact /\ f \in Facts
    BY <1>11, <1>c, ConstantTypes DEF AddCommit, Local, P
  <2>2. /\ fact' \in [Facts -> FactRow]
        /\ \A g \in Facts : fact'[g].status # "none" =>
              fact'[g].prop \in IsFact /\ fact'[g].from \in Times
    BY <1>11, <2>1, ConstantTypes, RetiredRows, MaterializeType DEF AddCommit
  <2>3. call' \in [Callers -> Local]  BY <1>11, DoneType DEF AddCommit
  <2>. QED  BY <1>11, <1>q, <1>o, <2>2, <2>3, TypeParts DEF AddCommit
<1>. QED
  BY <1>1, <1>2, <1>3, <1>5, <1>6, <1>7, <1>8, <1>9, <1>10, <1>11, <1>12, <1>13
  DEF Next, Review

\* Every state of the review queue is typed: attempts within their bound, facts
\* with a proposal and a start.
THEOREM ReviewTypeCorrect == Spec => []TypeOK
BY TypeInit, TypeNext, PTL DEF Spec

-----------------------------------------------------------------------------
(* Invariants. *)

AtWork(c) == call[c].pc \in {"claimed", "write"}

\* An active fact has not been retired and has no end; a retired one has been.
RetirementRecorded ==
    \A f \in Facts : /\ fact[f].status = "active" => fact[f].by = None /\ fact[f].until = None
                     /\ fact[f].status = "superseded" => fact[f].by # None

\* As long as no lease lapsed under a caller, a caller at work holds the claim
\* of its proposal, and nobody else works on it.
ClaimsHold ==
    overruns = 0 =>
        /\ \A c \in Callers : AtWork(c) =>
              /\ queue[P(c)].status = "claimed"
              /\ queue[P(c)].owner = IdOf[c]
              /\ ~queue[P(c)].lapsed
        /\ \A c, d \in Callers : AtWork(c) /\ AtWork(d) /\ c # d => P(c) # P(d)

\* A caller past #assertAppliedProposal adds the fact of a decided proposal.
AddIsGated ==
    overruns = 0 =>
        \A c \in Callers : call[c].pc = "add" => queue[P(c)].status = "applied"

\* Only approveProposalFact records an approval.
NoApprovalRecorded == \A c \in Callers : call[c].result # "approved"

\* The fact under the id of a proposal is that proposal's.
IdIsOwn ==
    \A p \in Proposals : fact[FactOf[p]].status # "none" => fact[FactOf[p]].prop = p

-----------------------------------------------------------------------------
(* Which steps write facts. *)

Approves(c, t) ==
    /\ call[c].pc = "claimed" /\ P(c) \in IsFact
    /\ queue[P(c)].status = "claimed"
    /\ queue' = [queue EXCEPT ![P(c)].status = "applied", ![P(c)].owner = None,
                              ![P(c)].lapsed = FALSE, ![P(c)].result = "approved"]
    /\ UNCHANGED overruns
    /\ Materialize(FactOf[P(c)], P(c), t, RetiredByApproval(P(c), t))

Adds(c, f, t) ==
    /\ call[c].pc = "add" /\ P(c) \in IsFact
    /\ f \in FreshIds => fact[f].status = "none"
    /\ UNCHANGED <<queue, overruns>>
    /\ Materialize(f, P(c), t, Retired(f, P(c), t))

LEMMA FactSteps ==
    ASSUME TypeOK, [Next]_vars
    PROVE  \/ UNCHANGED fact
           \/ \E c \in Callers, t \in Times : Approves(c, t)
           \/ \E c \in Callers, f \in AddIds, t \in Times : Adds(c, f, t)
<1>1. ASSUME NEW c \in Callers, NEW t \in Times, ApproveCommit(c, t)
      PROVE  UNCHANGED fact \/ \E u \in Times : Approves(c, u)
  <2>. DEFINE from == IF Observed[P(c)] # None THEN Observed[P(c)] ELSE t
  <2>1. P(c) \in IsFact /\ P(c) \in Proposals  BY <1>1, ConstantTypes DEF ApproveCommit
  <2>2. from \in Times  BY <2>1, ConstantTypes
  <2>3. UNCHANGED fact \/ Approves(c, from)  BY <1>1, <2>1 DEF ApproveCommit, Approves
  <2>. QED  BY <2>2, <2>3
<1>2. ASSUME NEW c \in Callers, NEW f \in AddIds, NEW t \in Times, AddCommit(c, f, t)
      PROVE  Adds(c, f, t)
  <2>1. call[c] \in Local  BY DEF TypeOK
  <2>2. P(c) \in IsFact  BY <1>2, <2>1 DEF AddCommit, Local, P
  <2>. QED  BY <1>2, <2>2 DEF AddCommit, Adds
<1>3. CASE UNCHANGED vars  BY <1>3 DEF vars
<1>4. ASSUME NEW c \in Callers,
             \/ ClaimNext(c) \/ RecordRead(c) \/ RecordWrite(c) \/ Crash(c)
             \/ \E p \in Proposals : \/ AddCheck(c, p)
                                     \/ \E op \in {"approve", "reject"} : ClaimById(c, p, op)
      PROVE  UNCHANGED fact
  BY <1>4 DEF ClaimNext, RecordRead, RecordWrite, Crash, AddCheck, ClaimById
<1>5. ASSUME NEW p \in Proposals, Enqueue(p) \/ LeaseLapse(p) \/ LeaseOverrun(p)
      PROVE  UNCHANGED fact
  BY <1>5 DEF Enqueue, LeaseLapse, LeaseOverrun
<1>. QED  BY <1>1, <1>2, <1>3, <1>4, <1>5 DEF Next, Review

-----------------------------------------------------------------------------
(* One current truth. *)

LEMMA MaterializeOneActive ==
    ASSUME TypeOK, RetirementRecorded, OneActiveObject,
           NEW f \in Facts, NEW p \in IsFact, NEW t \in Times, NEW R \in SUBSET Facts,
           Materialize(f, p, t, R), R = Retired(f, p, t) \/ p \notin Supersedes
    PROVE  RetirementRecorded' /\ OneActiveObject'
<1>1. fact'[f].status = "active" /\ fact'[f].prop = p /\ fact'[f].until = None /\ fact'[f].by = None
  BY MaterializeNew
<1>2. \A g \in Facts \ {f} :
         \/ g \notin R /\ fact'[g] = fact[g]
         \/ fact'[g].status = "superseded" /\ fact'[g].by = f
  BY MaterializeOthers
<1>3. RetirementRecorded'
  BY <1>1, <1>2, NoneIsNoValue DEF RetirementRecorded
<1>4. ASSUME NEW g \in Facts, g # f, fact'[g].status = "active",
             Slot[fact'[g].prop] = Slot[p], Object[fact'[g].prop] # Object[p]
      PROVE  p \notin Supersedes
  <2>1. g \notin R /\ fact'[g] = fact[g]  BY <1>2, <1>4
  <2>2. fact[g].by = None /\ fact[g].until = None  BY <1>4, <2>1 DEF RetirementRecorded
  <2>3. g \in Retired(f, p, t)  BY <1>4, <2>1, <2>2 DEF Retired
  <2>. QED  BY <2>1, <2>3
<1>5. ASSUME NEW g \in Facts, NEW h \in Facts,
             fact'[g].status = "active", fact'[h].status = "active",
             Slot[fact'[g].prop] = Slot[fact'[h].prop],
             Object[fact'[g].prop] # Object[fact'[h].prop]
      PROVE  ~({fact'[g].prop, fact'[h].prop} \subseteq Supersedes)
  <2>1. CASE g = f /\ h = f  BY <1>5, <2>1
  <2>2. CASE g = f /\ h # f  BY <1>1, <1>4, <1>5, <2>2
  <2>3. CASE g # f /\ h = f  BY <1>1, <1>4, <1>5, <2>3
  <2>4. CASE g # f /\ h # f
    <3>1. fact'[g] = fact[g] /\ fact'[h] = fact[h]  BY <1>2, <1>5, <2>4
    <3>. QED  BY <1>5, <3>1 DEF OneActiveObject
  <2>. QED  BY <2>1, <2>2, <2>3, <2>4
<1>6. OneActiveObject'  BY <1>5 DEF OneActiveObject
<1>. QED  BY <1>3, <1>6

TruthInv == TypeOK /\ RetirementRecorded /\ OneActiveObject

LEMMA TruthStep == TruthInv /\ [Next]_vars => TruthInv'
<1>. SUFFICES ASSUME TruthInv, [Next]_vars PROVE TruthInv'  OBVIOUS
<1>t. TypeOK /\ RetirementRecorded /\ OneActiveObject  BY DEF TruthInv
<1>1. TypeOK'  BY <1>t, TypeNext
<1>2. CASE UNCHANGED fact
  BY <1>t, <1>1, <1>2 DEF TruthInv, RetirementRecorded, OneActiveObject
<1>3. ASSUME NEW c \in Callers, NEW t \in Times, Approves(c, t)
      PROVE  RetirementRecorded' /\ OneActiveObject'
  <2>1. P(c) \in IsFact /\ P(c) \in Proposals /\ FactOf[P(c)] \in Facts
    BY <1>3, ConstantTypes DEF Approves
  <2>2. RetiredByApproval(P(c), t) \in SUBSET Facts  BY <2>1, RetiredRows
  <2>3. \/ RetiredByApproval(P(c), t) = Retired(FactOf[P(c)], P(c), t)
        \/ P(c) \notin Supersedes
    BY DEF RetiredByApproval
  <2>. QED  BY <1>t, <1>3, <2>1, <2>2, <2>3, MaterializeOneActive DEF Approves
<1>4. ASSUME NEW c \in Callers, NEW f \in AddIds, NEW t \in Times, Adds(c, f, t)
      PROVE  RetirementRecorded' /\ OneActiveObject'
  <2>1. P(c) \in IsFact /\ P(c) \in Proposals /\ f \in Facts  BY <1>4, ConstantTypes DEF Adds
  <2>2. Retired(f, P(c), t) \in SUBSET Facts  BY <2>1, RetiredRows
  <2>. QED  BY <1>t, <1>4, <2>1, <2>2, MaterializeOneActive DEF Adds
<1>. QED  BY <1>t, <1>1, <1>2, <1>3, <1>4, FactSteps DEF TruthInv

\* Of one subject and predicate, two facts with different objects are never
\* both current when both supersede: #materializeTemporalFact retires the one
\* before it records the other, whatever reviewers, leases and crashes do.
THEOREM OneTruth == Spec => []OneActiveObject
<1>1. Init => TruthInv
  <2>. SUFFICES ASSUME Init PROVE TruthInv  OBVIOUS
  <2>1. \A f \in Facts : fact[f].status = "none"  BY DEF Init
  <2>. QED  BY <2>1, TypeInit DEF TruthInv, RetirementRecorded, OneActiveObject
<1>2. TruthInv => OneActiveObject  BY DEF TruthInv
<1>. QED  BY <1>1, <1>2, TruthStep, PTL DEF Spec

-----------------------------------------------------------------------------
(* Decisions. *)

\* While nobody overran, callers hold what they claimed and add what was decided.
ClaimInv == TypeOK /\ ClaimsHold /\ AddIsGated

\* Both claim transactions leave alone every row whose claim is live, and every
\* decided one.
LEMMA ClaimKeepsOthers ==
    ASSUME TypeOK, NEW c \in Callers, NEW p \in Proposals, Claimable(p)
    PROVE  LET q == [Poisoned EXCEPT ![p] = ClaimRow(c, p)] IN
           /\ q[p].status = "claimed" /\ q[p].owner = IdOf[c] /\ ~q[p].lapsed
           /\ \A r \in Proposals :
                 (queue[r].status = "claimed" /\ ~queue[r].lapsed) \/ queue[r].status = "applied"
                 => r # p /\ q[r] = queue[r]
<1>. DEFINE q == [Poisoned EXCEPT ![p] = ClaimRow(c, p)]
<1>1. queue[p] \in QueueRow  BY DEF TypeOK
<1>2. /\ ClaimRow(c, p).status = "claimed" /\ ClaimRow(c, p).owner = IdOf[c]
      /\ ~ClaimRow(c, p).lapsed
  BY <1>1 DEF ClaimRow, QueueRow
<1>3. q[p] = ClaimRow(c, p) /\ \A r \in Proposals : r # p => q[r] = Poisoned[r]
  BY DEF Poisoned
<1>4. \A r \in Proposals :
         (queue[r].status = "claimed" /\ ~queue[r].lapsed) \/ queue[r].status = "applied"
         => r # p /\ Poisoned[r] = queue[r]
  BY DEF Poisoned, Claimable
<1>. HIDE DEF q
<1>5. q[p].status = "claimed" /\ q[p].owner = IdOf[c] /\ ~q[p].lapsed  BY <1>2, <1>3
<1>6. \A r \in Proposals :
         (queue[r].status = "claimed" /\ ~queue[r].lapsed) \/ queue[r].status = "applied"
         => r # p /\ q[r] = queue[r]
  BY <1>3, <1>4
<1>. QED  BY <1>5, <1>6 DEF q

\* A caller that claims p joins the callers at work.
LEMMA ClaimKeepsClaims ==
    ASSUME ClaimInv, NEW c \in Callers, NEW p \in Proposals, NEW op, Claimable(p),
           queue' = [Poisoned EXCEPT ![p] = ClaimRow(c, p)],
           call' = [call EXCEPT ![c].pc = "claimed", ![c].op = op, ![c].prop = p],
           UNCHANGED overruns
    PROVE  ClaimsHold' /\ AddIsGated'
<1>. SUFFICES ASSUME overruns = 0 PROVE ClaimsHold' /\ AddIsGated'
  BY DEF ClaimsHold, AddIsGated
<1>t. TypeOK /\ ClaimsHold /\ AddIsGated  BY DEF ClaimInv
<1>1. /\ queue'[p].status = "claimed" /\ queue'[p].owner = IdOf[c] /\ ~queue'[p].lapsed
      /\ \A r \in Proposals :
            (queue[r].status = "claimed" /\ ~queue[r].lapsed) \/ queue[r].status = "applied"
            => r # p /\ queue'[r] = queue[r]
  BY <1>t, ClaimKeepsOthers
<1>2. call'[c].pc = "claimed" /\ call'[c].prop = p
  <2>1. call[c] \in Local /\ call \in [Callers -> Local]  BY <1>t DEF TypeOK
  <2>. QED  BY <2>1 DEF Local
<1>3. \A d \in Callers : d # c => call'[d] = call[d]  BY <1>t DEF TypeOK
<1>4. \A d \in Callers : d # c /\ call'[d].pc # "idle" => call[d].prop \in Proposals
  BY <1>t, <1>3, CallerKnows DEF P
<1>5. ASSUME NEW d \in Callers, d # c, AtWork(d)'
      PROVE  /\ call[d].prop # p
             /\ queue'[call'[d].prop].status = "claimed"
             /\ queue'[call'[d].prop].owner = IdOf[d] /\ ~queue'[call'[d].prop].lapsed
  <2>1. AtWork(d) /\ call[d].prop \in Proposals  BY <1>3, <1>4, <1>5 DEF AtWork
  <2>2. /\ queue[call[d].prop].status = "claimed" /\ queue[call[d].prop].owner = IdOf[d]
        /\ ~queue[call[d].prop].lapsed
    BY <1>t, <2>1 DEF ClaimsHold, P
  <2>. QED  BY <1>1, <1>3, <1>5, <2>1, <2>2
<1>6. ClaimsHold'
  <2>1. \A d \in Callers : AtWork(d)' =>
           /\ queue'[call'[d].prop].status = "claimed"
           /\ queue'[call'[d].prop].owner = IdOf[d]
           /\ ~queue'[call'[d].prop].lapsed
    BY <1>1, <1>2, <1>5
  <2>2. ASSUME NEW d \in Callers, NEW e \in Callers, AtWork(d)', AtWork(e)', d # e
        PROVE  call'[d].prop # call'[e].prop
    <3>1. CASE d = c  BY <1>2, <1>3, <1>5, <2>2, <3>1
    <3>2. CASE e = c  BY <1>2, <1>3, <1>5, <2>2, <3>2
    <3>3. CASE d # c /\ e # c
      <4>1. AtWork(d) /\ AtWork(e)  BY <1>3, <2>2, <3>3 DEF AtWork
      <4>2. call[d].prop # call[e].prop  BY <1>t, <2>2, <4>1 DEF ClaimsHold, P
      <4>. QED  BY <1>3, <3>3, <4>2
    <3>. QED  BY <3>1, <3>2, <3>3
  <2>. QED  BY <2>1, <2>2 DEF ClaimsHold, P
<1>7. ASSUME NEW d \in Callers, call'[d].pc = "add"
      PROVE  queue'[call'[d].prop].status = "applied"
  <2>1. d # c /\ call'[d] = call[d]  BY <1>2, <1>3, <1>7
  <2>2. call[d].prop \in Proposals  BY <1>4, <1>7, <2>1
  <2>3. queue[call[d].prop].status = "applied"  BY <1>t, <1>7, <2>1 DEF AddIsGated, P
  <2>. QED  BY <1>1, <2>1, <2>2, <2>3
<1>8. AddIsGated'  BY <1>7 DEF AddIsGated, P
<1>. QED  BY <1>6, <1>8

\* A caller that finishes with its proposal, whose row it may change.
LEMMA LeaveKeepsClaims ==
    ASSUME ClaimInv, NEW c \in Callers, Done(c), UNCHANGED overruns,
           \/ UNCHANGED queue
           \/ /\ AtWork(c)
              /\ \A r \in Proposals : r # P(c) => queue'[r] = queue[r]
    PROVE  ClaimsHold' /\ AddIsGated'
<1>. SUFFICES ASSUME overruns = 0 PROVE ClaimsHold' /\ AddIsGated'
  BY DEF ClaimsHold, AddIsGated
<1>t. TypeOK /\ ClaimsHold /\ AddIsGated  BY DEF ClaimInv
<1>1. call'[c] = IdleLocal /\ \A d \in Callers : d # c => call'[d] = call[d]
  BY <1>t DEF Done, TypeOK
<1>2. call'[c].pc = "idle"  BY <1>1 DEF IdleLocal
<1>3. ASSUME NEW d \in Callers, call'[d].pc # "idle"
      PROVE  d # c /\ call'[d] = call[d] /\ call[d].prop \in Proposals
  BY <1>1, <1>2, <1>3, <1>t, CallerKnows DEF P
<1>4. ASSUME NEW d \in Callers, call'[d].pc # "idle"
      PROVE  queue'[call[d].prop] = queue[call[d].prop]
  <2>1. d # c /\ call'[d] = call[d] /\ call[d].prop \in Proposals  BY <1>3, <1>4
  <2>2. CASE UNCHANGED queue  BY <2>2
  <2>3. CASE /\ AtWork(c) /\ \A r \in Proposals : r # P(c) => queue'[r] = queue[r]
    <3>1. queue[P(c)].status = "claimed"  BY <1>t, <2>3 DEF ClaimsHold
    <3>2. call[d].pc \in {"claimed", "write", "add"}
      <4>1. call[d] \in Local  BY <1>t DEF TypeOK
      <4>. QED  BY <1>4, <2>1, <4>1 DEF Local
    <3>3. CASE AtWork(d)  BY <1>t, <2>1, <2>3, <3>3 DEF ClaimsHold, P
    <3>4. CASE call[d].pc = "add"
      <4>1. queue[call[d].prop].status = "applied"  BY <1>t, <3>4 DEF AddIsGated, P
      <4>. QED  BY <2>1, <2>3, <3>1, <4>1
    <3>. QED  BY <3>2, <3>3, <3>4 DEF AtWork
  <2>. QED  BY <2>2, <2>3
<1>5. \A d \in Callers : AtWork(d)' => AtWork(d) /\ call'[d] = call[d] /\ call'[d].pc # "idle"
  BY <1>3 DEF AtWork
<1>6. ClaimsHold'  BY <1>t, <1>4, <1>5 DEF ClaimsHold, P
<1>7. AddIsGated'  BY <1>t, <1>3, <1>4 DEF AddIsGated, P
<1>. QED  BY <1>6, <1>7

\* A lease that lapses with nobody at work, a proposal that arrives.
LEMMA QueueKeepsClaims ==
    ASSUME ClaimInv, UNCHANGED <<call, overruns>>, NEW p \in Proposals,
           queue[p].status # "applied",
           \A c \in Callers : AtWork(c) /\ overruns = 0 => P(c) # p,
           \A r \in Proposals : r # p => queue'[r] = queue[r]
    PROVE  ClaimsHold' /\ AddIsGated'
<1>. SUFFICES ASSUME overruns = 0 PROVE ClaimsHold' /\ AddIsGated'
  BY DEF ClaimsHold, AddIsGated
<1>t. TypeOK /\ ClaimsHold /\ AddIsGated  BY DEF ClaimInv
<1>1. \A c \in Callers : AtWork(c) => P(c) \in Proposals  BY <1>t, CallerKnows DEF AtWork
<1>2. \A c \in Callers : call[c].pc = "add" => P(c) \in Proposals  BY <1>t, CallerKnows
<1>3. ClaimsHold'  BY <1>t, <1>1 DEF ClaimsHold, P, AtWork
<1>4. AddIsGated'  BY <1>t, <1>2 DEF AddIsGated, P
<1>. QED  BY <1>3, <1>4

LEMMA ClaimStep == ClaimInv /\ [Next]_vars => ClaimInv'
<1>. SUFFICES ASSUME ClaimInv, [Next]_vars PROVE ClaimsHold' /\ AddIsGated'
  BY TypeNext DEF ClaimInv
<1>t. TypeOK /\ ClaimsHold /\ AddIsGated  BY DEF ClaimInv
<1>q. queue \in [Proposals -> QueueRow]  BY <1>t DEF TypeOK
<1>1. ASSUME NEW p \in Proposals, Enqueue(p)  PROVE ClaimsHold' /\ AddIsGated'
  <2>1. \A r \in Proposals : r # p => queue'[r] = queue[r]  BY <1>1, <1>q DEF Enqueue
  <2>2. \A c \in Callers : AtWork(c) /\ overruns = 0 => P(c) # p
    BY <1>t, <1>1 DEF Enqueue, ClaimsHold
  <2>. QED  BY <1>1, <2>1, <2>2, QueueKeepsClaims DEF Enqueue
<1>2. ASSUME NEW p \in Proposals, LeaseLapse(p)  PROVE ClaimsHold' /\ AddIsGated'
  <2>1. \A r \in Proposals : r # p => queue'[r] = queue[r]  BY <1>2, <1>q DEF LeaseLapse
  <2>2. \A c \in Callers : AtWork(c) /\ overruns = 0 => P(c) # p
    BY <1>t, <1>2 DEF LeaseLapse, ClaimsHold, Attended, AtWork
  <2>. QED  BY <1>2, <2>1, <2>2, QueueKeepsClaims DEF LeaseLapse
<1>3. ASSUME NEW p \in Proposals, LeaseOverrun(p)  PROVE ClaimsHold' /\ AddIsGated'
  <2>1. overruns' # 0  BY <1>3, <1>t DEF LeaseOverrun, TypeOK
  <2>. QED  BY <2>1 DEF ClaimsHold, AddIsGated
<1>4. ASSUME NEW c \in Callers, NEW p \in Proposals, NEW op, ClaimById(c, p, op)
      PROVE  ClaimsHold' /\ AddIsGated'
  BY <1>4, ClaimKeepsClaims DEF ClaimById
<1>5. ASSUME NEW c \in Callers, ClaimNext(c)  PROVE ClaimsHold' /\ AddIsGated'
  <2>1. ASSUME NEW p \in Proposals, Claimable(p),
               queue' = [Poisoned EXCEPT ![p] = ClaimRow(c, p)],
               call' = [call EXCEPT ![c].pc = "claimed", ![c].op = "work", ![c].prop = p]
        PROVE  ClaimsHold' /\ AddIsGated'
    BY <1>5, <2>1, ClaimKeepsClaims DEF ClaimNext
  <2>2. CASE queue' = Poisoned /\ UNCHANGED call
    <3>1. \A r \in Proposals :
             (queue[r].status = "claimed" /\ ~queue[r].lapsed) \/ queue[r].status = "applied"
             => queue'[r] = queue[r]
      BY <2>2 DEF Poisoned
    <3>2. \A d \in Callers : call[d].pc # "idle" => P(d) \in Proposals  BY <1>t, CallerKnows
    <3>3. UNCHANGED overruns  BY <1>5 DEF ClaimNext
    <3>4. \A d \in Callers : overruns = 0 /\ AtWork(d) => queue'[P(d)] = queue[P(d)]
      BY <1>t, <3>1, <3>2 DEF ClaimsHold, AtWork
    <3>5. ClaimsHold'  BY <1>t, <2>2, <3>3, <3>4 DEF ClaimsHold, P, AtWork
    <3>6. AddIsGated'  BY <1>t, <2>2, <3>1, <3>2, <3>3 DEF AddIsGated, P
    <3>. QED  BY <3>5, <3>6
  <2>. QED  BY <1>5, <2>1, <2>2 DEF ClaimNext
<1>6. ASSUME NEW c \in Callers, RecordRead(c)  PROVE ClaimsHold' /\ AddIsGated'
  <2>1. UNCHANGED <<queue, overruns>>  BY <1>6 DEF RecordRead
  <2>2. CASE Done(c)  BY <2>1, <2>2, LeaveKeepsClaims
  <2>3. ASSUME NEW o,
               call' = [call EXCEPT ![c].pc = "write", ![c].next = o[1], ![c].result = o[2]]
        PROVE  ClaimsHold' /\ AddIsGated'
    <3>1. call[c] \in Local /\ call \in [Callers -> Local]  BY <1>t DEF TypeOK
    <3>2. call'[c].pc = "write" /\ call'[c].prop = call[c].prop  BY <2>3, <3>1 DEF Local
    <3>3. \A d \in Callers : d # c => call'[d] = call[d]  BY <2>3, <3>1
    <3>4. AtWork(c)  BY <1>6 DEF RecordRead, AtWork
    <3>5. \A d \in Callers : (AtWork(d)' => AtWork(d)) /\ call'[d].prop = call[d].prop
      BY <3>2, <3>3, <3>4 DEF AtWork
    <3>6. ClaimsHold'  BY <1>t, <2>1, <3>5 DEF ClaimsHold, P
    <3>7. AddIsGated'  BY <1>t, <2>1, <3>2, <3>3 DEF AddIsGated, P
    <3>. QED  BY <3>6, <3>7
  <2>. QED  BY <1>6, <2>2, <2>3 DEF RecordRead
<1>7. ASSUME NEW c \in Callers, RecordWrite(c)  PROVE ClaimsHold' /\ AddIsGated'
  <2>1. \A r \in Proposals : r # P(c) => queue'[r] = queue[r]  BY <1>7, <1>q DEF RecordWrite
  <2>2. AtWork(c)  BY <1>7 DEF RecordWrite, AtWork
  <2>. QED  BY <1>7, <2>1, <2>2, LeaveKeepsClaims DEF RecordWrite
<1>8. ASSUME NEW c \in Callers, NEW t \in Times, ApproveCommit(c, t)
      PROVE  ClaimsHold' /\ AddIsGated'
  <2>1. \A r \in Proposals : r # P(c) => queue'[r] = queue[r]  BY <1>8, <1>q DEF ApproveCommit
  <2>2. AtWork(c)  BY <1>8 DEF ApproveCommit, AtWork
  <2>. QED  BY <1>8, <2>1, <2>2, LeaveKeepsClaims DEF ApproveCommit
<1>9. ASSUME NEW c \in Callers, NEW p \in Proposals, AddCheck(c, p)
      PROVE  ClaimsHold' /\ AddIsGated'
  <2>1. call[c] \in Local /\ call \in [Callers -> Local]  BY <1>t DEF TypeOK
  <2>2. call'[c].pc = "add" /\ call'[c].prop = p  BY <1>9, <2>1 DEF AddCheck, Local
  <2>3. \A d \in Callers : d # c => call'[d] = call[d]  BY <1>9, <2>1 DEF AddCheck
  <2>4. UNCHANGED <<queue, overruns>> /\ queue[p].status = "applied"
    BY <1>9 DEF AddCheck, GateOpen
  <2>5. \A d \in Callers : AtWork(d)' => AtWork(d) /\ call'[d] = call[d]
    BY <2>2, <2>3 DEF AtWork
  <2>6. ClaimsHold'  BY <1>t, <2>4, <2>5 DEF ClaimsHold, P
  <2>7. AddIsGated'  BY <1>t, <2>2, <2>3, <2>4 DEF AddIsGated, P
  <2>. QED  BY <2>6, <2>7
<1>10. ASSUME NEW c \in Callers, NEW f, NEW t, AddCommit(c, f, t)
       PROVE  ClaimsHold' /\ AddIsGated'
  BY <1>10, LeaveKeepsClaims DEF AddCommit
<1>11. ASSUME NEW c \in Callers, Crash(c)  PROVE ClaimsHold' /\ AddIsGated'
  BY <1>11, LeaveKeepsClaims DEF Crash
<1>12. CASE UNCHANGED vars
  BY <1>t, <1>12 DEF vars, ClaimsHold, AddIsGated, P, AtWork
<1>. QED
  BY <1>1, <1>2, <1>3, <1>4, <1>5, <1>6, <1>7, <1>8, <1>9, <1>10, <1>11, <1>12
  DEF Next, Review

LEMMA ClaimInit == Init => ClaimInv
<1>. SUFFICES ASSUME Init PROVE ClaimInv  OBVIOUS
<1>1. \A c \in Callers : call[c].pc = "idle"  BY DEF Init, IdleLocal
<1>. QED  BY <1>1, TypeInit DEF ClaimInv, ClaimsHold, AddIsGated, AtWork

LEMMA DecidedStays ==
    ASSUME ClaimInv, [Next]_vars, overruns = 0, NEW p \in Proposals, queue[p].status = "applied"
    PROVE  queue'[p] = queue[p]
<1>t. TypeOK /\ ClaimsHold /\ AddIsGated  BY DEF ClaimInv
<1>q. queue \in [Proposals -> QueueRow]  BY <1>t DEF TypeOK
<1>1. ASSUME NEW r \in Proposals, Enqueue(r) \/ LeaseLapse(r) \/ LeaseOverrun(r)
      PROVE  queue'[p] = queue[p]
  BY <1>1, <1>q DEF Enqueue, LeaseLapse, LeaseOverrun
<1>2. ASSUME NEW c \in Callers, NEW r \in Proposals, Claimable(r),
             queue' = [Poisoned EXCEPT ![r] = ClaimRow(c, r)]
      PROVE  queue'[p] = queue[p]
  BY <1>2, <1>t, ClaimKeepsOthers
<1>3. ASSUME NEW c \in Callers, ClaimNext(c)  PROVE queue'[p] = queue[p]
  <2>1. CASE queue' = Poisoned  BY <2>1 DEF Poisoned
  <2>. QED  BY <1>2, <1>3, <2>1 DEF ClaimNext
<1>4. ASSUME NEW c \in Callers, RecordWrite(c)  PROVE queue'[p] = queue[p]
  <2>1. queue[P(c)].status = "claimed"  BY <1>t, <1>4 DEF RecordWrite, ClaimsHold, AtWork
  <2>. QED  BY <1>4, <1>q, <2>1 DEF RecordWrite
<1>5. ASSUME NEW c \in Callers, NEW t, ApproveCommit(c, t)  PROVE queue'[p] = queue[p]
  BY <1>5, <1>q DEF ApproveCommit
<1>6. ASSUME NEW c \in Callers, NEW r \in Proposals, NEW op, ClaimById(c, r, op)
      PROVE  queue'[p] = queue[p]
  BY <1>2, <1>6 DEF ClaimById
<1>7. ASSUME NEW c \in Callers, RecordRead(c) \/ Crash(c)  PROVE queue'[p] = queue[p]
  BY <1>7 DEF RecordRead, Crash
<1>8. ASSUME NEW c \in Callers, NEW r, AddCheck(c, r)  PROVE queue'[p] = queue[p]
  BY <1>8 DEF AddCheck
<1>9. ASSUME NEW c \in Callers, NEW f, NEW t, AddCommit(c, f, t)  PROVE queue'[p] = queue[p]
  BY <1>9 DEF AddCommit
<1>10. CASE UNCHANGED vars  BY <1>10 DEF vars
<1>. QED
  BY <1>1, <1>3, <1>4, <1>5, <1>6, <1>7, <1>8, <1>9, <1>10 DEF Next, Review

\* As long as no lease lapsed under a caller, a decided proposal stays as it
\* was decided: recordProposalResult and the claims, which check the row before
\* or outside the statement that writes it, never touch it.
THEOREM DecisionsStand == Spec => DecisionFinal
<1>1. ClaimInv /\ [Next]_vars =>
         [\A p \in Proposals :
             overruns = 0 /\ queue[p].status = "applied" => queue'[p] = queue[p]]_vars
  BY DecidedStays
<1>. QED  BY <1>1, ClaimInit, ClaimStep, PTL DEF Spec, DecisionFinal

-----------------------------------------------------------------------------
(* The gate. *)

LEMMA OverrunsStay ==
    ASSUME TypeOK, [Next]_vars, overruns' = 0
    PROVE  overruns = 0
<1>1. ASSUME NEW c \in Callers, Review(c)  PROVE UNCHANGED overruns
  BY <1>1 DEF Review, ClaimNext, RecordRead, RecordWrite, Crash, AddCheck, ClaimById,
              ApproveCommit, AddCommit
<1>2. ASSUME NEW p \in Proposals, Enqueue(p) \/ LeaseLapse(p)  PROVE UNCHANGED overruns
  BY <1>2 DEF Enqueue, LeaseLapse
<1>3. ASSUME NEW p \in Proposals, LeaseOverrun(p)  PROVE FALSE
  BY <1>3 DEF LeaseOverrun, TypeOK
<1>4. CASE UNCHANGED vars  BY <1>4 DEF vars
<1>. QED  BY <1>1, <1>2, <1>3, <1>4 DEF Next

\* A new fact of a decided proposal, and the retirement of others.
LEMMA MaterializeGated ==
    ASSUME TypeOK, NEW f \in Facts, NEW p \in Proposals, NEW t, NEW R \in SUBSET Facts,
           Materialize(f, p, t, R), \A g \in R : fact[g].status # "none",
           NEW g \in Facts, fact'[g].status # "none"
    PROVE  fact'[g].prop = p \/ (fact[g].status # "none" /\ fact'[g].prop = fact[g].prop)
<1>1. CASE g = f  BY <1>1, MaterializeNew
<1>2. CASE g # f  BY <1>2, MaterializeOthers
<1>. QED  BY <1>1, <1>2

GateInv == ClaimInv /\ FactsAreGated

LEMMA GateStep == GateInv /\ [Next]_vars => GateInv'
<1>. SUFFICES ASSUME GateInv, [Next]_vars PROVE GateInv'  OBVIOUS
<1>1. ClaimInv /\ FactsAreGated /\ ClaimInv'  BY ClaimStep DEF GateInv
<1>t. TypeOK /\ AddIsGated  BY <1>1 DEF ClaimInv
<1>q. queue \in [Proposals -> QueueRow]  BY <1>t DEF TypeOK
<1>2. SUFFICES ASSUME overruns' = 0, NEW g \in Facts, fact'[g].status # "none"
      PROVE  queue'[fact'[g].prop].status = "applied"
  BY <1>1 DEF GateInv, FactsAreGated
<1>3. overruns = 0  BY <1>t, <1>2, OverrunsStay
<1>4. ASSUME fact[g].status # "none"  PROVE queue'[fact[g].prop].status = "applied"
  <2>1. fact[g].prop \in Proposals  BY <1>t, <1>4, ConstantTypes DEF TypeOK
  <2>2. queue[fact[g].prop].status = "applied"  BY <1>1, <1>3, <1>4 DEF FactsAreGated
  <2>. QED  BY <1>1, <1>3, <2>1, <2>2, DecidedStays
<1>5. CASE UNCHANGED fact  BY <1>2, <1>4, <1>5
<1>6. ASSUME NEW c \in Callers, NEW t \in Times, Approves(c, t)
      PROVE  queue'[fact'[g].prop].status = "applied"
  <2>1. P(c) \in Proposals /\ FactOf[P(c)] \in Facts  BY <1>6, ConstantTypes DEF Approves
  <2>2. queue[P(c)] \in QueueRow  BY <1>q, <2>1
  <2>3. queue'[P(c)].status = "applied"  BY <1>6, <1>q, <2>1, <2>2 DEF Approves, QueueRow
  <2>4. fact'[g].prop = P(c) \/ (fact[g].status # "none" /\ fact'[g].prop = fact[g].prop)
    BY <1>t, <1>2, <1>6, <2>1, RetiredRows, MaterializeGated DEF Approves
  <2>. QED  BY <1>4, <2>3, <2>4
<1>7. ASSUME NEW c \in Callers, NEW f \in AddIds, NEW t \in Times, Adds(c, f, t)
      PROVE  queue'[fact'[g].prop].status = "applied"
  <2>1. P(c) \in Proposals /\ f \in Facts  BY <1>7, ConstantTypes DEF Adds
  <2>2. queue'[P(c)].status = "applied"  BY <1>t, <1>3, <1>7 DEF Adds, AddIsGated
  <2>3. fact'[g].prop = P(c) \/ (fact[g].status # "none" /\ fact'[g].prop = fact[g].prop)
    BY <1>t, <1>2, <1>7, <2>1, RetiredRows, MaterializeGated DEF Adds
  <2>. QED  BY <1>4, <2>2, <2>3
<1>. QED  BY <1>t, <1>5, <1>6, <1>7, FactSteps

LEMMA GateInit == Init => GateInv
<1>. SUFFICES ASSUME Init PROVE GateInv  OBVIOUS
<1>1. \A f \in Facts : fact[f].status = "none"  BY DEF Init
<1>. QED  BY <1>1, ClaimInit DEF GateInv, FactsAreGated

\* As long as no lease lapsed under a caller, no fact is recorded for a proposal
\* that is not decided, although addTemporalFact checks the proposal outside the
\* transaction that records the fact.
THEOREM GateHolds == Spec => []FactsAreGated
<1>1. GateInv => FactsAreGated  BY DEF GateInv
<1>. QED  BY <1>1, GateInit, GateStep, PTL DEF Spec

-----------------------------------------------------------------------------
(* Histories, when addTemporalFact draws its own ids. *)

\* The fact of a proposal is written by nobody else, and never removed.
LEMMA OwnRow ==
    ASSUME AddIds = FreshIds, TypeOK, IdIsOwn, [Next]_vars, NEW p \in Proposals
    PROVE  /\ fact'[FactOf[p]].status # "none" => fact'[FactOf[p]].prop = p
           /\ fact[FactOf[p]].status # "none" => fact'[FactOf[p]].status # "none"
<1>. DEFINE f == FactOf[p]
<1>1. f \in Facts /\ f \notin AddIds  BY ConstantTypes, FactIds
<1>2. fact[f].status # "none" => fact[f].prop = p  BY DEF IdIsOwn
<1>. HIDE DEF f
<1>3. CASE UNCHANGED fact  BY <1>2, <1>3 DEF f
<1>4. ASSUME NEW h \in Facts, NEW q \in Proposals, NEW t, NEW R \in SUBSET Facts,
             Materialize(h, q, t, R), \A g \in R : fact[g].status # "none", h # f \/ q = p
      PROVE  /\ fact'[f].status # "none" => fact'[f].prop = p
             /\ fact[f].status # "none" => fact'[f].status # "none"
  <2>1. CASE h = f
    <3>1. fact'[f].status = "active" /\ fact'[f].prop = q  BY <1>4, <2>1, MaterializeNew
    <3>. QED  BY <1>4, <2>1, <3>1
  <2>2. CASE h # f
    <3>1. \/ fact'[f] = fact[f]
          \/ fact'[f].status = "superseded" /\ fact'[f].prop = fact[f].prop /\ f \in R
      BY <1>1, <1>4, <2>2, MaterializeOthers
    <3>. QED  BY <1>2, <1>4, <3>1
  <2>. QED  BY <2>1, <2>2
<1>5. ASSUME NEW c \in Callers, NEW t \in Times, Approves(c, t)
      PROVE  /\ fact'[f].status # "none" => fact'[f].prop = p
             /\ fact[f].status # "none" => fact'[f].status # "none"
  <2>1. P(c) \in Proposals /\ FactOf[P(c)] \in Facts  BY <1>5, ConstantTypes DEF Approves
  <2>2. FactOf[P(c)] # f \/ P(c) = p  BY <2>1, FactIds DEF f
  <2>. QED  BY <1>4, <1>5, <2>1, <2>2, RetiredRows DEF Approves
<1>6. ASSUME NEW c \in Callers, NEW h \in AddIds, NEW t \in Times, Adds(c, h, t)
      PROVE  /\ fact'[f].status # "none" => fact'[f].prop = p
             /\ fact[f].status # "none" => fact'[f].status # "none"
  <2>1. P(c) \in Proposals /\ h \in Facts /\ h # f  BY <1>1, <1>6, ConstantTypes DEF Adds
  <2>. QED  BY <1>4, <1>6, <2>1, RetiredRows DEF Adds
<1>. QED  BY <1>3, <1>5, <1>6, FactSteps DEF f

LEMMA NoApprovalStep == TypeOK /\ NoApprovalRecorded /\ [Next]_vars => NoApprovalRecorded'
<1>. SUFFICES ASSUME TypeOK, NoApprovalRecorded, [Next]_vars PROVE NoApprovalRecorded'
  OBVIOUS
<1>c. call \in [Callers -> Local] /\ \A c \in Callers : call[c] \in Local  BY DEF TypeOK
<1>1. ASSUME NEW c \in Callers, Done(c)  PROVE NoApprovalRecorded'
  BY <1>1, <1>c DEF Done, IdleLocal, NoApprovalRecorded
<1>2. CASE UNCHANGED call  BY <1>2 DEF NoApprovalRecorded
<1>3. ASSUME NEW c \in Callers, NEW p \in Proposals, NEW op,
             call' = [call EXCEPT ![c].pc = "claimed", ![c].op = op, ![c].prop = p]
      PROVE  NoApprovalRecorded'
  <2>1. call'[c].result = call[c].result  BY <1>3, <1>c DEF Local
  <2>. QED  BY <1>3, <1>c, <2>1 DEF NoApprovalRecorded
<1>4. ASSUME NEW c \in Callers, NEW p, AddCheck(c, p)  PROVE NoApprovalRecorded'
  <2>1. call'[c].result = call[c].result  BY <1>4, <1>c DEF AddCheck, Local
  <2>. QED  BY <1>4, <1>c, <2>1 DEF AddCheck, NoApprovalRecorded
<1>5. ASSUME NEW c \in Callers, RecordRead(c)  PROVE NoApprovalRecorded'
  <2>1. ASSUME NEW o \in Outcomes(c),
               call' = [call EXCEPT ![c].pc = "write", ![c].next = o[1], ![c].result = o[2]]
        PROVE  NoApprovalRecorded'
    <3>1. o[2] # "approved"  BY <2>1 DEF Outcomes
    <3>2. call'[c].result = o[2]  BY <2>1, <1>c DEF Local
    <3>. QED  BY <1>c, <2>1, <3>1, <3>2 DEF NoApprovalRecorded
  <2>. QED  BY <1>1, <1>5, <2>1 DEF RecordRead
<1>6. ASSUME NEW c \in Callers, Review(c)  PROVE NoApprovalRecorded'
  BY <1>1, <1>2, <1>3, <1>4, <1>5, <1>6
  DEF Review, ClaimNext, ClaimById, RecordWrite, ApproveCommit, AddCommit, Crash
<1>7. ASSUME NEW p \in Proposals, Enqueue(p) \/ LeaseLapse(p) \/ LeaseOverrun(p)
      PROVE  UNCHANGED call
  BY <1>7 DEF Enqueue, LeaseLapse, LeaseOverrun
<1>. QED  BY <1>2, <1>6, <1>7 DEF Next, vars

\* A recorded approval stands, or is recorded with its fact.
LEMMA ApprovalSteps ==
    ASSUME TypeOK, NoApprovalRecorded, [Next]_vars,
           NEW p \in Proposals, queue'[p].result = "approved"
    PROVE  \/ queue[p].result = "approved"
           \/ fact'[FactOf[p]].status # "none"
<1>q. queue \in [Proposals -> QueueRow] /\ \A r \in Proposals : queue[r] \in QueueRow
  BY DEF TypeOK
<1>1. ASSUME NEW r \in Proposals, Enqueue(r) \/ LeaseLapse(r) \/ LeaseOverrun(r)
      PROVE  queue[p].result = "approved"
  BY <1>1, <1>q DEF Enqueue, LeaseLapse, LeaseOverrun, QueueRow
<1>2. Poisoned[p].result = queue[p].result /\ Poisoned \in [Proposals -> QueueRow]
  <2>1. \A r \in Proposals : Poisoned[r] \in QueueRow /\ Poisoned[r].result = queue[r].result
    BY <1>q DEF Poisoned, QueueRow, QueueStatus
  <2>. QED  BY <2>1 DEF Poisoned
<1>3. ASSUME NEW c \in Callers, NEW r \in Proposals,
             queue' = [Poisoned EXCEPT ![r] = ClaimRow(c, r)]
      PROVE  queue[p].result = "approved"
  <2>1. ClaimRow(c, r).result = queue[r].result  BY <1>q DEF ClaimRow, QueueRow
  <2>. QED  BY <1>2, <1>3, <2>1
<1>4. ASSUME NEW c \in Callers, ClaimNext(c)  PROVE queue[p].result = "approved"
  BY <1>2, <1>3, <1>4 DEF ClaimNext
<1>5. ASSUME NEW c \in Callers, RecordWrite(c)  PROVE queue[p].result = "approved"
  <2>1. P(c) \in Proposals  BY <1>5, CallerKnows DEF RecordWrite
  <2>2. queue'[P(c)].result = call[c].result  BY <1>5, <1>q, <2>1 DEF RecordWrite, QueueRow
  <2>3. P(c) # p => queue'[p] = queue[p]  BY <1>5, <1>q DEF RecordWrite
  <2>. QED  BY <2>2, <2>3 DEF NoApprovalRecorded
<1>6. ASSUME NEW c \in Callers, NEW t \in Times, ApproveCommit(c, t)
      PROVE  queue[p].result = "approved" \/ fact'[FactOf[p]].status # "none"
  <2>. DEFINE from == IF Observed[P(c)] # None THEN Observed[P(c)] ELSE t
  <2>1. P(c) # p => queue'[p] = queue[p]  BY <1>6, <1>q DEF ApproveCommit
  <2>2. ASSUME P(c) = p, Materialize(FactOf[p], p, from, RetiredByApproval(p, from))
        PROVE  fact'[FactOf[p]].status # "none"
    BY <2>2, ConstantTypes, MaterializeNew
  <2>. QED  BY <1>6, <2>1, <2>2 DEF ApproveCommit
<1>7. ASSUME NEW c \in Callers, NEW r \in Proposals, NEW op, ClaimById(c, r, op)
      PROVE  queue[p].result = "approved"
  BY <1>3, <1>7 DEF ClaimById
<1>8. ASSUME NEW c \in Callers, RecordRead(c) \/ Crash(c)  PROVE UNCHANGED queue
  BY <1>8 DEF RecordRead, Crash
<1>9. ASSUME NEW c \in Callers, NEW r, AddCheck(c, r)  PROVE UNCHANGED queue
  BY <1>9 DEF AddCheck
<1>10. ASSUME NEW c \in Callers, NEW f, NEW t, AddCommit(c, f, t)  PROVE UNCHANGED queue
  BY <1>10 DEF AddCommit
<1>11. CASE UNCHANGED vars  BY <1>11 DEF vars
<1>. QED
  BY <1>1, <1>4, <1>5, <1>6, <1>7, <1>8, <1>9, <1>10, <1>11 DEF Next, Review

HistoryInv == TypeOK /\ NoApprovalRecorded /\ IdIsOwn /\ ApprovalHasFact

LEMMA HistoryInit == Init => HistoryInv
<1>. SUFFICES ASSUME Init PROVE HistoryInv  OBVIOUS
<1>1. \A f \in Facts : fact[f].status = "none"  BY DEF Init
<1>2. \A p \in Proposals : queue[p].result # "approved"  BY DEF Init
<1>3. NoApprovalRecorded  BY DEF Init, IdleLocal, NoApprovalRecorded
<1>4. \A p \in Proposals : FactOf[p] \in Facts  BY ConstantTypes
<1>. QED  BY <1>1, <1>2, <1>3, <1>4, TypeInit DEF HistoryInv, IdIsOwn, ApprovalHasFact

LEMMA HistoryStep ==
    ASSUME AddIds = FreshIds
    PROVE  HistoryInv /\ [Next]_vars => HistoryInv'
<1>. SUFFICES ASSUME HistoryInv, [Next]_vars PROVE HistoryInv'  OBVIOUS
<1>1. TypeOK /\ NoApprovalRecorded /\ IdIsOwn /\ ApprovalHasFact  BY DEF HistoryInv
<1>2. TypeOK' /\ NoApprovalRecorded'  BY <1>1, TypeNext, NoApprovalStep
<1>3. IdIsOwn'  BY <1>1, OwnRow DEF IdIsOwn
<1>4. ASSUME NEW p \in Proposals, queue'[p].result = "approved"
      PROVE  fact'[FactOf[p]].status # "none" /\ fact'[FactOf[p]].prop = p
  <2>1. fact'[FactOf[p]].status # "none"
    BY <1>1, <1>4, ApprovalSteps, OwnRow DEF ApprovalHasFact
  <2>. QED  BY <1>1, <2>1, OwnRow
<1>5. ApprovalHasFact'  BY <1>4 DEF ApprovalHasFact
<1>. QED  BY <1>2, <1>3, <1>5 DEF HistoryInv

\* An approval on record has its fact, also after lapsed leases, stale results
\* and crashes: approveProposalFact writes both in one fenced transaction, and
\* nothing takes the fact away.
THEOREM ApprovalsKept ==
    ASSUME AddIds = FreshIds
    PROVE  Spec => []ApprovalHasFact
<1>1. HistoryInv => ApprovalHasFact  BY DEF HistoryInv
<1>. QED  BY <1>1, HistoryInit, HistoryStep, PTL DEF Spec

\* The new fact takes the place of those it retires, and of the one it overwrites.
LEMMA MaterializeKeepsTruth ==
    ASSUME TypeOK, SlotKeepsTruth, NEW f \in Facts, NEW p \in IsFact, NEW t \in Times,
           NEW R \in SUBSET Retired(f, p, t), Materialize(f, p, t, R),
           fact[f].status = "none" \/ fact[f].prop = p
    PROVE  SlotKeepsTruth'
<1>. SUFFICES ASSUME NEW h \in Facts, fact'[h].status = "superseded"
     PROVE  \E g \in Facts : /\ fact'[g].status = "active"
                             /\ Slot[fact'[g].prop] = Slot[fact'[h].prop]
  BY DEF SlotKeepsTruth
<1>1. fact'[f].status = "active" /\ fact'[f].prop = p  BY MaterializeNew
<1>2. \A g \in R : Slot[fact[g].prop] = Slot[p]  BY DEF Retired
<1>3. h # f  BY <1>1
<1>4. CASE h \in R
  <2>1. fact'[h].prop = fact[h].prop  BY <1>3, <1>4, MaterializeOthers
  <2>. QED  BY <1>1, <1>2, <1>4, <2>1
<1>5. CASE h \notin R
  <2>1. fact'[h] = fact[h]  BY <1>3, <1>5, MaterializeOthers
  <2>2. PICK g \in Facts : fact[g].status = "active" /\ Slot[fact[g].prop] = Slot[fact[h].prop]
    BY <2>1 DEF SlotKeepsTruth
  <2>3. CASE g = f  BY <1>1, <2>1, <2>2, <2>3
  <2>4. CASE g \in R  BY <1>1, <1>2, <2>1, <2>2, <2>4
  <2>5. CASE g # f /\ g \notin R
    <3>1. fact'[g] = fact[g]  BY <2>5, MaterializeOthers
    <3>. QED  BY <2>1, <2>2, <3>1
  <2>. QED  BY <2>3, <2>4, <2>5
<1>. QED  BY <1>4, <1>5

LEMMA TruthKeptStep ==
    ASSUME AddIds = FreshIds
    PROVE  HistoryInv /\ SlotKeepsTruth /\ [Next]_vars => SlotKeepsTruth'
<1>. SUFFICES ASSUME HistoryInv, SlotKeepsTruth, [Next]_vars PROVE SlotKeepsTruth'  OBVIOUS
<1>t. TypeOK /\ IdIsOwn  BY DEF HistoryInv
<1>1. CASE UNCHANGED fact  BY <1>1 DEF SlotKeepsTruth
<1>2. ASSUME NEW c \in Callers, NEW t \in Times, Approves(c, t)  PROVE SlotKeepsTruth'
  <2>1. P(c) \in IsFact /\ P(c) \in Proposals /\ FactOf[P(c)] \in Facts
    BY <1>2, ConstantTypes DEF Approves
  <2>2. fact[FactOf[P(c)]].status = "none" \/ fact[FactOf[P(c)]].prop = P(c)
    BY <1>t, <2>1 DEF IdIsOwn
  <2>3. RetiredByApproval(P(c), t) \in SUBSET Retired(FactOf[P(c)], P(c), t)
    BY DEF RetiredByApproval
  <2>. QED  BY <1>t, <1>2, <2>1, <2>2, <2>3, MaterializeKeepsTruth DEF Approves
<1>3. ASSUME NEW c \in Callers, NEW f \in AddIds, NEW t \in Times, Adds(c, f, t)
      PROVE  SlotKeepsTruth'
  <2>1. P(c) \in IsFact /\ f \in Facts /\ fact[f].status = "none"
    BY <1>3, ConstantTypes DEF Adds
  <2>. QED  BY <1>t, <1>3, <2>1, MaterializeKeepsTruth DEF Adds
<1>. QED  BY <1>t, <1>1, <1>2, <1>3, FactSteps

\* A subject and predicate that had a truth has one now: no order of approvals,
\* additions, lapsed leases and crashes leaves only retired facts.
THEOREM TruthKept ==
    ASSUME AddIds = FreshIds
    PROVE  Spec => []SlotKeepsTruth
<1>1. Init => SlotKeepsTruth
  <2>. SUFFICES ASSUME Init PROVE SlotKeepsTruth  OBVIOUS
  <2>1. \A f \in Facts : fact[f].status = "none"  BY DEF Init
  <2>. QED  BY <2>1 DEF SlotKeepsTruth
<1>. QED  BY <1>1, HistoryInit, HistoryStep, TruthKeptStep, PTL DEF Spec

\* As long as no lease lapsed under a caller, a retired fact is history: no
\* second approval overwrites it and no supersession retires it again.
THEOREM HistoryKept ==
    ASSUME AddIds = FreshIds
    PROVE  Spec => HistoryFinal
<1>. DEFINE Inv == HistoryInv /\ TruthInv /\ GateInv
            Kept == \A f \in Facts :
                       overruns = 0 /\ fact[f].status = "superseded" => fact'[f] = fact[f]
<1>1. Init => Inv
  <2>1. Init => TruthInv
    <3>. SUFFICES ASSUME Init PROVE TruthInv  OBVIOUS
    <3>1. \A f \in Facts : fact[f].status = "none"  BY DEF Init
    <3>. QED  BY <3>1, TypeInit DEF TruthInv, RetirementRecorded, OneActiveObject
  <2>. QED  BY <2>1, HistoryInit, GateInit
<1>2. Inv /\ [Next]_vars => Inv'  BY HistoryStep, TruthStep, GateStep
<1>3. Inv /\ [Next]_vars => Kept
  <2>. SUFFICES ASSUME Inv, [Next]_vars, overruns = 0, NEW f \in Facts,
                       fact[f].status = "superseded"
       PROVE  fact'[f] = fact[f]
    OBVIOUS
  <2>t. TypeOK /\ IdIsOwn /\ RetirementRecorded /\ FactsAreGated
    BY DEF HistoryInv, TruthInv, GateInv
  <2>1. fact[f].by # None  BY <2>t DEF RetirementRecorded
  <2>2. ASSUME NEW c \in Callers, NEW t \in Times, Approves(c, t)  PROVE fact'[f] = fact[f]
    <3>1. P(c) \in Proposals  BY <2>2, ConstantTypes DEF Approves
    <3>2. f # FactOf[P(c)]
      <4>. SUFFICES ASSUME f = FactOf[P(c)] PROVE FALSE  OBVIOUS
      <4>1. fact[f].prop = P(c)  BY <2>t, <3>1 DEF IdIsOwn
      <4>2. queue[P(c)].status = "applied"  BY <2>t, <4>1 DEF FactsAreGated
      <4>. QED  BY <2>2, <4>2 DEF Approves
    <3>3. f \notin RetiredByApproval(P(c), t)  BY <2>1 DEF RetiredByApproval, Retired
    <3>. QED  BY <2>t, <2>2, <3>2, <3>3, MaterializeOthers DEF Approves
  <2>3. ASSUME NEW c \in Callers, NEW g \in AddIds, NEW t \in Times, Adds(c, g, t)
        PROVE  fact'[f] = fact[f]
    <3>1. f # g  BY <2>3 DEF Adds
    <3>2. f \notin Retired(g, P(c), t)  BY <2>1 DEF Retired
    <3>. QED  BY <2>t, <2>3, <3>1, <3>2, MaterializeOthers DEF Adds
  <2>. QED  BY <2>t, <2>2, <2>3, FactSteps
<1>. QED  BY <1>1, <1>2, <1>3, PTL DEF Spec, HistoryFinal
=============================================================================
