--------------------------- MODULE ContextCompiler ---------------------------
(***************************************************************************)
(* Compilation of a context and the persistence of its manifest            *)
(* (compileAndPersistContext of packages/context-compiler and the append   *)
(* and get of the filesystem manifest repository).  A compilation asks the *)
(* sources of its plan one after the other, each behind a policy decision, *)
(* a deadline and the signal of its caller; merges what they return; then  *)
(* selects, assembles, appends the manifest, reads it back and announces   *)
(* it.  Other processes edit the records meanwhile, and compilations of    *)
(* one request may overlap: a retry, or a second process.                  *)
(***************************************************************************)
EXTENDS ContextSelection

CONSTANTS
    Hung,       \* a query that never answers
    Compiles,   \* the calls
    Requests,   \* requests: key, plan, denied kinds of source, direct
                \* records, required, entities, budget, total limit
    Clock,      \* [Compiles -> [keys of requests -> the time the caller's clock gives]]
    Registered, \* the kinds of source that have an enabled provider
    MaxEdits,   \* bound on changes of records by others
    MaxFaults   \* bound on failures of sources, files and events

\* the sources of the default registry
ASSUME RegistryAssumption == Registered \subseteq {"exact", "lexical"}

ASSUME ContextAssumption ==
    \A r \in Requests:
        /\ r.denied \subseteq Registered
        /\ r.direct \subseteq Ids /\ r.budget \in Nat
        \* the input is either records or sources
        /\ r.plan # <<>> => r.direct = {}
        /\ \A k \in 1..Len(r.plan): r.plan[k].kind \in {"exact", "lexical", "vector"}
        \* required ids need a required exact source
        /\ r.plan # <<>> /\ r.required # {} =>
               \E k \in 1..Len(r.plan): r.plan[k].kind = "exact" /\ r.plan[k].required

VARIABLES
    store,      \* what is current of each record
    call,       \* each compilation: where it is and what it has gathered
    manifests,  \* the manifest files: id -> fingerprint of the content
    announced,  \* the events context.manifest.persisted
    overlapped, \* history: ids two appends looked for before either was written
    edits, faults

vars == <<store, call, manifests, announced, overlapped, edits, faults>>
files == <<manifests, announced, overlapped>>

Nothing == [i \in {} |-> None]

\* the map f with v under the key x
With(f, x, v) == [z \in DOMAIN f \cup {x} |-> IF z = x THEN v ELSE f[z]]

\* a compilation: its position in the plan, the answer of the source asked, the
\* candidateMap, the reports so far, the durable manifest, the caller's signal
NewCall(pc, why) == [pc |-> pc, why |-> why, req |-> None, at |-> 1, got |-> None, cand |-> Nothing,
                     reports |-> <<>>, man |-> None, aborted |-> FALSE]

Init ==
    /\ store = [i \in Ids |-> [version |-> 1, status |-> "active"]]
    /\ call = [c \in Compiles |-> NewCall("idle", None)]
    /\ manifests = Nothing
    /\ announced = {}
    /\ overlapped = {}
    /\ edits = 0 /\ faults = 0

Plan(c) == call[c].req.plan
Entry(c) == Plan(c)[call[c].at]

Goto(c, pc) == call' = [call EXCEPT ![c].pc = pc]
Fail(c, code) == call' = [call EXCEPT ![c] = NewCall("failed", code)]

\* something outside the compiler goes wrong
Fault == faults < MaxFaults /\ faults' = faults + 1

-----------------------------------------------------------------------------
(* Others: they write records, and callers give up.                        *)

Edit(i) ==
    /\ edits < MaxEdits
    /\ edits' = edits + 1
    /\ \/ store' = [store EXCEPT ![i].version = @ + 1]
       \/ store[i].status = "active" /\ store' = [store EXCEPT ![i].status = "retracted"]
    /\ UNCHANGED <<call, files, faults>>

Abort(c) ==
    /\ call[c].pc \in {"plan", "query"} /\ ~call[c].aborted
    /\ Fault
    /\ call' = [call EXCEPT ![c].aborted = TRUE]
    /\ UNCHANGED <<store, files, edits>>

-----------------------------------------------------------------------------
(* The sources.                                                            *)

\* records handed in by the caller are candidates of their own kind
Begin(c) ==
    /\ call[c].pc = "idle"
    /\ \E r \in Requests:
        call' = [call EXCEPT ![c].pc = "plan", ![c].req = r,
                             ![c].cand = [i \in r.direct |->
                                [version |-> store[i].version, status |-> store[i].status,
                                 hits |-> [k \in {"direct"} |-> 1]]]]
    /\ UNCHANGED <<store, files, edits, faults>>

\* a source is done with: a required one must have succeeded
Report(c, status, code, cand) ==
    IF Entry(c).required /\ status # "succeeded" THEN Fail(c, code)
    ELSE call' = [call EXCEPT ![c].pc = "plan", ![c].got = None, ![c].at = @ + 1, ![c].cand = cand,
                              ![c].reports = Append(@, status)]

\* the loop begins a plan entry with throwIfAborted; then the source is
\* resolved and its use is authorized before it is called
Ask(c) ==
    /\ call[c].pc = "plan" /\ call[c].at <= Len(Plan(c))
    /\ \/ call[c].aborted /\ Fail(c, "candidate_source_cancelled")
       \/ /\ ~call[c].aborted /\ Entry(c).kind \notin Registered
          /\ Report(c, "unavailable", "candidate_source_required_unavailable", call[c].cand)
       \/ /\ ~call[c].aborted /\ Entry(c).kind \in call[c].req.denied
          /\ Report(c, "denied", "candidate_source_required_denied", call[c].cand)
       \/ /\ ~call[c].aborted /\ Entry(c).kind \in Registered \ call[c].req.denied
          /\ Goto(c, "query")
    /\ UNCHANGED <<store, files, edits, faults>>

\* a reader shows current records of the workspace
Visible(i) == store[i].status = "active" /\ Rec[i].access # "foreign"

\* best match first
ByScore ==
    [i \in Ids |-> {j \in Ids:
        \/ Rec[j].lexical > Rec[i].lexical
        \/ Rec[j].lexical = Rec[i].lexical /\ Rec[j].order < Rec[i].order}]

\* the exact source returns the required ids in their order, the lexical one
\* what matches, best first, up to the limit of its entry
Rows(c) ==
    LET exact == Entry(c).kind = "exact"
        found == {i \in Ids: Visible(i) /\ IF exact THEN i \in call[c].req.required ELSE Rec[i].lexical > 0}
        rank == [i \in found |-> Rank(i, found, IF exact THEN ById ELSE ByScore)]
    IN  [i \in {j \in found: exact \/ rank[j] <= Entry(c).limit} |->
            [version |-> store[i].version, status |-> store[i].status, rank |-> rank[i]]]

\* the source reads the records and returns its rows, all well formed or not
Answer(c) ==
    /\ call[c].pc = "query" /\ call[c].got = None
    /\ \E bad \in BOOLEAN, rows \in {Rows(c)}:
        /\ IF bad THEN Fault ELSE UNCHANGED faults
        /\ call' = [call EXCEPT ![c].got = [bad |-> bad, rows |-> rows]]
    /\ UNCHANGED <<store, files, edits>>

\* the source never answers
Hang(c) ==
    /\ call[c].pc = "query" /\ call[c].got = None
    /\ Fault
    /\ call' = [call EXCEPT ![c].got = Hung]
    /\ UNCHANGED <<store, files, edits>>

QueryFails(c) ==
    /\ call[c].pc = "query" /\ call[c].got = None
    /\ Fault
    /\ Report(c, "failed", "candidate_source_required_failed", call[c].cand)
    /\ UNCHANGED <<store, files, edits>>

\* mutant: no deadline, the wait ends with the answer only
Deadline_None(c) ==
    /\ call[c].pc = "query" /\ call[c].got = Hung /\ call[c].aborted
    /\ Report(c, "timed_out", "candidate_source_required_failed", call[c].cand)
    /\ UNCHANGED <<store, files, edits, faults>>

\* the deadline of withTimeout: an answer that comes later is nobody's
Deadline(c) ==
    /\ call[c].pc = "query"
    /\ call[c].got = Hung
    /\ Report(c, "timed_out", "candidate_source_required_failed", call[c].cand)
    /\ UNCHANGED <<store, files, edits, faults>>

\* the source sees the caller's signal and throws an AbortError
QueryCancelled(c) ==
    /\ call[c].pc = "query" /\ call[c].got = None /\ call[c].aborted
    /\ Report(c, "cancelled", "candidate_source_cancelled", call[c].cand)
    /\ UNCHANGED <<store, files, edits, faults>>

\* mutant: well formed items of a malformed batch are kept
Staged_Partial(got) == {i \in DOMAIN got.rows: Rec[i].access = "ok"}

\* what is merged of an answer: records the access check allows, and nothing
\* of a batch with a malformed item
Staged(got) == IF got.bad THEN {} ELSE {i \in DOMAIN got.rows: Rec[i].access = "ok"}

\* upsertCandidate for every staged record
Upserted(cand, new, got, kind) ==
    [i \in DOMAIN cand \cup new |->
        IF i \notin new THEN cand[i]
        ELSE IF i \in DOMAIN cand THEN [cand[i] EXCEPT !.hits = With(@, kind, got.rows[i].rank)]
        ELSE [version |-> got.rows[i].version, status |-> got.rows[i].status,
              hits |-> With(Nothing, kind, got.rows[i].rank)]]

\* mergeSourceOutput; a record two sources read in different versions ends
\* the compilation
Merge(c) ==
    /\ call[c].pc = "query" /\ call[c].got \notin {None, Hung}
    /\ LET got == call[c].got
           cand == call[c].cand
           new == Staged(got)
           conflict == \E i \in new \cap DOMAIN cand: cand[i].version # got.rows[i].version
       IN  \/ conflict /\ Fail(c, "candidate_identity_conflict")
           \/ /\ ~conflict
              /\ Report(c, IF got.bad THEN "invalid_output" ELSE "succeeded",
                        "candidate_source_required_failed", Upserted(cand, new, got, Entry(c).kind))
    /\ UNCHANGED <<store, files, edits, faults>>

-----------------------------------------------------------------------------
(* Selection and the durable manifest.                                     *)

\* the preselection cap: best local rank, then best local score, tokens and id
Capped(c) ==
    LET cand == call[c].cand
        rank(i) == Min(Range(cand[i].hits))
        score(i) == IF DOMAIN cand[i].hits \subseteq {"lexical"} THEN Rec[i].lexical ELSE 100
        before(i, j) ==
            \/ rank(i) < rank(j)
            \/ rank(i) = rank(j) /\ score(i) > score(j)
            \/ rank(i) = rank(j) /\ score(i) = score(j) /\ Rec[i].tokens < Rec[j].tokens
            \/ /\ rank(i) = rank(j) /\ score(i) = score(j) /\ Rec[i].tokens = Rec[j].tokens
               /\ Rec[i].order < Rec[j].order
    IN  IF Plan(c) = <<>> THEN cand
        ELSE Restrict(cand, {i \in DOMAIN cand:
                 Cardinality({j \in DOMAIN cand: before(j, i)}) < call[c].req.total})

\* durableManifestId: the request and the ids in assembly order, not their content
ManifestId(c, sel) == <<call[c].req.key, sel>>

\* what the fingerprint covers: the records as read, the reports and the time
Fingerprint(c, cands, s) == <<Clock[c][call[c].req.key], s.sel, s.out, cands, call[c].reports>>

\* material verifyContextManifest refuses in the text of a selected record
Unsafe(cands, sel) == \E i \in Range(sel): cands[i].version \in Rec[i].unsafe

\* the error a compilation ends with, or None
CompileError(c, cands, s) ==
    IF Plan(c) # <<>> /\ DOMAIN cands = {} /\ "succeeded" \notin Range(call[c].reports)
    THEN "candidate_generation_unavailable"
    ELSE IF s.error # None THEN s.error
    ELSE IF Unsafe(cands, s.sel) THEN "unsafe_manifest_material" ELSE None

\* selection, assembly, the durable manifest and its verification run to completion
Compile(c) ==
    /\ call[c].pc = "plan" /\ call[c].at = Len(Plan(c)) + 1
    /\ \E cands \in {Capped(c)}: \E s \in {Select(cands, call[c].req)}:
           LET error == CompileError(c, cands, s) IN
           \/ error # None /\ Fail(c, error)
           \/ /\ error = None
              /\ \E sel \in {Assemble(s.sel)}:
                   call' = [call EXCEPT ![c].pc = "append",
                     ![c].man = [id |-> ManifestId(c, sel), fp |-> Fingerprint(c, cands, s),
                                 cands |-> cands, sel |-> sel, out |-> s.out,
                                 used |-> MapThenSumSet(Represented, Range(sel))]]
    /\ UNCHANGED <<store, files, edits, faults>>

\* mutant: the file is written without looking for it
AppendCheck_Blind(c) ==
    /\ call[c].pc = "append"
    /\ Goto(c, "write")
    /\ UNCHANGED <<store, files, edits, faults>>

\* append looks for the file first: the same manifest is returned as it is,
\* another one under the id is a conflict
AppendCheck(c) ==
    /\ call[c].pc = "append"
    /\ LET id == call[c].man.id
           fp == call[c].man.fp
       IN  \/ /\ id \in DOMAIN manifests /\ manifests[id] # fp
              /\ Fail(c, "manifest_identity_conflict") /\ UNCHANGED overlapped
           \/ /\ id \in DOMAIN manifests /\ manifests[id] = fp
              /\ Goto(c, "get") /\ UNCHANGED overlapped
           \/ /\ id \notin DOMAIN manifests
              /\ Goto(c, "write")
              /\ overlapped' = IF \E d \in Compiles \ {c}: call[d].pc = "write" /\ call[d].man.id = id
                               THEN overlapped \cup {id} ELSE overlapped
    /\ UNCHANGED <<store, manifests, announced, edits, faults>>

\* the rename replaces whatever has the name by now
AppendWrite(c) ==
    /\ call[c].pc = "write"
    /\ \/ /\ manifests' = With(manifests, call[c].man.id, call[c].man.fp)
          /\ Goto(c, "get")
          /\ UNCHANGED faults
       \/ Fault /\ Fail(c, "write_failed") /\ UNCHANGED manifests
    /\ UNCHANGED <<store, announced, overlapped, edits>>

\* get: the stored copy must be the manifest just compiled
ReadBack(c) ==
    /\ call[c].pc = "get"
    /\ \/ manifests[call[c].man.id] = call[c].man.fp /\ Goto(c, "emit")
       \/ manifests[call[c].man.id] # call[c].man.fp /\ Fail(c, "manifest_verification_failed")
    /\ UNCHANGED <<store, files, edits, faults>>

Announce(c) ==
    /\ call[c].pc = "emit"
    /\ \/ /\ announced' = announced \cup {[id |-> call[c].man.id, fp |-> call[c].man.fp]}
          /\ call' = [call EXCEPT ![c] = NewCall("done", None)]
          /\ UNCHANGED faults
       \/ Fault /\ Fail(c, "event_failed") /\ UNCHANGED announced
    /\ UNCHANGED <<store, manifests, overlapped, edits>>

-----------------------------------------------------------------------------

\* a source is asked: its answer, its failure, the signal or the timer end the wait
Query(c) == QueryFails(c) \/ QueryCancelled(c) \/ Deadline(c) \/ Merge(c) \/ Answer(c)

Next == \/ \E i \in Ids: Edit(i)
        \/ \E c \in Compiles:
            \/ Begin(c) \/ Abort(c) \/ Ask(c) \/ Hang(c) \/ Query(c)
            \/ Compile(c) \/ AppendCheck(c) \/ AppendWrite(c) \/ ReadBack(c) \/ Announce(c)

Spec == Init /\ [][Next]_vars /\ \A c \in Compiles: WF_vars(Query(c))

-----------------------------------------------------------------------------
(* Properties.                                                             *)

\* Whatever a source does, a candidate comes from sources that succeeded, and
\* the access check let it through: a batch with a bad item, a late answer or
\* a source that failed leaves nothing behind (mergeSourceOutput stages the
\* rows of a source before they reach candidateMap).
OnlyFromSuccess ==
    \A c \in Compiles: call[c].cand # Nothing /\ Plan(c) # <<>> =>
        \A i \in DOMAIN call[c].cand:
            /\ Rec[i].access = "ok"
            /\ DOMAIN call[c].cand[i].hits \subseteq
                   {Plan(c)[k].kind: k \in {n \in 1..Len(call[c].reports): call[c].reports[n] = "succeeded"}}

\* A manifest accounts for every candidate: it is selected or excluded, once;
\* the required records and the eligible policies are selected, whatever the
\* caps and the stop at sufficiency do, and the tokens of the selected records
\* stay within the budget.
SelectionSound ==
    \A c \in Compiles: call[c].man # None =>
        LET m == call[c].man
            sel == Range(m.sel)
        IN  /\ Len(m.sel) = Cardinality(sel) /\ sel \cap m.out = {}
            /\ sel \cup m.out = DOMAIN m.cands
            /\ call[c].req.required \subseteq sel
            /\ \A i \in m.out: Governance(i) => ~Eligible(m.cands, i)
            /\ Tokens(sel) <= call[c].req.budget

\* What was announced as persisted stays what is stored: another manifest with
\* the same id never replaces it, unless two appends looked for the file
\* before either had written it (append checks and renames without a lock).
AnnouncedIsStored ==
    \A a \in announced: a.id \in overlapped \/ manifests[a.id] = a.fp

\* No source holds a compilation: every query comes to an end, also when the
\* source never answers and never looks at its signal (withTimeout).
QueriesEnd == \A c \in Compiles: call[c].pc = "query" ~> call[c].pc # "query"

=============================================================================
