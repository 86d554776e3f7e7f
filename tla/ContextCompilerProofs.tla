------------------------ MODULE ContextCompilerProofs ------------------------
(***************************************************************************)
(* Proofs about ContextCompiler: for every set of records, requests and    *)
(* compilations, candidates come from sources that succeeded, a manifest   *)
(* accounts for every candidate within its budget, and what was announced  *)
(* as persisted is what is stored.                                         *)
(***************************************************************************)
EXTENDS ContextCompiler, FiniteSetTheorems, FunctionTheorems, SequenceTheorems, TLAPS

-----------------------------------------------------------------------------
(* The invariant. *)

\* A compilation is a record with these fields.
IsCall(k) ==
    k \in [pc : {k.pc}, why : {k.why}, req : {k.req}, at : {k.at}, got : {k.got},
           cand : {k.cand}, reports : {k.reports}, man : {k.man}, aborted : {k.aborted}]

IsCandidate(x) == x \in [version : {x.version}, status : {x.status}, hits : {x.hits}]

Statuses == {"succeeded", "unavailable", "denied", "failed", "timed_out", "cancelled",
             "invalid_output"}

\* The loop over the plan has one report for every entry it is done with.
Reported(k) ==
    k.pc \in {"idle", "plan", "query"} =>
       k.at \in Nat /\ k.reports \in Seq(Statuses) /\ k.at = Len(k.reports) + 1

\* The kinds of the sources that succeeded.
Succeeded(k) ==
    {k.req.plan[n].kind : n \in {m \in 1 .. Len(k.reports) : k.reports[m] = "succeeded"}}

Gathered(k) ==
    k.cand # Nothing /\ k.req.plan # <<>> =>
       \A i \in DOMAIN k.cand :
          /\ IsCandidate(k.cand[i])
          /\ Rec[i].access = "ok"
          /\ DOMAIN k.cand[i].hits \subseteq Succeeded(k)

CallInv(k) == IsCall(k) /\ Reported(k) /\ Gathered(k)

\* A manifest that another append may replace is known to be overlapped.
WriteInv ==
    \A c \in Compiles : call[c].pc = "write" =>
       /\ call[c].man.id \in DOMAIN manifests => call[c].man.id \in overlapped
       /\ \A d \in Compiles : d # c /\ call[d].pc = "write" /\ call[d].man.id = call[c].man.id =>
             call[c].man.id \in overlapped

StoredInv ==
    \A c \in Compiles :
       /\ call[c].pc \in {"get", "emit"} => call[c].man.id \in DOMAIN manifests
       /\ call[c].pc = "emit" =>
             call[c].man.id \in overlapped \/ manifests[call[c].man.id] = call[c].man.fp

AnnouncedInv ==
    \A a \in announced :
       a.id \in DOMAIN manifests /\ (a.id \in overlapped \/ manifests[a.id] = a.fp)

IInv ==
    /\ call = [c \in Compiles |-> call[c]]
    /\ \A c \in Compiles : CallInv(call[c])
    /\ WriteInv /\ StoredInv /\ AnnouncedInv

-----------------------------------------------------------------------------
(* One compilation. *)

LEMMA WithKey ==
    ASSUME NEW f, NEW x, NEW v
    PROVE  /\ DOMAIN With(f, x, v) = DOMAIN f \cup {x}
           /\ With(f, x, v)[x] = v
           /\ \A z \in DOMAIN f : z # x => With(f, x, v)[z] = f[z]
BY DEF With

LEMMA NewCallInv ==
    ASSUME NEW pc, NEW why
    PROVE  CallInv(NewCall(pc, why)) /\ NewCall(pc, why).pc = pc
<1>. DEFINE k == NewCall(pc, why)
<1>1. IsCall(k) /\ k.pc = pc /\ k.cand = Nothing /\ k.at = 1 /\ k.reports = <<>>
  BY DEF NewCall, IsCall
<1>. HIDE DEF k
<1>2. CallInv(k)  BY <1>1 DEF CallInv, Reported, Gathered
<1>. QED  BY <1>1, <1>2 DEF k

\* A compilation that goes on with what it has gathered.
LEMMA CallKept ==
    ASSUME NEW k, CallInv(k), NEW l, IsCall(l), l.req = k.req, l.cand = k.cand,
           l.reports = k.reports, l.at = k.at,
           l.pc \in {"idle", "plan", "query"} => k.pc \in {"idle", "plan", "query"}
    PROVE  CallInv(l)
<1>1. Succeeded(l) = Succeeded(k)  BY DEF Succeeded
<1>. QED  BY <1>1 DEF CallInv, Reported, Gathered

\* What two reports and one more report agree on.
LEMMA OneMore ==
    ASSUME NEW k, NEW l, l.req = k.req, k.reports \in Seq(Statuses), NEW s \in Statuses,
           l.reports = Append(k.reports, s)
    PROVE  /\ l.reports \in Seq(Statuses) /\ Len(l.reports) = Len(k.reports) + 1
           /\ Succeeded(k) \subseteq Succeeded(l)
           /\ s = "succeeded" => k.req.plan[Len(k.reports) + 1].kind \in Succeeded(l)
<1>1. /\ l.reports \in Seq(Statuses) /\ Len(l.reports) = Len(k.reports) + 1
      /\ Len(k.reports) \in Nat /\ l.reports[Len(k.reports) + 1] = s
      /\ \A m \in 1 .. Len(k.reports) : l.reports[m] = k.reports[m]
  OBVIOUS
<1>2. Succeeded(k) \subseteq Succeeded(l)  BY <1>1 DEF Succeeded
<1>3. ASSUME s = "succeeded"
      PROVE  k.req.plan[Len(k.reports) + 1].kind \in Succeeded(l)
  <2>1. Len(k.reports) + 1 \in {m \in 1 .. Len(l.reports) : l.reports[m] = "succeeded"}
    BY <1>1, <1>3
  <2>. QED  BY <2>1 DEF Succeeded
<1>. QED  BY <1>1, <1>2, <1>3

-----------------------------------------------------------------------------
(* The steps of a compilation up to its manifest. *)

LEMMA OneMoves ==
    ASSUME IInv, NEW c \in Compiles, NEW l, call' = [call EXCEPT ![c] = l]
    PROVE  /\ call'[c] = l /\ \A d \in Compiles : d # c => call'[d] = call[d]
           /\ call' = [d \in Compiles |-> call'[d]]
BY DEF IInv

\* A step that leaves the files alone and does not bring c to one of its own.
LEMMA QuietStep ==
    ASSUME IInv, UNCHANGED files, NEW c \in Compiles, NEW l,
           call' = [call EXCEPT ![c] = l], CallInv(l), l.pc \notin {"write", "get", "emit"}
    PROVE  IInv'
<1>1. /\ call'[c] = l /\ \A d \in Compiles : d # c => call'[d] = call[d]
      /\ call' = [d \in Compiles |-> call'[d]]
  BY OneMoves
<1>2. UNCHANGED <<manifests, announced, overlapped>>  BY DEF files
<1>3. \A d \in Compiles : CallInv(call'[d])  BY <1>1 DEF IInv
<1>4. WriteInv'  BY <1>1, <1>2 DEF IInv, WriteInv
<1>5. StoredInv'  BY <1>1, <1>2 DEF IInv, StoredInv
<1>6. AnnouncedInv'  BY <1>2 DEF IInv, AnnouncedInv
<1>. QED  BY <1>1, <1>3, <1>4, <1>5, <1>6 DEF IInv

LEMMA FailStep ==
    ASSUME IInv, UNCHANGED files, NEW c \in Compiles, NEW code, Fail(c, code)
    PROVE  IInv'
BY NewCallInv, QuietStep DEF Fail

\* A source is done with: cand is what there was, or what a source that
\* succeeded has added to it.
LEMMA ReportStep ==
    ASSUME IInv, UNCHANGED files, NEW c \in Compiles, call[c].pc \in {"plan", "query"},
           NEW status \in Statuses, NEW code, NEW cand, Report(c, status, code, cand),
           call[c].req.plan # <<>> =>
              \/ cand = call[c].cand
              \/ \A i \in DOMAIN cand :
                    /\ IsCandidate(cand[i])
                    /\ Rec[i].access = "ok"
                    /\ DOMAIN cand[i].hits \subseteq
                          Succeeded(call[c]) \cup
                             IF status = "succeeded" THEN {Entry(c).kind} ELSE {}
    PROVE  IInv'
<1>1. CASE Fail(c, code)  BY <1>1, FailStep
<1>2. CASE call' = [call EXCEPT ![c].pc = "plan", ![c].got = None, ![c].at = @ + 1,
                      ![c].cand = cand, ![c].reports = Append(@, status)]
  <2>0. PICK k : k = call[c]  OBVIOUS
  <2>l. PICK l : l = [k EXCEPT !.pc = "plan", !.got = None, !.at = k.at + 1, !.cand = cand,
                              !.reports = Append(k.reports, status)]
    OBVIOUS
  <2>1. CallInv(k) /\ IsCall(k)  BY <2>0 DEF IInv, CallInv
  <2>2. /\ IsCall(l) /\ l.pc = "plan" /\ l.req = k.req /\ l.cand = cand
        /\ l.reports = Append(k.reports, status) /\ l.at = k.at + 1
    <3>1. l \in [pc : {"plan"}, why : {k.why}, req : {k.req}, at : {k.at + 1}, got : {None},
                 cand : {cand}, reports : {Append(k.reports, status)}, man : {k.man},
                 aborted : {k.aborted}]
      BY <2>1, <2>l DEF IsCall
    <3>. QED  BY <3>1 DEF IsCall
  <2>3. call' = [call EXCEPT ![c] = l]  BY <1>2, <2>0, <2>l DEF IInv
  <2>4. k.at \in Nat /\ k.reports \in Seq(Statuses) /\ k.at = Len(k.reports) + 1
    BY <2>0, <2>1 DEF CallInv, Reported
  <2>5. /\ l.reports \in Seq(Statuses) /\ Len(l.reports) = Len(k.reports) + 1
        /\ Succeeded(k) \subseteq Succeeded(l)
        /\ status = "succeeded" => k.req.plan[Len(k.reports) + 1].kind \in Succeeded(l)
    BY <2>2, <2>4, OneMore, Zenon
  <2>6. Reported(l)  BY <2>2, <2>4, <2>5 DEF Reported
  <2>7. Gathered(l)
    <3>. SUFFICES ASSUME l.req.plan # <<>>, l.cand # Nothing
                  PROVE  \A i \in DOMAIN cand : /\ IsCandidate(cand[i])
                                                /\ Rec[i].access = "ok"
                                                /\ DOMAIN cand[i].hits \subseteq Succeeded(l)
      BY <2>2 DEF Gathered
    <3>1. CASE cand = k.cand  BY <2>1, <2>2, <2>5, <3>1 DEF CallInv, Gathered
    <3>2. CASE \A i \in DOMAIN cand :
                 /\ IsCandidate(cand[i])
                 /\ Rec[i].access = "ok"
                 /\ DOMAIN cand[i].hits \subseteq
                       Succeeded(k) \cup IF status = "succeeded" THEN {Entry(c).kind} ELSE {}
      <4>1. Entry(c).kind = k.req.plan[k.at].kind  BY <2>0 DEF Entry, Plan
      <4>. QED  BY <2>4, <2>5, <3>2, <4>1
    <3>. QED  BY <2>0, <2>2, <3>1, <3>2
  <2>8. CallInv(l)  BY <2>2, <2>6, <2>7 DEF CallInv
  <2>. QED  BY <2>2, <2>3, <2>8, QuietStep
<1>. QED  BY <1>1, <1>2 DEF Report

LEMMA OthersInv ==
    ASSUME IInv, \E i \in Ids : Edit(i)
    PROVE  IInv'
BY DEF Edit, files, IInv, WriteInv, StoredInv, AnnouncedInv, CallInv, IsCall, Reported,
   Gathered, Succeeded

LEMMA BeginInv ==
    ASSUME IInv, NEW c \in Compiles, Begin(c)
    PROVE  IInv'
<1>1. PICK r \in Requests :
         call' = [call EXCEPT ![c].pc = "plan", ![c].req = r,
                              ![c].cand = [i \in r.direct |->
                                  [version |-> store[i].version, status |-> store[i].status,
                                   hits |-> [k \in {"direct"} |-> 1]]]]
  BY DEF Begin
<1>0. PICK f : f = [i \in r.direct |-> [version |-> store[i].version, status |-> store[i].status,
                                       hits |-> [k \in {"direct"} |-> 1]]]
  OBVIOUS
<1>2. PICK k : k = call[c]  OBVIOUS
<1>3. PICK l : l = [k EXCEPT !.pc = "plan", !.req = r, !.cand = f]  OBVIOUS
<1>4. CallInv(k) /\ IsCall(k) /\ k.pc = "idle"  BY <1>2 DEF IInv, CallInv, Begin
<1>5. /\ IsCall(l) /\ l.pc = "plan" /\ l.req = r /\ l.cand = f
      /\ l.reports = k.reports /\ l.at = k.at
  <2>1. l \in [pc : {"plan"}, why : {k.why}, req : {r}, at : {k.at}, got : {k.got},
               cand : {f}, reports : {k.reports}, man : {k.man}, aborted : {k.aborted}]
    BY <1>3, <1>4 DEF IsCall
  <2>. QED  BY <2>1 DEF IsCall
<1>6. call' = [call EXCEPT ![c] = l]  BY <1>0, <1>1, <1>2, <1>3 DEF IInv
\* a request for sources hands in no records
<1>7. Gathered(l)
  <2>1. r.plan # <<>> => DOMAIN f = {}  BY <1>0, ContextAssumption
  <2>. QED  BY <1>5, <2>1 DEF Gathered
<1>8. CallInv(l)  BY <1>4, <1>5, <1>7 DEF CallInv, Reported
<1>9. UNCHANGED files  BY DEF Begin
<1>. QED  BY <1>5, <1>6, <1>8, <1>9, QuietStep

\* The signal and the answer of a source are noted.
LEMMA NotedStep ==
    ASSUME IInv, UNCHANGED files, NEW c \in Compiles, call[c].pc \in {"plan", "query"}, NEW x,
           \/ call' = [call EXCEPT ![c].aborted = x]
           \/ call' = [call EXCEPT ![c].got = x]
           \/ call' = [call EXCEPT ![c].pc = "query"]
    PROVE  IInv'
<1>1. PICK k : k = call[c]  OBVIOUS
<1>2. PICK l : /\ call' = [call EXCEPT ![c] = l]
               /\ \/ l = [k EXCEPT !.aborted = x]
                  \/ l = [k EXCEPT !.got = x]
                  \/ l = [k EXCEPT !.pc = "query"]
  BY <1>1 DEF IInv
<1>3. CallInv(k) /\ IsCall(k) /\ k.pc \in {"plan", "query"}  BY <1>1 DEF IInv, CallInv
<1>4. PICK p, g, a : l \in [pc : {p}, why : {k.why}, req : {k.req}, at : {k.at}, got : {g},
                            cand : {k.cand}, reports : {k.reports}, man : {k.man},
                            aborted : {a}] /\ p \in {"plan", "query"}
  <2>1. CASE l = [k EXCEPT !.aborted = x]  BY <1>3, <2>1 DEF IsCall
  <2>2. CASE l = [k EXCEPT !.got = x]  BY <1>3, <2>2 DEF IsCall
  <2>3. CASE l = [k EXCEPT !.pc = "query"]  BY <1>3, <2>3 DEF IsCall
  <2>. QED  BY <1>2, <2>1, <2>2, <2>3
<1>5. /\ IsCall(l) /\ l.req = k.req /\ l.cand = k.cand /\ l.reports = k.reports
      /\ l.at = k.at /\ l.pc \in {"plan", "query"}
  BY <1>4 DEF IsCall
<1>6. CallInv(l)  BY <1>3, <1>5, CallKept
<1>. QED  BY <1>2, <1>5, <1>6, QuietStep

LEMMA SourceInv ==
    ASSUME IInv, NEW c \in Compiles,
           \/ Abort(c) \/ Ask(c) \/ Hang(c) \/ Answer(c) \/ QueryFails(c)
           \/ QueryCancelled(c) \/ Deadline(c)
    PROVE  IInv'
<1>0. {"unavailable", "denied", "failed", "cancelled", "timed_out"} \subseteq Statuses
  BY DEF Statuses
<1>1. CASE Abort(c)  BY <1>1, NotedStep DEF Abort
<1>2. CASE Ask(c)
  <2>1. UNCHANGED files /\ call[c].pc = "plan"  BY <1>2 DEF Ask
  <2>2. CASE Fail(c, "candidate_source_cancelled")  BY <2>1, <2>2, FailStep
  <2>3. CASE Report(c, "unavailable", "candidate_source_required_unavailable", call[c].cand)
    BY <1>0, <2>1, <2>3, ReportStep
  <2>4. CASE Report(c, "denied", "candidate_source_required_denied", call[c].cand)
    BY <1>0, <2>1, <2>4, ReportStep
  <2>5. CASE Goto(c, "query")  BY <2>1, <2>5, NotedStep DEF Goto
  <2>. QED  BY <1>2, <2>2, <2>3, <2>4, <2>5 DEF Ask
<1>3. CASE Hang(c)  BY <1>3, NotedStep DEF Hang
<1>4. CASE Answer(c)
  <2>1. UNCHANGED files /\ call[c].pc = "query"  BY <1>4 DEF Answer
  <2>2. \E x : call' = [call EXCEPT ![c].got = x]  BY <1>4 DEF Answer
  <2>. QED  BY <2>1, <2>2, NotedStep
<1>5. CASE QueryFails(c)  BY <1>0, <1>5, ReportStep DEF QueryFails
<1>6. CASE QueryCancelled(c)  BY <1>0, <1>6, ReportStep DEF QueryCancelled
<1>7. CASE Deadline(c)  BY <1>0, <1>7, ReportStep DEF Deadline
<1>. QED  BY <1>1, <1>2, <1>3, <1>4, <1>5, <1>6, <1>7

\* mergeSourceOutput: nothing of a batch with a bad item, and of a good one what
\* the access check let through.
LEMMA MergeInv ==
    ASSUME IInv, NEW c \in Compiles, Merge(c)
    PROVE  IInv'
<1>1. UNCHANGED files /\ call[c].pc = "query"  BY DEF Merge
<1>2. PICK got, cand, new, kind : /\ got = call[c].got /\ cand = call[c].cand
                                  /\ new = Staged(got) /\ kind = Entry(c).kind
  OBVIOUS
<1>3. PICK up : up = Upserted(cand, new, got, kind)  OBVIOUS
<1>4. CASE Fail(c, "candidate_identity_conflict")  BY <1>1, <1>4, FailStep
<1>5. CASE Report(c, IF got.bad THEN "invalid_output" ELSE "succeeded",
                  "candidate_source_required_failed", up)
  <2>1. CallInv(call[c]) /\ cand = call[c].cand  BY <1>2 DEF IInv
  <2>2. CASE got.bad
    <3>1. new = {}  BY <1>2, <2>2 DEF Staged
    <3>2. DOMAIN up = DOMAIN cand /\ \A i \in DOMAIN cand : up[i] = cand[i]
      BY <1>3, <3>1 DEF Upserted
    <3>3. call[c].req.plan # <<>> =>
             \A i \in DOMAIN up :
                /\ IsCandidate(up[i]) /\ Rec[i].access = "ok"
                /\ DOMAIN up[i].hits \subseteq Succeeded(call[c])
      <4>1. DOMAIN Nothing = {}  BY DEF Nothing
      <4>. QED  BY <2>1, <3>2, <4>1 DEF CallInv, Gathered
    <3>4. "invalid_output" \in Statuses  BY DEF Statuses
    <3>5. Report(c, "invalid_output", "candidate_source_required_failed", up)
      BY <1>5, <2>2
    <3>. QED  BY <1>1, <3>3, <3>4, <3>5, ReportStep
  <2>3. CASE ~got.bad
    <3>1. \A i \in new : Rec[i].access = "ok"  BY <1>2, <2>3 DEF Staged
    <3>2. ASSUME call[c].req.plan # <<>>, NEW i \in DOMAIN up
          PROVE  /\ IsCandidate(up[i]) /\ Rec[i].access = "ok"
                 /\ DOMAIN up[i].hits \subseteq Succeeded(call[c]) \cup {kind}
      <4>1. DOMAIN up = DOMAIN cand \cup new  BY <1>3 DEF Upserted
      <4>2. ASSUME i \in DOMAIN cand
            PROVE  /\ IsCandidate(cand[i]) /\ Rec[i].access = "ok"
                   /\ DOMAIN cand[i].hits \subseteq Succeeded(call[c])
        <5>1. cand # Nothing  BY <4>2 DEF Nothing
        <5>. QED  BY <2>1, <3>2, <4>2, <5>1 DEF CallInv, Gathered
      <4>3. CASE i \notin new
        <5>1. up[i] = cand[i] /\ i \in DOMAIN cand  BY <1>3, <4>1, <4>3 DEF Upserted
        <5>. QED  BY <4>2, <5>1
      <4>4. CASE i \in new /\ i \in DOMAIN cand
        <5>1. PICK h : h = With(cand[i].hits, kind, got.rows[i].rank)  OBVIOUS
        <5>2. up[i] = [cand[i] EXCEPT !.hits = h]  BY <1>3, <4>4, <5>1 DEF Upserted
        <5>3. up[i] \in [version : {cand[i].version}, status : {cand[i].status}, hits : {h}]
          BY <4>2, <4>4, <5>2 DEF IsCandidate
        <5>4. IsCandidate(up[i]) /\ up[i].hits = h  BY <5>3 DEF IsCandidate
        <5>5. DOMAIN h = DOMAIN cand[i].hits \cup {kind}  BY <5>1, WithKey
        <5>. QED  BY <3>1, <4>2, <4>4, <5>4, <5>5
      <4>5. CASE i \in new /\ i \notin DOMAIN cand
        <5>1. PICK h : h = With(Nothing, kind, got.rows[i].rank)  OBVIOUS
        <5>2. up[i] = [version |-> got.rows[i].version, status |-> got.rows[i].status,
                       hits |-> h]
          BY <1>3, <4>1, <4>5, <5>1 DEF Upserted
        <5>3. IsCandidate(up[i]) /\ up[i].hits = h  BY <5>2 DEF IsCandidate
        <5>4. DOMAIN h = {kind}
          <6>1. DOMAIN Nothing = {}  BY DEF Nothing
          <6>2. DOMAIN h = DOMAIN Nothing \cup {kind}  BY <5>1, WithKey
          <6>. QED  BY <6>1, <6>2
        <5>. QED  BY <3>1, <4>5, <5>3, <5>4
      <4>. QED  BY <4>1, <4>3, <4>4, <4>5
    <3>3. "succeeded" \in Statuses  BY DEF Statuses
    <3>4. Report(c, "succeeded", "candidate_source_required_failed", up)
      BY <1>5, <2>3
    <3>. QED  BY <1>1, <1>2, <3>2, <3>3, <3>4, ReportStep
  <2>. QED  BY <2>2, <2>3
<1>. QED  BY <1>2, <1>3, <1>4, <1>5 DEF Merge

-----------------------------------------------------------------------------
(* The manifest. *)

\* A compilation that goes on to another place, with its manifest.
LEMMA GoesOn ==
    ASSUME IInv, NEW c \in Compiles, NEW pc, pc \notin {"idle", "plan", "query"}, Goto(c, pc)
    PROVE  /\ call'[c].pc = pc /\ call'[c].man = call[c].man
           /\ \A d \in Compiles : d # c => call'[d] = call[d]
           /\ call' = [d \in Compiles |-> call'[d]]
           /\ \A d \in Compiles : CallInv(call'[d])
<1>1. PICK k : k = call[c]  OBVIOUS
<1>2. PICK l : l = [k EXCEPT !.pc = pc]  OBVIOUS
<1>3. CallInv(k) /\ IsCall(k)  BY <1>1 DEF IInv, CallInv
<1>4. call' = [call EXCEPT ![c] = l]  BY <1>1, <1>2 DEF IInv, Goto
<1>5. l \in [pc : {pc}, why : {k.why}, req : {k.req}, at : {k.at}, got : {k.got},
             cand : {k.cand}, reports : {k.reports}, man : {k.man}, aborted : {k.aborted}]
  BY <1>2, <1>3 DEF IsCall
<1>6. /\ IsCall(l) /\ l.req = k.req /\ l.cand = k.cand /\ l.reports = k.reports
      /\ l.at = k.at /\ l.pc = pc /\ l.man = k.man
  BY <1>5 DEF IsCall
<1>7. CallInv(l)  BY <1>3, <1>6, CallKept
<1>8. /\ call'[c] = l /\ \A d \in Compiles : d # c => call'[d] = call[d]
      /\ call' = [d \in Compiles |-> call'[d]]
  BY <1>4, OneMoves
<1>. QED  BY <1>1, <1>6, <1>7, <1>8 DEF IInv

LEMMA CompileInv ==
    ASSUME IInv, NEW c \in Compiles, Compile(c)
    PROVE  IInv'
<1>1. UNCHANGED files  BY DEF Compile
<1>2. ASSUME NEW code, Fail(c, code)  PROVE IInv'  BY <1>1, <1>2, FailStep
<1>3. ASSUME NEW m, call' = [call EXCEPT ![c].pc = "append", ![c].man = m]  PROVE IInv'
  <2>1. PICK k : k = call[c]  OBVIOUS
  <2>2. PICK l : l = [k EXCEPT !.pc = "append", !.man = m]  OBVIOUS
  <2>3. CallInv(k) /\ IsCall(k)  BY <2>1 DEF IInv, CallInv
  <2>4. call' = [call EXCEPT ![c] = l]  BY <1>3, <2>1, <2>2 DEF IInv
  <2>5. l \in [pc : {"append"}, why : {k.why}, req : {k.req}, at : {k.at}, got : {k.got},
               cand : {k.cand}, reports : {k.reports}, man : {m}, aborted : {k.aborted}]
    BY <2>2, <2>3 DEF IsCall
  <2>6. /\ IsCall(l) /\ l.req = k.req /\ l.cand = k.cand /\ l.reports = k.reports
        /\ l.at = k.at /\ l.pc = "append"
    BY <2>5 DEF IsCall
  <2>7. CallInv(l)  BY <2>3, <2>6, CallKept
  <2>. QED  BY <1>1, <2>4, <2>6, <2>7, QuietStep
<1>4. \/ \E code : Fail(c, code)
      \/ \E m : call' = [call EXCEPT ![c].pc = "append", ![c].man = m]
  BY DEF Compile
<1>. QED  BY <1>2, <1>3, <1>4

\* append looks for the file.
LEMMA CheckInv ==
    ASSUME IInv, NEW c \in Compiles, AppendCheck(c)
    PROVE  IInv'
<1>1. PICK id : id = call[c].man.id  OBVIOUS
<1>2. UNCHANGED <<manifests, announced>>  BY DEF AppendCheck
<1>3. CASE Fail(c, "manifest_identity_conflict") /\ UNCHANGED overlapped
  BY <1>2, <1>3, FailStep DEF files
<1>4. CASE id \in DOMAIN manifests /\ Goto(c, "get") /\ UNCHANGED overlapped
  <2>1. /\ call'[c].pc = "get" /\ call'[c].man = call[c].man
        /\ \A d \in Compiles : d # c => call'[d] = call[d]
        /\ call' = [d \in Compiles |-> call'[d]]
        /\ \A d \in Compiles : CallInv(call'[d])
    BY <1>4, GoesOn
  <2>2. WriteInv'  BY <1>2, <1>4, <2>1 DEF IInv, WriteInv
  <2>3. StoredInv'  BY <1>1, <1>2, <1>4, <2>1 DEF IInv, StoredInv
  <2>4. AnnouncedInv'  BY <1>2, <1>4 DEF IInv, AnnouncedInv
  <2>. QED  BY <2>1, <2>2, <2>3, <2>4 DEF IInv
<1>5. CASE /\ id \notin DOMAIN manifests
           /\ Goto(c, "write")
           /\ overlapped' = IF \E d \in Compiles \ {c}: call[d].pc = "write" /\ call[d].man.id = id
                            THEN overlapped \cup {id} ELSE overlapped
  <2>1. /\ call'[c].pc = "write" /\ call'[c].man = call[c].man
        /\ \A d \in Compiles : d # c => call'[d] = call[d]
        /\ call' = [d \in Compiles |-> call'[d]]
        /\ \A d \in Compiles : CallInv(call'[d])
    BY <1>5, GoesOn
  <2>2. /\ overlapped \subseteq overlapped'
        /\ \A d \in Compiles \ {c} : call[d].pc = "write" /\ call[d].man.id = id => id \in overlapped'
    BY <1>5
  <2>3. WriteInv'
    <3>. SUFFICES ASSUME NEW d \in Compiles, call'[d].pc = "write"
                  PROVE  /\ call'[d].man.id \in DOMAIN manifests => call'[d].man.id \in overlapped'
                         /\ \A e \in Compiles :
                               e # d /\ call'[e].pc = "write" /\ call'[e].man.id = call'[d].man.id =>
                                  call'[d].man.id \in overlapped'
      BY <1>2 DEF WriteInv
    <3>1. CASE d = c  BY <1>1, <1>5, <2>1, <2>2, <3>1
    <3>2. CASE d # c
      <4>1. call'[d] = call[d]  BY <2>1, <3>2
      <4>2. call[d].man.id \in DOMAIN manifests => call[d].man.id \in overlapped
        BY <4>1 DEF IInv, WriteInv
      <4>3. ASSUME NEW e \in Compiles, e # d, call'[e].pc = "write",
                   call'[e].man.id = call'[d].man.id
            PROVE  call'[d].man.id \in overlapped'
        <5>1. CASE e = c  BY <1>1, <2>1, <2>2, <3>2, <4>1, <4>3, <5>1
        <5>2. CASE e # c
          <6>1. call'[e] = call[e]  BY <2>1, <5>2
          <6>. QED  BY <2>2, <4>1, <4>3, <6>1 DEF IInv, WriteInv
        <5>. QED  BY <5>1, <5>2
      <4>. QED  BY <2>2, <4>1, <4>2, <4>3
    <3>. QED  BY <3>1, <3>2
  <2>4. StoredInv'  BY <1>2, <2>1, <2>2 DEF IInv, StoredInv
  <2>5. AnnouncedInv'  BY <1>2, <2>2 DEF IInv, AnnouncedInv
  <2>. QED  BY <2>1, <2>3, <2>4, <2>5 DEF IInv
<1>. QED  BY <1>1, <1>3, <1>4, <1>5 DEF AppendCheck

\* The rename: what it replaces was overlapped before.
LEMMA WriteStepInv ==
    ASSUME IInv, NEW c \in Compiles, AppendWrite(c)
    PROVE  IInv'
<1>1. UNCHANGED <<announced, overlapped>> /\ call[c].pc = "write"  BY DEF AppendWrite
<1>2. CASE Fail(c, "write_failed") /\ UNCHANGED manifests
  BY <1>1, <1>2, FailStep DEF files
<1>3. CASE manifests' = With(manifests, call[c].man.id, call[c].man.fp) /\ Goto(c, "get")
  <2>1. /\ call'[c].pc = "get" /\ call'[c].man = call[c].man
        /\ \A d \in Compiles : d # c => call'[d] = call[d]
        /\ call' = [d \in Compiles |-> call'[d]]
        /\ \A d \in Compiles : CallInv(call'[d])
    BY <1>3, GoesOn
  <2>2. PICK id : id = call[c].man.id  OBVIOUS
  <2>3. /\ DOMAIN manifests' = DOMAIN manifests \cup {id}
        /\ \A x \in DOMAIN manifests : x # id => manifests'[x] = manifests[x]
        /\ id \in DOMAIN manifests => id \in overlapped
    <3>1. manifests' = With(manifests, id, call[c].man.fp)  BY <1>3, <2>2
    <3>2. PICK new : new = With(manifests, id, call[c].man.fp)  OBVIOUS
    <3>3. /\ DOMAIN new = DOMAIN manifests \cup {id}
          /\ \A x \in DOMAIN manifests : x # id => new[x] = manifests[x]
      <4>1. DOMAIN new = DOMAIN manifests \cup {id}  BY <3>2, WithKey
      <4>2. ASSUME NEW x \in DOMAIN manifests, x # id  PROVE new[x] = manifests[x]
        BY <3>2, <4>2 DEF With
      <4>. QED  BY <4>1, <4>2
    <3>4. id \in DOMAIN manifests => id \in overlapped
      BY <1>1, <2>2 DEF IInv, WriteInv
    <3>. QED  BY <3>1, <3>2, <3>3, <3>4
  <2>4. WriteInv'
    <3>1. ASSUME NEW d \in Compiles, call'[d].pc = "write", call'[d].man.id = id
          PROVE  id \in overlapped
      BY <1>1, <2>1, <2>2, <3>1 DEF IInv, WriteInv
    <3>2. ASSUME NEW d \in Compiles, call'[d].pc = "write",
                 call'[d].man.id \in DOMAIN manifests'
          PROVE  call'[d].man.id \in overlapped
      BY <2>1, <2>3, <3>1, <3>2 DEF IInv, WriteInv
    <3>. QED  BY <1>1, <2>1, <3>2 DEF IInv, WriteInv
  <2>5. StoredInv'  BY <1>1, <2>1, <2>2, <2>3 DEF IInv, StoredInv
  <2>6. AnnouncedInv'  BY <1>1, <2>3 DEF IInv, AnnouncedInv
  <2>. QED  BY <2>1, <2>4, <2>5, <2>6 DEF IInv
<1>. QED  BY <1>2, <1>3 DEF AppendWrite

\* get, and the event.
LEMMA PublishInv ==
    ASSUME IInv, NEW c \in Compiles, ReadBack(c) \/ Announce(c)
    PROVE  IInv'
<1>1. UNCHANGED <<manifests, overlapped>> /\ call[c].pc \in {"get", "emit"}
  BY DEF ReadBack, Announce, files
<1>2. ASSUME NEW code, Fail(c, code), UNCHANGED announced  PROVE IInv'
  BY <1>1, <1>2, FailStep DEF files
<1>3. CASE /\ call[c].pc = "get" /\ manifests[call[c].man.id] = call[c].man.fp
           /\ Goto(c, "emit") /\ UNCHANGED announced
  <2>1. /\ call'[c].pc = "emit" /\ call'[c].man = call[c].man
        /\ \A d \in Compiles : d # c => call'[d] = call[d]
        /\ call' = [d \in Compiles |-> call'[d]]
        /\ \A d \in Compiles : CallInv(call'[d])
    BY <1>3, GoesOn
  <2>2. WriteInv'  BY <1>1, <2>1 DEF IInv, WriteInv
  <2>3. StoredInv'  BY <1>1, <1>3, <2>1 DEF IInv, StoredInv
  <2>4. AnnouncedInv'  BY <1>1, <1>3 DEF IInv, AnnouncedInv
  <2>. QED  BY <2>1, <2>2, <2>3, <2>4 DEF IInv
<1>4. CASE /\ call[c].pc = "emit"
           /\ announced' = announced \cup {[id |-> call[c].man.id, fp |-> call[c].man.fp]}
           /\ call' = [call EXCEPT ![c] = NewCall("done", None)]
  <2>1. PICK l : l = NewCall("done", None)  OBVIOUS
  <2>2. CallInv(l) /\ l.pc = "done"  BY <2>1, NewCallInv
  <2>3. /\ call'[c] = l /\ \A d \in Compiles : d # c => call'[d] = call[d]
        /\ call' = [d \in Compiles |-> call'[d]]
    BY <1>4, <2>1, OneMoves
  <2>4. WriteInv'  BY <1>1, <2>2, <2>3 DEF IInv, WriteInv
  <2>5. StoredInv'  BY <1>1, <2>2, <2>3 DEF IInv, StoredInv
  <2>6. AnnouncedInv'
    <3>1. /\ call[c].man.id \in DOMAIN manifests
          /\ call[c].man.id \in overlapped \/ manifests[call[c].man.id] = call[c].man.fp
      BY <1>4 DEF IInv, StoredInv
    <3>. QED  BY <1>1, <1>4, <3>1 DEF IInv, AnnouncedInv
  <2>. QED  BY <2>2, <2>3, <2>4, <2>5, <2>6 DEF IInv
<1>. QED  BY <1>1, <1>2, <1>3, <1>4 DEF ReadBack, Announce, files

-----------------------------------------------------------------------------
(* Orders and sums.                                                        *)

\* b gives for each element of S those that come before it.
IsOrder(S, b) ==
    /\ \A i \in S : i \notin b[i]
    /\ \A i, j \in S : i # j => i \in b[j] \/ j \in b[i]
    /\ \A i, j, k \in S : i \in b[j] /\ j \in b[k] => i \in b[k]

\* In an order every element of a finite set has a place of its own.
LEMMA RankBijection ==
    ASSUME NEW S, IsFiniteSet(S), NEW b, IsOrder(S, b)
    PROVE  [i \in S |-> Rank(i, S, b)] \in Bijection(S, 1 .. Cardinality(S))
<1>. DEFINE r == [i \in S |-> Rank(i, S, b)]
            N == Cardinality(S)
            card == [i \in S |-> Cardinality(S \cap b[i])]
<1>1. N \in Nat  BY FS_CardinalityType
<1>2. ASSUME NEW i \in S
      PROVE  card[i] \in Nat /\ card[i] < N /\ IsFiniteSet(S \cap b[i])
  <2>1. S \cap b[i] \in SUBSET S /\ S \cap b[i] # S  BY DEF IsOrder
  <2>2. /\ IsFiniteSet(S \cap b[i]) /\ card[i] <= N /\ (N = card[i] => S = S \cap b[i])
    BY <2>1, FS_Subset
  <2>3. card[i] \in Nat  BY <2>2, FS_CardinalityType
  <2>. HIDE DEF N, card
  <2>. QED  BY <1>1, <2>1, <2>2, <2>3
<1>3. ASSUME NEW i \in S  PROVE r[i] = card[i] + 1
  BY DEF Rank
<1>4. ASSUME NEW i \in S, NEW j \in S, i \in b[j]  PROVE card[i] < card[j]
  <2>1. S \cap b[i] \in SUBSET (S \cap b[j]) /\ S \cap b[i] # S \cap b[j]
    BY <1>4 DEF IsOrder
  <2>2. IsFiniteSet(S \cap b[j])  BY <1>2
  <2>3. card[i] <= card[j] /\ (card[j] = card[i] => S \cap b[j] = S \cap b[i])
    BY <2>1, <2>2, FS_Subset
  <2>4. card[i] \in Nat /\ card[j] \in Nat  BY <1>2
  <2>. HIDE DEF card
  <2>. QED  BY <2>1, <2>3, <2>4
<1>5. r = [i \in S |-> r[i]]  OBVIOUS
<1>. HIDE DEF r, N, card
<1>6. /\ \A i \in S : card[i] \in Nat /\ card[i] < N
      /\ \A i \in S : r[i] = card[i] + 1
      /\ \A i, j \in S : i \in b[j] => card[i] < card[j]
  <2>1. \A i \in S : card[i] \in Nat /\ card[i] < N  BY <1>2
  <2>2. \A i \in S : r[i] = card[i] + 1  BY <1>3
  <2>3. \A i, j \in S : i \in b[j] => card[i] < card[j]  BY <1>4
  <2>. QED  BY <2>1, <2>2, <2>3
<1>7. r \in [S -> 1 .. N] /\ \A i, j \in S : r[i] = r[j] => i = j
  <2>1. \A i \in S : r[i] \in 1 .. N  BY <1>1, <1>6
  <2>2. \A i, j \in S : r[i] = r[j] => i = j  BY <1>6 DEF IsOrder
  <2>. QED  BY <1>5, <2>1, <2>2
<1>8. r \in Injection(S, 1 .. N)  BY <1>7, Fun_IsInj
<1>9. IsFiniteSet(1 .. N) /\ Cardinality(1 .. N) = N  BY <1>1, FS_Interval
<1>10. r \in Surjection(S, 1 .. N)  BY <1>8, <1>9, FS_Injection DEF N
<1>11. r \in Bijection(S, 1 .. N)  BY <1>8, <1>10, Fun_IsBij
<1>. QED  BY <1>11 DEF r, N

\* A sorted set has each of its elements once.
LEMMA SortedSeq ==
    ASSUME NEW S, IsFiniteSet(S), NEW b, IsOrder(S, b)
    PROVE  /\ Sorted(S, b) \in [1 .. Cardinality(S) -> S]
           /\ \A m, n \in 1 .. Cardinality(S) : Sorted(S, b)[m] = Sorted(S, b)[n] => m = n
           /\ \A i \in S : \E n \in 1 .. Cardinality(S) : Sorted(S, b)[n] = i
           /\ Cardinality(S) \in Nat
<1>. DEFINE r == [i \in S |-> Rank(i, S, b)]
            N == Cardinality(S)
            t == Sorted(S, b)
<1>0. N \in Nat  BY FS_CardinalityType
<1>1. /\ r \in [S -> 1 .. N] /\ \A i, j \in S : r[i] = r[j] => i = j
      /\ \A n \in 1 .. N : \E i \in S : r[i] = n
  <2>1. r \in Bijection(S, 1 .. N)  BY RankBijection
  <2>2. PICK T : T = 1 .. N  OBVIOUS
  <2>. HIDE DEF r, N
  <2>3. r \in Bijection(S, T)  BY <2>1, <2>2
  <2>4. /\ r \in [S -> T] /\ \A i, j \in S : r[i] = r[j] => i = j
        /\ \A n \in T : \E i \in S : r[i] = n
    BY <2>3, Fun_BijectionProperties
  <2>. QED  BY <2>2, <2>4
<1>2. ASSUME NEW n \in 1 .. N  PROVE t[n] \in S /\ r[t[n]] = n
  <2>1. \E i \in S : Rank(i, S, b) = n  BY <1>1
  <2>2. t[n] = CHOOSE i \in S : Rank(i, S, b) = n  BY DEF Sorted
  <2>. QED  BY <2>1, <2>2
<1>3. t \in [1 .. N -> S]
  <2>1. t = [n \in 1 .. N |-> t[n]]  BY DEF Sorted
  <2>. HIDE DEF t, N
  <2>. QED  BY <1>2, <2>1
<1>4. ASSUME NEW i \in S  PROVE \E n \in 1 .. N : t[n] = i
  <2>. HIDE DEF t, N, r
  <2>1. r[i] \in 1 .. N  BY <1>1
  <2>. QED  BY <1>1, <1>2, <2>1
<1>. HIDE DEF t, N, r
<1>5. \A m, n \in 1 .. N : t[m] = t[n] => m = n  BY <1>2
<1>. QED  BY <1>0, <1>3, <1>4, <1>5 DEF t, N

\* One element comes before all others.
LEMMA LeastElement ==
    ASSUME NEW S, IsFiniteSet(S), NEW b, IsOrder(S, b), S # {}
    PROVE  \E i \in S : \A j \in S \ {i} : i \in b[j]
<1>1. /\ Cardinality(S) \in Nat /\ Cardinality(S) # 0
  BY FS_CardinalityType, FS_EmptySet
<1>2. PICK i \in S : Rank(i, S, b) = 1
  <2>. DEFINE r == [x \in S |-> Rank(x, S, b)]
  <2>1. r \in Bijection(S, 1 .. Cardinality(S))  BY RankBijection
  <2>2. \A i \in S : r[i] = Rank(i, S, b)  OBVIOUS
  <2>. HIDE DEF r
  <2>4. PICK T : T = 1 .. Cardinality(S)  OBVIOUS
  <2>5. r \in Bijection(S, T)  BY <2>1, <2>4
  <2>6. \A n \in T : \E i \in S : r[i] = n  BY <2>5, Fun_BijectionProperties
  <2>3. \E i \in S : r[i] = 1  BY <1>1, <2>4, <2>6
  <2>. QED  BY <2>2, <2>3
<1>3. S \cap b[i] = {}
  <2>1. IsFiniteSet(S \cap b[i])  BY FS_Intersection
  <2>2. Cardinality(S \cap b[i]) \in Nat  BY <2>1, FS_CardinalityType
  <2>3. Cardinality(S \cap b[i]) = 0  BY <1>2, <2>2 DEF Rank
  <2>. QED  BY <2>1, <2>3, FS_EmptySet
<1>. QED  BY <1>3 DEF IsOrder

\* Of some subsets of a finite set, one has no smaller one among them: this is
\* what stands for an induction over finite sets.
LEMMA MinimalSubset ==
    ASSUME NEW S, IsFiniteSet(S), NEW B, B \subseteq SUBSET S, B # {}
    PROVE  \E T \in B : \A U \in SUBSET T : U # T => U \notin B
<1>1. IsWellFoundedOn(StrictSubsetOrdering(S), SUBSET S)
  BY FS_StrictSubsetOrderingWellFounded, FS_FiniteSubsetsOfFinite
<1>2. PICK T \in B : \A U \in B : <<U, T>> \notin StrictSubsetOrdering(S)
  BY <1>1, WFMin
<1>3. ASSUME NEW U \in SUBSET T, U # T, U \in B  PROVE FALSE
  BY <1>2, <1>3 DEF StrictSubsetOrdering
<1>. QED  BY <1>3

\* The element a sum over a set adds first.
First(s) == CHOOSE x \in s : TRUE

LEMMA FirstIn == ASSUME NEW s, s # {}  PROVE First(s) \in s
BY DEF First

\* g has the sum of f over every subset of S.
IsSum(g, f, S) ==
    g = [s \in SUBSET S |-> IF s = {} THEN 0 ELSE f[First(s)] + g[s \ {First(s)}]]

LEMMA SumStep ==
    ASSUME NEW f, NEW S, NEW g, IsSum(g, f, S), NEW U \in SUBSET S
    PROVE  g[U] = IF U = {} THEN 0 ELSE f[First(U)] + g[U \ {First(U)}]
BY DEF IsSum

\* Two of them agree where both are defined.
LEMMA SumsAgree ==
    ASSUME NEW f, NEW S, IsFiniteSet(S), NEW T, NEW g, NEW h, IsSum(g, f, S), IsSum(h, f, T),
           S \subseteq T
    PROVE  g[S] = h[S]
<1>. DEFINE B == {U \in SUBSET S : g[U] # h[U]}
<1>. SUFFICES ASSUME B # {}  PROVE FALSE
  <2>. S \in SUBSET S  OBVIOUS
  <2>. QED  BY DEF B
<1>1. PICK U \in B : \A V \in SUBSET U : V # U => V \notin B
  <2>1. B \subseteq SUBSET S  OBVIOUS
  <2>. HIDE DEF B
  <2>. QED  BY <2>1, MinimalSubset
<1>2. U \in SUBSET S /\ U \in SUBSET T /\ g[U] # h[U]  OBVIOUS
<1>3. CASE U = {}  BY <1>2, <1>3, SumStep
<1>4. CASE U # {}
  <2>1. PICK x : x = First(U)  OBVIOUS
  <2>2. x \in U  BY <1>4, <2>1, FirstIn
  <2>3. U \ {x} \in SUBSET U /\ U \ {x} # U /\ U \ {x} \in SUBSET S  BY <1>2, <2>2
  <2>4. g[U \ {x}] = h[U \ {x}]  BY <1>1, <2>3
  <2>5. g[U] = f[x] + g[U \ {x}]  BY <1>2, <1>4, <2>1, SumStep
  <2>6. h[U] = f[x] + h[U \ {x}]  BY <1>2, <1>4, <2>1, SumStep
  <2>. QED  BY <1>2, <2>4, <2>5, <2>6
<1>. QED  BY <1>3, <1>4

\* There is one for every finite set.
LEMMA SumExists ==
    ASSUME NEW f, NEW S, IsFiniteSet(S)
    PROVE  \E g : IsSum(g, f, S)
<1>. DEFINE B == {T \in SUBSET S : ~ \E g : IsSum(g, f, T)}
<1>. SUFFICES ASSUME B # {}  PROVE FALSE
  <2>. S \in SUBSET S  OBVIOUS
  <2>. QED  BY DEF B
<1>1. PICK T \in B : \A U \in SUBSET T : U # T => U \notin B
  <2>1. B \subseteq SUBSET S  OBVIOUS
  <2>. HIDE DEF B
  <2>. QED  BY <2>1, MinimalSubset
<1>2. T \in SUBSET S /\ ~ \E g : IsSum(g, f, T)  OBVIOUS
<1>. DEFINE G(V) == CHOOSE g : IsSum(g, f, V)
            val(V) == G(V)[V]
            h == [U \in SUBSET T |-> IF U = {} THEN 0 ELSE f[First(U)] + val(U \ {First(U)})]
<1>3. ASSUME NEW V \in SUBSET T, V # T  PROVE IsSum(G(V), f, V) /\ IsFiniteSet(V)
  <2>1. V \in SUBSET S  BY <1>2
  <2>2. \E g : IsSum(g, f, V)  BY <1>1, <1>3, <2>1
  <2>. QED  BY <2>1, <2>2, FS_Subset
<1>4. ASSUME NEW V \in SUBSET T, V # T  PROVE h[V] = val(V)
  <2>1. IsSum(G(V), f, V)  BY <1>3, <1>4
  <2>2. val(V) = IF V = {} THEN 0 ELSE f[First(V)] + G(V)[V \ {First(V)}]
    <3>1. V \in SUBSET V  OBVIOUS
    <3>. HIDE DEF G
    <3>. QED  BY <2>1, <3>1, SumStep
  <2>3. CASE V = {}  BY <2>2, <2>3
  <2>4. CASE V # {}
    <3>1. PICK W : W = V \ {First(V)}  OBVIOUS
    <3>2. W \subseteq V /\ W \in SUBSET T /\ W # T  BY <1>4, <2>4, <3>1, FirstIn
    <3>3. IsSum(G(W), f, W) /\ IsFiniteSet(W)  BY <1>3, <3>2
    <3>4. G(W)[W] = G(V)[W]
      <4>. HIDE DEF G
      <4>. QED  BY <2>1, <3>2, <3>3, SumsAgree
    <3>5. h[V] = f[First(V)] + val(W)  BY <2>4, <3>1
    <3>. QED  BY <2>2, <2>4, <3>1, <3>4, <3>5
  <2>. QED  BY <2>3, <2>4
<1>5. ASSUME NEW U \in SUBSET T, U # {}  PROVE h[U] = f[First(U)] + h[U \ {First(U)}]
  <2>1. PICK W : W = U \ {First(U)}  OBVIOUS
  <2>2. W \in SUBSET T /\ W # T  BY <1>5, <2>1, FirstIn
  <2>3. h[W] = val(W)  BY <1>4, <2>2
  <2>. QED  BY <1>5, <2>1, <2>3
<1>6. IsSum(h, f, T)
  <2>1. h = [U \in SUBSET T |-> h[U]]  OBVIOUS
  <2>2. h[{}] = 0  OBVIOUS
  <2>. HIDE DEF h
  <2>3. \A U \in SUBSET T : h[U] = IF U = {} THEN 0 ELSE f[First(U)] + h[U \ {First(U)}]
    BY <1>5, <2>2
  <2>. QED  BY <2>1, <2>3 DEF IsSum
<1>. QED  BY <1>2, <1>6

\* So SumFunctionOnSet, a fold, is such a sum.
LEMMA SumIs ==
    ASSUME NEW f, NEW S, IsFiniteSet(S)
    PROVE  \E g : IsSum(g, f, S) /\ SumFunctionOnSet(f, S) = g[S]
<1>1. PICK g : g = CHOOSE h : IsSum(h, f, S)  OBVIOUS
<1>2. IsSum(g, f, S)  BY <1>1, SumExists
<1>3. SumFunctionOnSet(f, S) = g[S]
  BY <1>1 DEF SumFunctionOnSet, FoldFunctionOnSet, MapThenFoldSet, IsSum, First
<1>. QED  BY <1>2, <1>3

LEMMA SumEmpty ==
    ASSUME NEW f  PROVE SumFunctionOnSet(f, {}) = 0
<1>1. IsFiniteSet({})  BY FS_EmptySet
<1>2. PICK g : IsSum(g, f, {}) /\ SumFunctionOnSet(f, {}) = g[{}]  BY <1>1, SumIs
<1>. QED  BY <1>2, SumStep

LEMMA SumType ==
    ASSUME NEW f, NEW S, IsFiniteSet(S), \A x \in S : f[x] \in Int
    PROVE  SumFunctionOnSet(f, S) \in Int
<1>1. PICK g : IsSum(g, f, S) /\ SumFunctionOnSet(f, S) = g[S]  BY SumIs
<1>. DEFINE B == {U \in SUBSET S : g[U] \notin Int}
<1>. SUFFICES ASSUME B # {}  PROVE FALSE
  <2>. S \in SUBSET S  OBVIOUS
  <2>. QED  BY <1>1 DEF B
<1>2. PICK U \in B : \A V \in SUBSET U : V # U => V \notin B
  <2>1. B \subseteq SUBSET S  OBVIOUS
  <2>. HIDE DEF B
  <2>. QED  BY <2>1, MinimalSubset
<1>3. U \in SUBSET S /\ g[U] \notin Int  OBVIOUS
<1>4. CASE U = {}
  <2>1. g[U] = 0  BY <1>1, <1>3, <1>4, SumStep
  <2>. QED  BY <1>3, <2>1
<1>5. CASE U # {}
  <2>1. PICK x : x = First(U)  OBVIOUS
  <2>2. x \in U /\ f[x] \in Int  BY <1>3, <1>5, <2>1, FirstIn
  <2>3. U \ {x} \in SUBSET U /\ U \ {x} # U /\ U \ {x} \in SUBSET S  BY <1>3, <2>2
  <2>4. g[U \ {x}] \in Int  BY <1>2, <2>3
  <2>5. g[U] = f[x] + g[U \ {x}]  BY <1>1, <1>3, <1>5, <2>1, SumStep
  <2>. QED  BY <1>3, <2>2, <2>4, <2>5
<1>. QED  BY <1>4, <1>5

\* The sum does not depend on the order in which the elements are added.
LEMMA SumAdd ==
    ASSUME NEW f, NEW S, IsFiniteSet(S), NEW x, x \notin S, \A y \in S \cup {x} : f[y] \in Int
    PROVE  SumFunctionOnSet(f, S \cup {x}) = SumFunctionOnSet(f, S) + f[x]
<1>0. PICK W : W = S \cup {x}  OBVIOUS
<1>1. IsFiniteSet(W)  BY <1>0, FS_AddElement
<1>2. PICK g : IsSum(g, f, W) /\ SumFunctionOnSet(f, W) = g[W]  BY <1>1, SumIs
<1>3. PICK h : IsSum(h, f, S) /\ SumFunctionOnSet(f, S) = h[S]  BY SumIs
<1>4. h[S] = g[S]  BY <1>0, <1>2, <1>3, SumsAgree
\* every member may be taken first
<1>5. ASSUME NEW U \in SUBSET W  PROVE g[U] \in Int
  <2>1. IsFiniteSet(U)  BY <1>1, FS_Subset
  <2>2. PICK k : IsSum(k, f, U) /\ SumFunctionOnSet(f, U) = k[U]  BY <2>1, SumIs
  <2>3. k[U] = g[U]  BY <1>2, <2>1, <2>2, SumsAgree
  <2>4. \A y \in U : f[y] \in Int  BY <1>0
  <2>. QED  BY <2>1, <2>2, <2>3, <2>4, SumType
<1>6. \A U \in SUBSET W : \A y \in U : g[U] = f[y] + g[U \ {y}]
  <2>. DEFINE B == {U \in SUBSET W : ~ \A y \in U : g[U] = f[y] + g[U \ {y}]}
  <2>. SUFFICES ASSUME B # {}  PROVE FALSE
    BY DEF B
  <2>1. PICK U \in B : \A V \in SUBSET U : V # U => V \notin B
    <3>1. B \subseteq SUBSET W  OBVIOUS
    <3>. HIDE DEF B
    <3>. QED  BY <1>1, <3>1, MinimalSubset
  <2>2. PICK y \in U : g[U] # f[y] + g[U \ {y}]  OBVIOUS
  <2>3. U \in SUBSET W /\ U # {}  BY <2>2
  <2>4. PICK z : z = First(U)  OBVIOUS
  <2>5. z \in U  BY <2>3, <2>4, FirstIn
  <2>6. g[U] = f[z] + g[U \ {z}]
    <3>1. g[U] = IF U = {} THEN 0 ELSE f[First(U)] + g[U \ {First(U)}]
      BY <1>2, <2>3, SumStep
    <3>. QED  BY <2>3, <2>4, <3>1
  <2>7. z # y  BY <2>2, <2>6
  <2>8. PICK V : V = (U \ {z}) \ {y}  OBVIOUS
  <2>9. g[U \ {z}] = f[y] + g[V]
    <3>1. U \ {z} \in SUBSET U /\ U \ {z} # U /\ y \in U \ {z} /\ U \ {z} \in SUBSET W
      BY <2>3, <2>5, <2>7
    <3>2. U \ {z} \notin B  BY <2>1, <3>1
    <3>. QED  BY <2>8, <3>1, <3>2
  <2>10. g[U \ {y}] = f[z] + g[V]
    <3>1. U \ {y} \in SUBSET U /\ U \ {y} # U /\ z \in U \ {y} /\ U \ {y} \in SUBSET W
      BY <2>3, <2>5, <2>7
    <3>2. U \ {y} \notin B  BY <2>1, <3>1
    <3>3. (U \ {y}) \ {z} = V  BY <2>8
    <3>. QED  BY <3>1, <3>2, <3>3
  <2>11. f[y] \in Int /\ f[z] \in Int /\ g[V] \in Int
    <3>1. V \in SUBSET W  BY <2>3, <2>8
    <3>. QED  BY <1>0, <1>5, <2>3, <2>5, <3>1
  <2>. HIDE DEF B
  <2>. QED  BY <2>2, <2>6, <2>9, <2>10, <2>11
<1>7. W \in SUBSET W /\ x \in W /\ W \ {x} = S  BY <1>0
<1>8. g[W] = f[x] + g[S]  BY <1>6, <1>7
<1>9. S \in SUBSET W /\ f[x] \in Int  BY <1>0
<1>. QED  BY <1>0, <1>2, <1>3, <1>4, <1>5, <1>8, <1>9

-----------------------------------------------------------------------------
(* The selection.                                                          *)

\* Candidates are records, hit by the kinds of sources there are.
IsCands(cands) ==
    /\ DOMAIN cands \subseteq Ids
    /\ \A i \in DOMAIN cands : DOMAIN cands[i].hits \subseteq {"direct", "exact", "lexical"}

LEMMA TokensEmpty == Tokens({}) = 0
BY SumEmpty DEF Tokens

LEMMA TokensAdd ==
    ASSUME NEW S, S \subseteq Ids, NEW i \in Ids, i \notin S
    PROVE  Tokens(S \cup {i}) = Tokens(S) + Rec[i].tokens
<1>. DEFINE f == [j \in Ids |-> Rec[j].tokens]
<1>1. IsFiniteSet(S)  BY RecordAssumption, FS_Subset
<1>2. f[i] = Rec[i].tokens /\ \A y \in S \cup {i} : f[y] \in Int  BY RecordAssumption
<1>. HIDE DEF f
<1>3. SumFunctionOnSet(f, S \cup {i}) = SumFunctionOnSet(f, S) + f[i]  BY <1>1, <1>2, SumAdd
<1>. QED  BY <1>2, <1>3 DEF Tokens, f

LEMMA TokensType ==
    ASSUME NEW S, S \subseteq Ids
    PROVE  Tokens(S) \in Int
<1>. DEFINE f == [j \in Ids |-> Rec[j].tokens]
<1>1. IsFiniteSet(S)  BY RecordAssumption, FS_Subset
<1>2. \A y \in S : f[y] \in Int  BY RecordAssumption
<1>. HIDE DEF f
<1>3. SumFunctionOnSet(f, S) \in Int  BY <1>1, <1>2, SumType
<1>. QED  BY <1>3 DEF Tokens, f

LEMMA MarginalType ==
    ASSUME NEW cands, IsCands(cands), NEW req, NEW sel, NEW i \in DOMAIN cands
    PROVE  Marginal(cands, sel, req, i) \in Int
<1>1. IsFiniteSet(DOMAIN cands[i].hits)
  <2>1. IsFiniteSet({"direct"} \cup {"exact"} \cup {"lexical"})  BY FS_Singleton, FS_AddElement
  <2>2. DOMAIN cands[i].hits \in SUBSET ({"direct"} \cup {"exact"} \cup {"lexical"})  BY DEF IsCands
  <2>. QED  BY <2>1, <2>2, FS_Subset
<1>2. \A k \in DOMAIN cands[i].hits : Fusion[k] \in Int
  <2>1. Fusion.direct \in Int /\ Fusion.exact \in Int /\ Fusion.lexical \in Int  BY DEF Fusion
  <2>. QED  BY <2>1 DEF IsCands
<1>3. PICK x : x = SumFunctionOnSet(Fusion, DOMAIN cands[i].hits)  OBVIOUS
<1>4. x \in Int  BY <1>1, <1>2, <1>3, SumType
<1>5. Rec[i].base \in Int  BY RecordAssumption DEF IsCands
<1>6. RawUtility(cands, req, i) \in Int
  BY <1>3, <1>4, <1>5 DEF RawUtility, MinimumUtility
<1>. QED  BY <1>6 DEF Marginal, DiversityWeight, CoverageBonus, KindBonus

\* The best of some candidates is one of them: utilities, tokens and ids order them.
LEMMA BestIn ==
    ASSUME NEW cands, IsCands(cands), NEW req, NEW sel, NEW S, S \subseteq DOMAIN cands, S # {}
    PROVE  Best(cands, sel, req, S) \in S
<1>. DEFINE w == [i \in S |-> Marginal(cands, sel, req, i)]
<1>1. \A i \in S : w[i] \in Int  BY MarginalType
<1>2. PICK v : v = w  OBVIOUS
<1>3. \A i \in S : v[i] \in Int  BY <1>1, <1>2
<1>. HIDE DEF w
<1>. DEFINE b == [i \in S |-> {j \in S :
                       \/ v[j] > v[i]
                       \/ v[j] = v[i] /\ Rec[j].tokens < Rec[i].tokens
                       \/ v[j] = v[i] /\ Rec[j].tokens = Rec[i].tokens /\ Rec[j].order < Rec[i].order}]
<1>4. \A i \in S : /\ Rec[i].tokens \in Int /\ Rec[i].order \in Int
                   /\ \A j \in S : Rec[i].order = Rec[j].order => i = j
  BY RecordAssumption DEF IsCands
<1>5. IsOrder(S, b)
  <2>1. \A i \in S : i \notin b[i]  BY <1>3, <1>4
  <2>2. ASSUME NEW i \in S, NEW j \in S, i # j  PROVE i \in b[j] \/ j \in b[i]
    <3>1. /\ v[i] \in Int /\ v[j] \in Int
          /\ Rec[i].tokens \in Int /\ Rec[j].tokens \in Int
          /\ Rec[i].order \in Int /\ Rec[j].order \in Int
      BY <1>3, <1>4
    <3>2. Rec[i].order # Rec[j].order  BY <1>4, <2>2
    <3>3. \/ v[j] > v[i] \/ v[i] > v[j]
          \/ v[j] = v[i] /\ (Rec[j].tokens < Rec[i].tokens \/ Rec[i].tokens < Rec[j].tokens)
          \/ /\ v[j] = v[i] /\ Rec[j].tokens = Rec[i].tokens
             /\ Rec[j].order < Rec[i].order \/ Rec[i].order < Rec[j].order
      BY <3>1, <3>2
    <3>4. ASSUME NEW x \in S, NEW y \in S,
                 \/ v[x] > v[y]
                 \/ v[x] = v[y] /\ Rec[x].tokens < Rec[y].tokens
                 \/ v[x] = v[y] /\ Rec[x].tokens = Rec[y].tokens /\ Rec[x].order < Rec[y].order
          PROVE  x \in b[y]
      BY <3>4
    <3>. HIDE DEF b
    <3>. QED  BY <3>3, <3>4
  <2>3. \A i, j, k \in S : i \in b[j] /\ j \in b[k] => i \in b[k]  BY <1>3, <1>4
  <2>. HIDE DEF b
  <2>. QED  BY <2>1, <2>2, <2>3 DEF IsOrder
<1>6. IsFiniteSet(S)  BY RecordAssumption, FS_Subset DEF IsCands
<1>7. PICK i \in S : \A j \in S \ {i} : i \in b[j]
  <2>. HIDE DEF b
  <2>. QED  BY <1>5, <1>6, LeastElement
<1>8. \A j \in S \ {i} : \/ v[i] > v[j]
                         \/ v[i] = v[j] /\ Rec[i].tokens < Rec[j].tokens
                         \/ v[i] = v[j] /\ Rec[i].tokens = Rec[j].tokens /\ Rec[i].order < Rec[j].order
  BY <1>7
<1>. DEFINE best(value) == CHOOSE x \in S : \A j \in S \ {x} :
               \/ value[x] > value[j]
               \/ value[x] = value[j] /\ Rec[x].tokens < Rec[j].tokens
               \/ value[x] = value[j] /\ Rec[x].tokens = Rec[j].tokens /\ Rec[x].order < Rec[j].order
<1>9. best(v) \in S  BY <1>8
<1>. HIDE DEF best
<1>10. (CHOOSE y \in {best(z) : z \in {v}} : TRUE) = best(v)  OBVIOUS
<1>11. Best(cands, sel, req, S) = CHOOSE y \in {best(z) : z \in {v}} : TRUE
  BY <1>2, Zenon DEF Best, Once, best, w
<1>. QED  BY <1>9, <1>10, <1>11

\* The first of some numbers, for inductions over the turns of the loop.
LEMMA LeastNat ==
    ASSUME NEW B, B \subseteq Nat, B # {}
    PROVE  \E n \in B : \A m \in B : n <= m
<1>1. IsWellFoundedOn(OpToRel(<, Nat), Nat)  BY NatLessThanWellFounded
<1>2. PICK n \in B : \A m \in B : <<m, n>> \notin OpToRel(<, Nat)
  <2>. DEFINE R == OpToRel(<, Nat)
  <2>1. IsWellFoundedOn(R, Nat)  BY <1>1
  <2>. HIDE DEF R
  <2>2. \E n \in B : \A m \in B : <<m, n>> \notin R  BY <2>1, WFMin
  <2>. QED  BY <2>2 DEF R
<1>3. ASSUME NEW m \in B  PROVE n <= m
  <2>1. n \in Nat /\ m \in Nat  OBVIOUS
  <2>2. ~(m < n)  BY <1>2, <1>3, <2>1 DEF OpToRel
  <2>. QED  BY <2>1, <2>2
<1>. QED  BY <1>3

\* A sequence of records that has none of them twice.
Distinct(s) ==
    s \in Seq(Ids) /\ \A m, n \in 1 .. Len(s) : s[m] = s[n] => m = n

LEMMA AppendNew ==
    ASSUME NEW s, Distinct(s), NEW i \in Ids, i \notin Range(s)
    PROVE  Distinct(Append(s, i)) /\ Range(Append(s, i)) = Range(s) \cup {i}
<1>1. s \in Seq(Ids) /\ Len(s) \in Nat /\ DOMAIN s = 1 .. Len(s)  BY DEF Distinct
<1>2. PICK t : t = Append(s, i)  OBVIOUS
<1>3. /\ t \in Seq(Ids) /\ Len(t) = Len(s) + 1 /\ DOMAIN t = 1 .. Len(t)
      /\ t[Len(s) + 1] = i /\ \A n \in 1 .. Len(s) : t[n] = s[n]
  BY <1>1, <1>2
<1>4. \A n \in 1 .. Len(s) : s[n] \in Range(s)  BY <1>1 DEF Range
<1>5. Range(t) = Range(s) \cup {i}
  <2>1. \A n \in DOMAIN t : t[n] \in Range(s) \cup {i}  BY <1>1, <1>3, <1>4
  <2>2. \A n \in DOMAIN s : s[n] \in Range(t)
    <3>1. \A n \in DOMAIN s : n \in DOMAIN t /\ t[n] = s[n]  BY <1>1, <1>3
    <3>. QED  BY <3>1 DEF Range
  <2>3. i \in Range(t)
    <3>1. Len(s) + 1 \in DOMAIN t  BY <1>1, <1>3
    <3>. QED  BY <1>3, <3>1 DEF Range
  <2>. QED  BY <2>1, <2>2, <2>3 DEF Range
<1>6. ASSUME NEW m \in 1 .. Len(t), NEW n \in 1 .. Len(t), t[m] = t[n]  PROVE m = n
  <2>1. CASE m = Len(s) + 1 /\ n \in 1 .. Len(s)  BY <1>3, <1>4, <1>6, <2>1
  <2>2. CASE n = Len(s) + 1 /\ m \in 1 .. Len(s)  BY <1>3, <1>4, <1>6, <2>2
  <2>3. CASE m \in 1 .. Len(s) /\ n \in 1 .. Len(s)
    <3>1. s[m] = s[n]  BY <1>3, <1>6, <2>3
    <3>. QED  BY <2>3, <3>1 DEF Distinct
  <2>. QED  BY <1>1, <1>3, <1>6, <2>1, <2>2, <2>3
<1>. QED  BY <1>2, <1>3, <1>5, <1>6 DEF Distinct

\* What holds before every iteration of the loop over the optional candidates.
LoopInv(cands, req, F, st) ==
    /\ st \in [sel : {st.sel}, left : {st.left}, out : {st.out}, used : {st.used},
               stop : {st.stop}, compared : {st.compared}, seen : {st.seen}]
    /\ Distinct(st.sel) /\ F \subseteq Range(st.sel)
    /\ Range(st.sel) \cup st.left \cup st.out = DOMAIN cands
    /\ Range(st.sel) \cap st.left = {} /\ Range(st.sel) \cap st.out = {}
    /\ st.left \cap st.out = {} /\ st.left \cap F = {} /\ st.out \cap F = {}
    /\ st.used = Tokens(Range(st.sel)) /\ st.used <= req.budget

\* An iteration selects a candidate within the budget or refuses it; when what
\* is selected suffices, the rest is left out.
LEMMA IterateInv ==
    ASSUME NEW cands, IsCands(cands), NEW open, NEW req, NEW F, NEW st,
           LoopInv(cands, req, F, st), st.left # {}, req.budget \in Int
    PROVE  LoopInv(cands, req, F, Iterate(cands, open, req, st))
<1>. DEFINE best == Best(cands, st.sel, req, st.left)
            nowAt(j) == [st EXCEPT !.left = @ \ {j},
                                   !.compared = st.compared + Cardinality(st.left) * (Len(st.sel) - st.seen),
                                   !.seen = Len(st.sel)]
            tookAt(j) == [nowAt(j) EXCEPT !.sel = Append(@, j), !.used = @ + Rec[j].tokens]
            on(j) == IF Refused(cands, st, req, j) THEN [nowAt(j) EXCEPT !.out = @ \cup {j}]
                     ELSE IF Sufficient(open, tookAt(j).sel, req)
                          THEN [tookAt(j) EXCEPT !.stop = TRUE, !.left = {},
                                                 !.out = @ \cup tookAt(j).left,
                                                 !.compared = @ + Cardinality(tookAt(j).left)]
                          ELSE tookAt(j)
            shape(r) == r \in [sel : {r.sel}, left : {r.left}, out : {r.out}, used : {r.used},
                               stop : {r.stop}, compared : {r.compared}, seen : {r.seen}]
<1>1. st.left \subseteq DOMAIN cands  BY DEF LoopInv
<1>2. best \in st.left  BY <1>1, BestIn
<1>3. PICK i : i = best  OBVIOUS
<1>4. Iterate(cands, open, req, st) = on(i)
  <2>1. Iterate(cands, open, req, st) = CHOOSE y \in {on(z) : z \in {i}} : TRUE
    BY <1>3, Zenon DEF Iterate, Once
  <2>. HIDE DEF on
  <2>. QED  BY <2>1
<1>5. /\ i \in st.left /\ i \in Ids /\ i \notin Range(st.sel) /\ i \notin F
  <2>1. i \in DOMAIN cands  BY <1>1, <1>2, <1>3
  <2>. QED  BY <1>2, <1>3, <2>1 DEF LoopInv, IsCands
<1>6. PICK r : r = on(i)  OBVIOUS
<1>7. PICK now : now = nowAt(i)  OBVIOUS
<1>8. PICK took : took = tookAt(i)  OBVIOUS
<1>t. took = [now EXCEPT !.sel = Append(@, i), !.used = @ + Rec[i].tokens]
  <2>. HIDE DEF nowAt
  <2>. QED  BY <1>7, <1>8
<1>9. r = IF Refused(cands, st, req, i) THEN [now EXCEPT !.out = @ \cup {i}]
          ELSE IF Sufficient(open, took.sel, req)
               THEN [took EXCEPT !.stop = TRUE, !.left = {}, !.out = @ \cup took.left,
                                 !.compared = @ + Cardinality(took.left)]
               ELSE took
  <2>. HIDE DEF nowAt, tookAt
  <2>. QED  BY <1>6, <1>7, <1>8
<1>. HIDE DEF on, best, tookAt
<1>10. /\ shape(now) /\ now.sel = st.sel /\ now.left = st.left \ {i} /\ now.out = st.out
       /\ now.used = st.used
  <2>1. PICK c, l : /\ c = st.compared + Cardinality(st.left) * (Len(st.sel) - st.seen)
                    /\ l = Len(st.sel)
    OBVIOUS
  <2>2. now = [st EXCEPT !.left = @ \ {i}, !.compared = c, !.seen = l]  BY <1>7, <2>1
  <2>. QED  BY <2>2 DEF LoopInv
<1>11. /\ shape(took) /\ took.sel = Append(st.sel, i) /\ took.left = st.left \ {i}
       /\ took.out = st.out /\ took.used = st.used + Rec[i].tokens
  BY <1>10, <1>t
<1>12. /\ Distinct(Append(st.sel, i)) /\ Range(Append(st.sel, i)) = Range(st.sel) \cup {i}
       /\ Tokens(Range(st.sel) \cup {i}) = Tokens(Range(st.sel)) + Rec[i].tokens
  <2>1. Distinct(st.sel)  BY DEF LoopInv
  <2>2. Range(st.sel) \subseteq Ids  BY DEF LoopInv, IsCands
  <2>. QED  BY <1>5, <2>1, <2>2, AppendNew, TokensAdd
<1>13. CASE Refused(cands, st, req, i)
  <2>1. r = [now EXCEPT !.out = @ \cup {i}]  BY <1>9, <1>13
  <2>2. /\ shape(r) /\ r.sel = st.sel /\ r.left = st.left \ {i} /\ r.out = st.out \cup {i}
        /\ r.used = st.used
    BY <1>10, <2>1
  <2>. QED  BY <1>4, <1>5, <1>6, <2>2 DEF LoopInv
<1>14. CASE ~Refused(cands, st, req, i)
  <2>1. st.used + Rec[i].tokens <= req.budget
    <3>1. ~(st.used + Rec[i].tokens > req.budget)  BY <1>14 DEF Refused
    <3>2. Range(st.sel) \subseteq Ids  BY DEF LoopInv, IsCands
    <3>3. st.used \in Int /\ Rec[i].tokens \in Int
      BY <1>5, <3>2, TokensType, RecordAssumption DEF LoopInv
    <3>. QED  BY <3>1, <3>3
  <2>0. PICK R : R = Range(st.sel)  OBVIOUS
  <2>a. /\ Distinct(took.sel) /\ Range(took.sel) = R \cup {i} /\ took.used = Tokens(R \cup {i})
        /\ took.used <= req.budget
    BY <1>11, <1>12, <2>0, <2>1 DEF LoopInv
  <2>b. /\ F \subseteq R \cup {i} /\ R \cup st.left \cup st.out = DOMAIN cands
        /\ R \cap st.left = {} /\ R \cap st.out = {}
        /\ st.left \cap st.out = {} /\ st.left \cap F = {} /\ st.out \cap F = {}
    BY <2>0 DEF LoopInv
  <2>2. CASE r = took
    <3>1. shape(r) /\ r.left = st.left \ {i} /\ r.out = st.out  BY <1>11, <2>2
    <3>a. PICK V : V = R \cup {i}  OBVIOUS
    <3>b. /\ Distinct(r.sel) /\ Range(r.sel) = V /\ r.used = Tokens(V) /\ r.used <= req.budget
      BY <2>a, <2>2, <3>a
    <3>c. /\ F \subseteq V /\ V \cup r.left \cup r.out = DOMAIN cands
          /\ V \cap r.left = {} /\ V \cap r.out = {}
          /\ r.left \cap r.out = {} /\ r.left \cap F = {} /\ r.out \cap F = {}
      BY <1>5, <2>0, <2>b, <3>1, <3>a
    <3>d. LoopInv(cands, req, F, r)
      <4>1. shape(r)  BY <3>1
      <4>. QED  BY <3>b, <3>c, <4>1, Zenon DEF LoopInv
    <3>. QED  BY <1>4, <1>6, <3>d
  <2>3. CASE r = [took EXCEPT !.stop = TRUE, !.left = {}, !.out = @ \cup took.left,
                              !.compared = @ + Cardinality(took.left)]
    <3>1. PICK d : d = took.compared + Cardinality(took.left)  OBVIOUS
    <3>2. r = [took EXCEPT !.stop = TRUE, !.left = {}, !.out = @ \cup took.left, !.compared = d]
      BY <1>11, <2>3, <3>1
    <3>3. /\ shape(r) /\ r.sel = took.sel /\ r.left = {} /\ r.out = st.out \cup (st.left \ {i})
          /\ r.used = took.used
      BY <1>11, <3>2
    <3>a. PICK V : V = R \cup {i}  OBVIOUS
    <3>b. /\ Distinct(r.sel) /\ Range(r.sel) = V /\ r.used = Tokens(V) /\ r.used <= req.budget
      BY <2>a, <3>3, <3>a
    <3>c. /\ F \subseteq V /\ V \cup r.left \cup r.out = DOMAIN cands
          /\ V \cap r.left = {} /\ V \cap r.out = {}
          /\ r.left \cap r.out = {} /\ r.left \cap F = {} /\ r.out \cap F = {}
      BY <1>5, <2>0, <2>b, <3>3, <3>a
    <3>d. LoopInv(cands, req, F, r)
      <4>1. shape(r)  BY <3>3
      <4>. QED  BY <3>b, <3>c, <4>1, Zenon DEF LoopInv
    <3>. QED  BY <1>4, <1>6, <3>d
  <2>. QED  BY <1>9, <1>14, <2>2, <2>3
<1>. QED  BY <1>13, <1>14

\* The loop: its states exist, and the invariant holds in each of them.
LEMMA GreedyInv ==
    ASSUME NEW cands, IsCands(cands), NEW open, NEW req, NEW F, NEW start,
           LoopInv(cands, req, F, start), req.budget \in Int
    PROVE  \E end : /\ LoopInv(cands, req, F, end)
                    /\ Greedy(cands, open, req, start).sel = end.sel
                    /\ Greedy(cands, open, req, start).out = end.out \cup end.left
<1>. DEFINE N == Cardinality(start.left)
            turn(st) == IF Running(st) THEN Iterate(cands, open, req, st) ELSE st
            rest(end) == [end EXCEPT !.out = @ \cup end.left, !.left = {}]
            Is(g, n) == g = [m \in 0 .. n |-> IF m = 0 THEN start
                                  ELSE CHOOSE y \in {turn(z) : z \in {g[m - 1]}} : TRUE]
            after == CHOOSE g : Is(g, N)
<1>1. Greedy(cands, open, req, start) = CHOOSE y \in {rest(z) : z \in {after[N]}} : TRUE
  BY Zenon DEF Greedy, Once
<1>2. \A st : LoopInv(cands, req, F, st) => LoopInv(cands, req, F, turn(st))
  BY IterateInv DEF Running
<1>3. N \in Nat
  <2>1. start.left \in SUBSET Ids  BY DEF LoopInv, IsCands
  <2>2. IsFiniteSet(start.left)  BY <2>1, RecordAssumption, FS_Subset
  <2>. QED  BY <2>2, FS_CardinalityType
<1>. HIDE DEF turn, rest
<1>4. \A x : (CHOOSE y \in {turn(z) : z \in {x}} : TRUE) = turn(x)  OBVIOUS
\* the states of the loop exist, whatever the number of turns
<1>5. \A n \in Nat : \E g : Is(g, n)
  <2>. DEFINE B == {n \in Nat : ~ \E g : Is(g, n)}
  <2>. SUFFICES ASSUME B # {}  PROVE FALSE
    OBVIOUS
  <2>1. PICK n \in B : \A m \in B : n <= m
    <3>1. B \subseteq Nat  OBVIOUS
    <3>. HIDE DEF B
    <3>. QED  BY <3>1, LeastNat
  <2>2. n \in Nat /\ ~ \E g : Is(g, n)  OBVIOUS
  <2>3. CASE n = 0
    <3>1. Is([m \in 0 .. 0 |-> start], 0)  OBVIOUS
    <3>. QED  BY <2>2, <2>3, <3>1
  <2>4. CASE n # 0
    <3>1. n - 1 \in Nat /\ ~(n <= n - 1)  BY <2>2, <2>4
    <3>2. PICK g : Is(g, n - 1)  BY <2>1, <3>1
    <3>3. PICK h : h = [m \in 0 .. n |-> IF m = n THEN turn(g[n - 1]) ELSE g[m]]  OBVIOUS
    <3>4. ASSUME NEW m \in 0 .. n
          PROVE  h[m] = IF m = 0 THEN start ELSE CHOOSE y \in {turn(z) : z \in {h[m - 1]}} : TRUE
      <4>1. CASE m = n
        <5>1. h[m] = turn(g[n - 1]) /\ h[n - 1] = g[n - 1]  BY <2>2, <2>4, <3>3, <4>1
        <5>. QED  BY <1>4, <2>4, <4>1, <5>1
      <4>2. CASE m # n
        <5>1. m \in 0 .. n - 1  BY <2>2, <3>4, <4>2
        <5>2. h[m] = g[m] /\ (m # 0 => m - 1 \in 0 .. n /\ m - 1 # n /\ h[m - 1] = g[m - 1])
          BY <2>2, <3>3, <4>2, <5>1
        <5>3. g[m] = IF m = 0 THEN start ELSE CHOOSE y \in {turn(z) : z \in {g[m - 1]}} : TRUE
          BY <3>2, <5>1
        <5>. QED  BY <5>2, <5>3
      <4>. QED  BY <4>1, <4>2
    <3>5. h = [m \in 0 .. n |-> h[m]]  BY <3>3
    <3>6. Is(h, n)  BY <3>4, <3>5
    <3>. QED  BY <2>2, <3>6
  <2>. QED  BY <2>3, <2>4
<1>6. Is(after, N)  BY <1>3, <1>5
<1>7. PICK a : a = after  OBVIOUS
<1>8. \A m \in 0 .. N : a[m] = IF m = 0 THEN start ELSE turn(a[m - 1])
  BY <1>4, <1>6, <1>7
<1>. HIDE DEF after, Is, N
<1>9. \A m \in 0 .. N : LoopInv(cands, req, F, a[m])
  <2>. DEFINE B == {m \in 0 .. N : ~LoopInv(cands, req, F, a[m])}
  <2>. SUFFICES ASSUME B # {}  PROVE FALSE
    OBVIOUS
  <2>1. PICK n \in B : \A m \in B : n <= m
    <3>1. B \subseteq Nat  BY <1>3
    <3>. HIDE DEF B
    <3>. QED  BY <3>1, LeastNat
  <2>2. n \in 0 .. N /\ ~LoopInv(cands, req, F, a[n])  OBVIOUS
  <2>3. n # 0  BY <1>8, <2>2
  <2>4. n - 1 \in 0 .. N /\ ~(n <= n - 1)  BY <1>3, <2>2, <2>3
  <2>5. LoopInv(cands, req, F, a[n - 1])  BY <2>1, <2>4
  <2>. QED  BY <1>2, <1>8, <2>2, <2>3, <2>5
<1>10. LoopInv(cands, req, F, a[N])
  <2>1. N \in 0 .. N  BY <1>3
  <2>. QED  BY <1>9, <2>1
<1>11. Greedy(cands, open, req, start) = rest(a[N])  BY <1>1, <1>7
<1>12. PICK end : end = a[N]  OBVIOUS
<1>13. rest(end).sel = end.sel /\ rest(end).out = end.out \cup end.left
  <2>1. LoopInv(cands, req, F, end)  BY <1>10, <1>12
  <2>. QED  BY <2>1 DEF rest, LoopInv
<1>. QED  BY <1>10, <1>11, <1>12, <1>13

\* The order of the ids.
LEMMA SortedById ==
    ASSUME NEW S, S \subseteq Ids
    PROVE  Distinct(Sorted(S, ById)) /\ Range(Sorted(S, ById)) = S
<1>1. IsFiniteSet(S)  BY RecordAssumption, FS_Subset
<1>2. IsOrder(S, ById)
  <2>1. \A i, j \in S : i \in ById[j] <=> Rec[i].order < Rec[j].order  BY DEF ById
  <2>2. \A i, j \in S : Rec[i].order \in Nat /\ (Rec[i].order = Rec[j].order => i = j)
    BY RecordAssumption
  <2>3. \A i \in S : i \notin ById[i]  BY <2>1, <2>2
  <2>4. \A i, j \in S : i # j => i \in ById[j] \/ j \in ById[i]  BY <2>1, <2>2
  <2>5. \A i, j, k \in S : i \in ById[j] /\ j \in ById[k] => i \in ById[k]  BY <2>1, <2>2
  <2>. QED  BY <2>3, <2>4, <2>5 DEF IsOrder
<1>3. PICK t : t = Sorted(S, ById)  OBVIOUS
<1>4. PICK N : N = Cardinality(S)  OBVIOUS
<1>5. /\ t \in [1 .. N -> S] /\ N \in Nat
      /\ \A m, n \in 1 .. N : t[m] = t[n] => m = n
      /\ \A i \in S : \E n \in 1 .. N : t[n] = i
  BY <1>1, <1>2, <1>3, <1>4, SortedSeq
<1>6. t \in Seq(Ids) /\ Len(t) = N
  <2>1. t \in [1 .. N -> Ids]  BY <1>5
  <2>. QED  BY <1>5, <2>1
<1>7. Range(t) = S  BY <1>5 DEF Range
<1>. QED  BY <1>3, <1>5, <1>6, <1>7 DEF Distinct

LEMMA ConcatDistinct ==
    ASSUME NEW s, NEW t, Distinct(s), Distinct(t), Range(s) \cap Range(t) = {}
    PROVE  Distinct(s \o t) /\ Range(s \o t) = Range(s) \cup Range(t)
<1>1. /\ s \in Seq(Ids) /\ Len(s) \in Nat /\ DOMAIN s = 1 .. Len(s)
      /\ t \in Seq(Ids) /\ Len(t) \in Nat /\ DOMAIN t = 1 .. Len(t)
  BY DEF Distinct
<1>2. PICK u : u = s \o t  OBVIOUS
<1>3. /\ u \in Seq(Ids) /\ Len(u) = Len(s) + Len(t) /\ DOMAIN u = 1 .. Len(u)
      /\ \A n \in 1 .. Len(s) : u[n] = s[n]
      /\ \A n \in 1 .. Len(t) : u[Len(s) + n] = t[n]
  BY <1>1, <1>2
<1>4. /\ \A n \in 1 .. Len(s) : s[n] \in Range(s)
      /\ \A n \in 1 .. Len(t) : t[n] \in Range(t)
  BY <1>1 DEF Range
<1>5. \A n \in 1 .. Len(u) : \/ n \in 1 .. Len(s)
                             \/ n - Len(s) \in 1 .. Len(t) /\ n = Len(s) + (n - Len(s))
  BY <1>1, <1>3
<1>6. Range(u) = Range(s) \cup Range(t)
  <2>1. \A n \in DOMAIN u : u[n] \in Range(s) \cup Range(t)
    <3>1. ASSUME NEW n \in 1 .. Len(u)  PROVE u[n] \in Range(s) \cup Range(t)
      <4>1. CASE n \in 1 .. Len(s)  BY <1>3, <1>4, <4>1
      <4>2. CASE n - Len(s) \in 1 .. Len(t) /\ n = Len(s) + (n - Len(s))
        <5>1. PICK m \in 1 .. Len(t) : n = Len(s) + m  BY <4>2
        <5>. QED  BY <1>3, <1>4, <5>1
      <4>. QED  BY <1>5, <3>1, <4>1, <4>2
    <3>. QED  BY <1>3, <3>1
  <2>2. \A n \in DOMAIN s : s[n] \in Range(u)
    <3>1. \A n \in DOMAIN s : n \in DOMAIN u /\ u[n] = s[n]  BY <1>1, <1>3
    <3>. QED  BY <3>1 DEF Range
  <2>3. \A n \in DOMAIN t : t[n] \in Range(u)
    <3>1. \A n \in DOMAIN t : Len(s) + n \in DOMAIN u /\ u[Len(s) + n] = t[n]  BY <1>1, <1>3
    <3>. QED  BY <3>1 DEF Range
  <2>. QED  BY <2>1, <2>2, <2>3 DEF Range
<1>7. ASSUME NEW m \in 1 .. Len(u), NEW n \in 1 .. Len(u), u[m] = u[n]  PROVE m = n
  <2>1. CASE m \in 1 .. Len(s) /\ n \in 1 .. Len(s)
    <3>1. s[m] = s[n]  BY <1>3, <1>7, <2>1
    <3>. QED  BY <2>1, <3>1 DEF Distinct
  <2>2. CASE m \in 1 .. Len(s) /\ n \notin 1 .. Len(s)
    <3>1. PICK k \in 1 .. Len(t) : n = Len(s) + k  BY <1>5, <1>7, <2>2
    <3>2. u[m] \in Range(s) /\ u[n] \in Range(t)  BY <1>3, <1>4, <2>2, <3>1
    <3>. QED  BY <1>7, <3>2
  <2>3. CASE m \notin 1 .. Len(s) /\ n \in 1 .. Len(s)
    <3>1. PICK k \in 1 .. Len(t) : m = Len(s) + k  BY <1>5, <1>7, <2>3
    <3>2. u[m] \in Range(t) /\ u[n] \in Range(s)  BY <1>3, <1>4, <2>3, <3>1
    <3>. QED  BY <1>7, <3>2
  <2>4. CASE m \notin 1 .. Len(s) /\ n \notin 1 .. Len(s)
    <3>1. PICK k \in 1 .. Len(t) : m = Len(s) + k  BY <1>5, <1>7, <2>4
    <3>2. PICK l \in 1 .. Len(t) : n = Len(s) + l  BY <1>5, <1>7, <2>4
    <3>3. t[k] = t[l]  BY <1>3, <1>7, <3>1, <3>2
    <3>4. k = l  BY <3>3 DEF Distinct
    <3>. QED  BY <3>1, <3>2, <3>4
  <2>. QED  BY <2>1, <2>2, <2>3, <2>4
<1>. QED  BY <1>2, <1>3, <1>6, <1>7 DEF Distinct

\* What a manifest says of the candidates it was made from.
SelectInv(cands, req, sel, out) ==
    /\ Range(sel) \cap out = {} /\ Range(sel) \cup out = DOMAIN cands
    /\ req.required \subseteq Range(sel)
    /\ \A i \in out : Governance(i) => ~Eligible(cands, i)
    /\ Tokens(Range(sel)) <= req.budget

\* What is forced starts the selection and is never taken out of it.
LEMMA SelectFromInv ==
    ASSUME NEW cands, IsCands(cands), NEW req, req.budget \in Int, NEW E, NEW F, NEW O,
           F \subseteq E, E \subseteq DOMAIN cands, req.required \cap E \subseteq F,
           \A i \in DOMAIN cands : Eligible(cands, i) /\ Governance(i) => i \in F,
           NEW s, s = SelectFrom(cands, req, [eligible |-> E, forced |-> F, open |-> O]),
           s.error = None
    PROVE  Distinct(s.sel) /\ SelectInv(cands, req, s.sel, s.out)
<1>. DEFINE all == [eligible |-> E, forced |-> F, open |-> O]
            throws(e) == [error |-> e, sel |-> <<>>, out |-> {}, used |-> 0]
            start == [sel |-> ForcedOrder(req, all.forced), left |-> all.eligible \ all.forced,
                      out |-> DOMAIN cands \ all.eligible, used |-> Tokens(all.forced),
                      stop |-> FALSE, compared |-> 0, seen |-> 0]
            done(end) == IF end.compared > MaxComparisons
                         THEN throws("similarity_comparison_limit_exceeded")
                         ELSE [error |-> None, sel |-> end.sel, out |-> end.out, used |-> end.used]
            optional(st) == CHOOSE y \in {done(z) : z \in {Greedy(cands, all.open, req, st)}} : TRUE
<1>1. s = IF ~(req.required \subseteq all.eligible) THEN throws("required_context_unresolved")
          ELSE IF req.required \cap all.open # {} THEN throws("required_context_conflict")
          ELSE IF Tokens(all.forced) > req.budget THEN throws("required_context_over_budget")
          ELSE CHOOSE y \in {optional(z) : z \in {start}} : TRUE
  BY Zenon DEF SelectFrom, Once
<1>2. /\ throws("required_context_unresolved").error # None
      /\ throws("required_context_conflict").error # None
      /\ throws("required_context_over_budget").error # None
      /\ throws("similarity_comparison_limit_exceeded").error # None
  BY NoneAssumption
<1>3. all.eligible = E /\ all.forced = F  OBVIOUS
<1>. HIDE DEF all, throws
<1>4. /\ req.required \subseteq E /\ ~(Tokens(F) > req.budget)
      /\ s = CHOOSE y \in {optional(z) : z \in {start}} : TRUE
  <2>. HIDE DEF start, optional
  <2>. QED  BY <1>1, <1>2, <1>3
<1>5. PICK st : st = start  OBVIOUS
<1>o. PICK open : open = all.open  OBVIOUS
<1>6. PICK g : g = Greedy(cands, open, req, st)  OBVIOUS
<1>7. s = done(g)
  <2>1. s = optional(st)
    <3>. HIDE DEF optional, start
    <3>. QED  BY <1>4, <1>5
  <2>. HIDE DEF done, start
  <2>. QED  BY <1>6, <1>o, <2>1
<1>8. s = [error |-> None, sel |-> g.sel, out |-> g.out, used |-> g.used]
  <2>. HIDE DEF start, optional
  <2>. QED  BY <1>2, <1>7
<1>9. /\ req.required \subseteq F /\ F \subseteq E /\ E \subseteq DOMAIN cands /\ DOMAIN cands \subseteq Ids
  BY <1>4 DEF IsCands
<1>10. Distinct(ForcedOrder(req, F)) /\ Range(ForcedOrder(req, F)) = F
  <2>1. PICK R : R = req.required  OBVIOUS
  <2>2. R \subseteq Ids /\ F \ R \subseteq Ids /\ R \cap (F \ R) = {} /\ R \cup (F \ R) = F  BY <1>9, <2>1
  <2>3. Distinct(Sorted(R, ById)) /\ Range(Sorted(R, ById)) = R  BY <2>2, SortedById
  <2>4. Distinct(Sorted(F \ R, ById)) /\ Range(Sorted(F \ R, ById)) = F \ R  BY <2>2, SortedById
  <2>5. PICK a, b : a = Sorted(R, ById) /\ b = Sorted(F \ R, ById)  OBVIOUS
  <2>6. Distinct(a \o b) /\ Range(a \o b) = F  BY <2>2, <2>3, <2>4, <2>5, ConcatDistinct
  <2>. QED  BY <2>1, <2>5, <2>6 DEF ForcedOrder
<1>11. LoopInv(cands, req, F, st)
  <2>1. /\ st.sel = ForcedOrder(req, F) /\ st.left = E \ F /\ st.out = DOMAIN cands \ E
        /\ st.used = Tokens(F)
        /\ st \in [sel : {st.sel}, left : {st.left}, out : {st.out}, used : {st.used},
                   stop : {st.stop}, compared : {st.compared}, seen : {st.seen}]
    BY <1>3, <1>5
  <2>2. st.used <= req.budget
    <3>1. Tokens(F) \in Int  BY <1>9, TokensType
    <3>. QED  BY <1>4, <2>1, <3>1
  <2>. HIDE DEF start, optional, done
  <2>3. /\ Distinct(st.sel) /\ F \subseteq Range(st.sel) /\ Range(st.sel) = F
    BY <1>10, <2>1
  <2>4. /\ Range(st.sel) \cup st.left \cup st.out = DOMAIN cands
        /\ Range(st.sel) \cap st.left = {} /\ Range(st.sel) \cap st.out = {}
        /\ st.left \cap st.out = {} /\ st.left \cap F = {} /\ st.out \cap F = {}
    BY <1>9, <2>1, <2>3
  <2>. QED  BY <2>1, <2>2, <2>3, <2>4 DEF LoopInv
<1>. HIDE DEF start, optional, done
<1>12. PICK end : /\ LoopInv(cands, req, F, end)
                  /\ g.sel = end.sel /\ g.out = end.out \cup end.left
  <2>1. IsCands(cands) /\ req.budget \in Int  OBVIOUS
  <2>2. LoopInv(cands, req, F, st)  BY <1>11
  <2>3. \E end : /\ LoopInv(cands, req, F, end)
                 /\ Greedy(cands, open, req, st).sel = end.sel
                 /\ Greedy(cands, open, req, st).out = end.out \cup end.left
    BY <2>1, <2>2, GreedyInv
  <2>. QED  BY <1>6, <2>3
<1>14. s.sel = end.sel /\ s.out = end.out \cup end.left
  <2>1. s.sel = g.sel /\ s.out = g.out  BY <1>8
  <2>. QED  BY <1>12, <2>1
<1>15. Distinct(s.sel) /\ F \subseteq Range(s.sel) /\ Tokens(Range(s.sel)) <= req.budget
  BY <1>12, <1>14 DEF LoopInv
<1>16. /\ Range(s.sel) \cap s.out = {} /\ Range(s.sel) \cup s.out = DOMAIN cands /\ s.out \cap F = {}
  BY <1>12, <1>14 DEF LoopInv
<1>17. \A i \in s.out : Governance(i) => ~Eligible(cands, i)  BY <1>16
<1>. QED  BY <1>9, <1>15, <1>16, <1>17 DEF SelectInv

\* selectContextCandidates.
LEMMA SelectIsSound ==
    ASSUME NEW cands, IsCands(cands), NEW req, req.budget \in Int,
           NEW s, s = Select(cands, req), s.error = None
    PROVE  Distinct(s.sel) /\ SelectInv(cands, req, s.sel, s.out)
<1>. DEFINE of(E) == [eligible |-> E, forced |-> {i \in E: i \in req.required \/ Governance(i)},
                      open |-> Conflicting(E)]
            from(all) == SelectFrom(cands, req, all)
            eligible == {i \in DOMAIN cands : Eligible(cands, i)}
<1>1. s = CHOOSE y \in {from(z) : z \in {CHOOSE x \in {of(z) : z \in {eligible}} : TRUE}} : TRUE
  BY Zenon DEF Select, Once
<1>2. PICK E : E = eligible  OBVIOUS
<1>3. s = from(of(E))
  <2>. HIDE DEF of, from, eligible
  <2>. QED  BY <1>1, <1>2
<1>4. PICK F : F = {i \in E : i \in req.required \/ Governance(i)}  OBVIOUS
<1>5. PICK O : O = Conflicting(E)  OBVIOUS
<1>6. s = SelectFrom(cands, req, [eligible |-> E, forced |-> F, open |-> O])
  BY <1>3, <1>4, <1>5
<1>7. /\ F \subseteq E /\ E \subseteq DOMAIN cands /\ req.required \cap E \subseteq F
      /\ \A i \in DOMAIN cands : Eligible(cands, i) /\ Governance(i) => i \in F
  BY <1>2, <1>4
<1>. HIDE DEF eligible, of, from
<1>. QED  BY <1>6, <1>7, SelectFromInv

LEMMA SectionType ==
    ASSUME NEW i  PROVE Section(i) \in Nat
<1>1. /\ Sections["policy"] \in Nat /\ Sections["constraint"] \in Nat
      /\ Sections["evidence"] \in Nat /\ Sections["other"] \in Nat
  BY DEF Sections
<1>2. CASE Governance(i)
  <2>1. Rec[i].kind = "policy" \/ Rec[i].kind = "constraint"  BY <1>2 DEF Governance
  <2>. QED  BY <1>1, <1>2, <2>1 DEF Section
<1>3. CASE ~Governance(i)
  <2>1. Category(i) = "evidence" \/ Category(i) = "other"  BY <1>3 DEF Governance, Category
  <2>. QED  BY <1>1, <1>3, <2>1 DEF Section
<1>. QED  BY <1>2, <1>3

\* buildAssembly permutes what was selected.
LEMMA AssembleSame ==
    ASSUME NEW s, Distinct(s)
    PROVE  Distinct(Assemble(s)) /\ Range(Assemble(s)) = Range(s)
<1>. DEFINE at == 1 .. Len(s)
            before == [p \in at |-> {q \in at : \/ Section(s[q]) < Section(s[p])
                                                \/ Section(s[q]) = Section(s[p]) /\ q < p}]
            sorted == Sorted(at, before)
<1>1. s \in Seq(Ids) /\ Len(s) \in Nat /\ DOMAIN s = at  BY DEF Distinct
<1>2. Assemble(s) = [n \in at |-> s[sorted[n]]]  BY Zenon DEF Assemble
<1>3. IsFiniteSet(at) /\ Cardinality(at) = Len(s)  BY <1>1, FS_Interval
<1>4. IsOrder(at, before)
  <2>. DEFINE num == [p \in at |-> Section(s[p])]
  <2>1. \A p, q \in at : q \in before[p] <=> (num[q] < num[p] \/ (num[q] = num[p] /\ q < p))
    <3>1. ASSUME NEW p \in at, NEW q \in at
          PROVE  q \in before[p] <=> (Section(s[q]) < Section(s[p])
                                        \/ (Section(s[q]) = Section(s[p]) /\ q < p))
      OBVIOUS
    <3>2. \A p \in at : num[p] = Section(s[p])  OBVIOUS
    <3>. HIDE DEF before, num, at
    <3>. QED  BY <3>1, <3>2
  <2>2. \A p \in at : num[p] \in Nat /\ p \in Nat  BY <1>1, SectionType
  <2>. HIDE DEF before, num, at
  <2>3. \A p \in at : p \notin before[p]  BY <2>1, <2>2
  <2>4. ASSUME NEW p \in at, NEW q \in at, p # q
        PROVE  p \in before[q] \/ q \in before[p]
    <3>1. num[p] < num[q] \/ num[q] < num[p] \/ (num[p] = num[q] /\ (p < q \/ q < p))
      BY <2>2, <2>4
    <3>. QED  BY <2>1, <3>1
  <2>5. \A p, q, r \in at : p \in before[q] /\ q \in before[r] => p \in before[r]  BY <2>1, <2>2
  <2>. QED  BY <2>3, <2>4, <2>5 DEF IsOrder
<1>. HIDE DEF before
<1>5. PICK N, A, t, c : N = Len(s) /\ A = at /\ t = sorted /\ c = Assemble(s)  OBVIOUS
<1>6. /\ t \in [A -> A]
      /\ \A m, n \in A : t[m] = t[n] => m = n
      /\ \A i \in A : \E n \in A : t[n] = i
  <2>1. /\ sorted \in [1 .. Cardinality(at) -> at]
        /\ \A m, n \in 1 .. Cardinality(at) : sorted[m] = sorted[n] => m = n
        /\ \A i \in at : \E n \in 1 .. Cardinality(at) : sorted[n] = i
    <3>. HIDE DEF at, sorted
    <3>1. sorted = Sorted(at, before)  BY DEF sorted
    <3>. QED  BY <1>3, <1>4, <3>1, SortedSeq
  <2>2. 1 .. Cardinality(at) = at  BY <1>3
  <2>. HIDE DEF at, sorted
  <2>. QED  BY <1>5, <2>1, <2>2
<1>7. c = [n \in A |-> s[t[n]]] /\ A = 1 .. N /\ N \in Nat /\ s \in Seq(Ids) /\ DOMAIN s = A
  BY <1>1, <1>2, <1>5
<1>8. \A n \in A : s[n] \in Ids  BY <1>1, <1>7
<1>. HIDE DEF at, sorted
<1>9. c \in [1 .. N -> Ids]  BY <1>6, <1>7, <1>8
<1>10. c \in Seq(Ids) /\ Len(c) = N  BY <1>7, <1>9
<1>11. Range(c) = Range(s)
  <2>1. \A n \in A : c[n] = s[t[n]] /\ t[n] \in A  BY <1>6, <1>7
  <2>2. DOMAIN c = A  BY <1>7
  <2>. QED  BY <1>6, <1>7, <2>1, <2>2 DEF Range
<1>12. ASSUME NEW m \in A, NEW n \in A, c[m] = c[n]  PROVE m = n
  <2>1. s[t[m]] = s[t[n]] /\ t[m] \in A /\ t[n] \in A  BY <1>6, <1>7, <1>12
  <2>2. t[m] = t[n]  BY <1>5, <1>7, <2>1 DEF Distinct
  <2>. QED  BY <1>6, <1>12, <2>2
<1>. QED  BY <1>5, <1>7, <1>10, <1>11, <1>12 DEF Distinct

LEMMA DistinctLen ==
    ASSUME NEW s, Distinct(s)
    PROVE  Len(s) = Cardinality(Range(s))
<1>1. s \in Seq(Ids) /\ Len(s) \in Nat /\ DOMAIN s = 1 .. Len(s) /\ s \in [1 .. Len(s) -> Ids]
  BY DEF Distinct
<1>2. PICK N, A, R : N = Len(s) /\ A = 1 .. N /\ R = Range(s)  OBVIOUS
<1>3. IsFiniteSet(A) /\ Cardinality(A) = N
  <2>0. N \in Nat  BY <1>1, <1>2
  <2>1. IsFiniteSet(1 .. N) /\ Cardinality(1 .. N) = N  BY <2>0, FS_Interval
  <2>. QED  BY <1>2, <2>1
<1>4. s \in [A -> R]
  <2>1. s = [n \in A |-> s[n]]  BY <1>1, <1>2
  <2>2. \A n \in A : s[n] \in R  BY <1>1, <1>2 DEF Range
  <2>. QED  BY <2>1, <2>2
<1>5. s \in Injection(A, R)
  <2>1. \A m, n \in A : s[m] = s[n] => m = n  BY <1>2 DEF Distinct
  <2>. QED  BY <1>4, <2>1, Fun_IsInj
<1>6. s \in Surjection(A, R)
  <2>1. \A r \in R : \E n \in A : s[n] = r  BY <1>1, <1>2 DEF Range
  <2>. QED  BY <1>4, <2>1, Fun_IsSurj
<1>7. s \in Bijection(A, R)  BY <1>5, <1>6, Fun_IsBij
<1>8. ExistsBijection(A, R)  BY <1>7 DEF ExistsBijection
<1>9. Cardinality(A) = Cardinality(R)  BY <1>3, <1>8, FS_Bijection
<1>. QED  BY <1>2, <1>3, <1>9

-----------------------------------------------------------------------------
(* The manifests of a state.                                               *)

\* The manifest of a compilation accounts for its candidates.
ManifestSound(k) ==
    LET m == k.man
        sel == Range(m.sel)
    IN  /\ Len(m.sel) = Cardinality(sel)
        /\ SelectInv(m.cands, k.req, m.sel, m.out)

\* Candidates come from the rows of sources or from the caller; a manifest is there
\* once the selection is done, and is sound.
Sound(k) ==
    /\ IsCands(k.cand) /\ \A i \in DOMAIN k.cand : IsCandidate(k.cand[i])
    /\ k.pc \in {"idle", "plan", "query"} => k.man = None
    /\ k.pc \in {"plan", "query"} => k.req \in Requests
    /\ k.pc = "query" => k.req.plan[k.at].kind \in Registered
    /\ k.got \notin {None, Hung} => DOMAIN k.got.rows \subseteq Ids
    /\ k.man # None => ManifestSound(k)

SelInv == \A c \in Compiles : Sound(call[c])

LEMMA NewCallSound ==
    ASSUME NEW pc, NEW why, pc \notin {"plan", "query"}
    PROVE  Sound(NewCall(pc, why))
<1>. DEFINE k == NewCall(pc, why)
<1>1. k.pc = pc /\ k.cand = Nothing /\ k.got = None /\ k.man = None  BY DEF NewCall
<1>2. DOMAIN Nothing = {}  BY DEF Nothing
<1>3. IsCands(k.cand) /\ \A i \in DOMAIN k.cand : IsCandidate(k.cand[i])
  <2>. HIDE DEF k
  <2>. QED  BY <1>1, <1>2 DEF IsCands
<1>. HIDE DEF k
<1>. QED  BY <1>1, <1>3 DEF Sound, k

LEMMA SoundStep ==
    ASSUME IInv, SelInv, NEW c \in Compiles, NEW l, call' = [call EXCEPT ![c] = l], Sound(l)
    PROVE  SelInv'
<1>1. call'[c] = l /\ \A d \in Compiles : d # c => call'[d] = call[d]  BY OneMoves
<1>. QED  BY <1>1 DEF SelInv

LEMMA FailSound ==
    ASSUME IInv, SelInv, NEW c \in Compiles, NEW code, Fail(c, code)
    PROVE  SelInv'
BY NewCallSound, SoundStep DEF Fail

\* A compilation that goes on to its files keeps its manifest.
LEMMA GotoSound ==
    ASSUME IInv, SelInv, NEW c \in Compiles, NEW pc, Goto(c, pc), pc \notin {"idle", "plan", "query"}
    PROVE  SelInv'
<1>1. PICK k : k = call[c]  OBVIOUS
<1>2. PICK l : l = [k EXCEPT !.pc = pc]  OBVIOUS
<1>3. IsCall(k) /\ Sound(k)  BY <1>1 DEF IInv, CallInv, SelInv
<1>4. call' = [call EXCEPT ![c] = l]  BY <1>1, <1>2 DEF IInv, Goto
<1>5. l \in [pc : {pc}, why : {k.why}, req : {k.req}, at : {k.at}, got : {k.got},
             cand : {k.cand}, reports : {k.reports}, man : {k.man}, aborted : {k.aborted}]
  BY <1>2, <1>3 DEF IsCall
<1>6. /\ l.req = k.req /\ l.cand = k.cand /\ l.got = k.got /\ l.pc = pc /\ l.man = k.man
  BY <1>5
<1>7. Sound(l)  BY <1>3, <1>6 DEF Sound, ManifestSound
<1>. QED  BY <1>4, <1>7, SoundStep

LEMMA ReportSound ==
    ASSUME IInv, SelInv, NEW c \in Compiles, call[c].pc \in {"plan", "query"},
           NEW status, NEW code, NEW cand, IsCands(cand),
           \A i \in DOMAIN cand : IsCandidate(cand[i]), Report(c, status, code, cand)
    PROVE  SelInv'
<1>1. CASE Fail(c, code)  BY <1>1, FailSound
<1>2. CASE call' = [call EXCEPT ![c].pc = "plan", ![c].got = None, ![c].at = @ + 1,
                      ![c].cand = cand, ![c].reports = Append(@, status)]
  <2>1. PICK k : k = call[c]  OBVIOUS
  <2>2. PICK l : l = [k EXCEPT !.pc = "plan", !.got = None, !.at = k.at + 1, !.cand = cand,
                              !.reports = Append(k.reports, status)]
    OBVIOUS
  <2>3. IsCall(k) /\ Sound(k) /\ k.pc \in {"plan", "query"}  BY <2>1 DEF IInv, CallInv, SelInv
  <2>4. call' = [call EXCEPT ![c] = l]  BY <1>2, <2>1, <2>2 DEF IInv
  <2>5. l \in [pc : {"plan"}, why : {k.why}, req : {k.req}, at : {k.at + 1}, got : {None},
               cand : {cand}, reports : {Append(k.reports, status)}, man : {k.man},
               aborted : {k.aborted}]
    BY <2>2, <2>3 DEF IsCall
  <2>6. /\ l.pc = "plan" /\ l.req = k.req /\ l.cand = cand /\ l.got = None /\ l.man = k.man
    BY <2>5
  <2>7. Sound(l)  BY <2>3, <2>6 DEF Sound
  <2>. QED  BY <2>4, <2>7, SoundStep
<1>. QED  BY <1>1, <1>2 DEF Report

LEMMA BeginSound ==
    ASSUME IInv, SelInv, NEW c \in Compiles, Begin(c)
    PROVE  SelInv'
<1>1. PICK r \in Requests :
         call' = [call EXCEPT ![c].pc = "plan", ![c].req = r,
                              ![c].cand = [i \in r.direct |->
                                  [version |-> store[i].version, status |-> store[i].status,
                                   hits |-> [k \in {"direct"} |-> 1]]]]
  BY DEF Begin
<1>2. PICK f : f = [i \in r.direct |-> [version |-> store[i].version, status |-> store[i].status,
                                       hits |-> [k \in {"direct"} |-> 1]]]
  OBVIOUS
<1>3. IsCands(f) /\ \A i \in DOMAIN f : IsCandidate(f[i])
  <2>1. r.direct \subseteq Ids  BY ContextAssumption
  <2>2. DOMAIN f = r.direct /\ \A i \in r.direct : DOMAIN f[i].hits = {"direct"}  BY <1>2
  <2>3. \A i \in r.direct : IsCandidate(f[i])  BY <1>2 DEF IsCandidate
  <2>. QED  BY <2>1, <2>2, <2>3 DEF IsCands
<1>4. PICK k : k = call[c]  OBVIOUS
<1>5. PICK l : l = [k EXCEPT !.pc = "plan", !.req = r, !.cand = f]  OBVIOUS
<1>6. IsCall(k) /\ Sound(k) /\ k.pc = "idle"  BY <1>4 DEF IInv, CallInv, SelInv, Begin
<1>7. call' = [call EXCEPT ![c] = l]  BY <1>1, <1>2, <1>4, <1>5 DEF IInv
<1>8. l \in [pc : {"plan"}, why : {k.why}, req : {r}, at : {k.at}, got : {k.got},
             cand : {f}, reports : {k.reports}, man : {k.man}, aborted : {k.aborted}]
  BY <1>5, <1>6 DEF IsCall
<1>9. /\ l.pc = "plan" /\ l.req = r /\ l.cand = f /\ l.got = k.got /\ l.man = k.man
  BY <1>8
<1>10. Sound(l)  BY <1>3, <1>6, <1>9 DEF Sound
<1>. QED  BY <1>7, <1>10, SoundStep

\* The signal, the answer of a source and the turn to a source are noted.
LEMMA NotedSound ==
    ASSUME IInv, SelInv, NEW c \in Compiles, call[c].pc \in {"plan", "query"}, NEW x,
           \/ call' = [call EXCEPT ![c].aborted = x]
           \/ /\ call' = [call EXCEPT ![c].got = x]
              /\ x \notin {None, Hung} => DOMAIN x.rows \subseteq Ids
           \/ /\ call' = [call EXCEPT ![c].pc = "query"]
              /\ Entry(c).kind \in Registered
    PROVE  SelInv'
<1>1. PICK k : k = call[c]  OBVIOUS
<1>2. PICK l : /\ call' = [call EXCEPT ![c] = l]
               /\ \/ l = [k EXCEPT !.aborted = x]
                  \/ l = [k EXCEPT !.got = x] /\ (x \notin {None, Hung} => DOMAIN x.rows \subseteq Ids)
                  \/ l = [k EXCEPT !.pc = "query"] /\ k.req.plan[k.at].kind \in Registered
  BY <1>1 DEF IInv, Entry, Plan
<1>3. IsCall(k) /\ Sound(k) /\ k.pc \in {"plan", "query"}  BY <1>1 DEF IInv, CallInv, SelInv
<1>4. PICK p, g, a : /\ l \in [pc : {p}, why : {k.why}, req : {k.req}, at : {k.at}, got : {g},
                               cand : {k.cand}, reports : {k.reports}, man : {k.man},
                               aborted : {a}]
                     /\ p \in {"plan", "query"}
                     /\ p = "query" => k.req.plan[k.at].kind \in Registered
                     /\ g \notin {None, Hung} => DOMAIN g.rows \subseteq Ids
  <2>0. /\ k.pc = "query" => k.req.plan[k.at].kind \in Registered
        /\ k.got \notin {None, Hung} => DOMAIN k.got.rows \subseteq Ids
    BY <1>3 DEF Sound
  <2>1. CASE l = [k EXCEPT !.aborted = x]
    <3>1. l \in [pc : {k.pc}, why : {k.why}, req : {k.req}, at : {k.at}, got : {k.got},
                 cand : {k.cand}, reports : {k.reports}, man : {k.man}, aborted : {x}]
      BY <1>3, <2>1 DEF IsCall
    <3>. QED  BY <1>3, <2>0, <3>1
  <2>2. CASE l = [k EXCEPT !.got = x] /\ (x \notin {None, Hung} => DOMAIN x.rows \subseteq Ids)
    <3>1. l \in [pc : {k.pc}, why : {k.why}, req : {k.req}, at : {k.at}, got : {x},
                 cand : {k.cand}, reports : {k.reports}, man : {k.man}, aborted : {k.aborted}]
      BY <1>3, <2>2 DEF IsCall
    <3>. QED  BY <1>3, <2>0, <2>2, <3>1
  <2>3. CASE l = [k EXCEPT !.pc = "query"] /\ k.req.plan[k.at].kind \in Registered
    <3>1. l \in [pc : {"query"}, why : {k.why}, req : {k.req}, at : {k.at}, got : {k.got},
                 cand : {k.cand}, reports : {k.reports}, man : {k.man}, aborted : {k.aborted}]
      BY <1>3, <2>3 DEF IsCall
    <3>. QED  BY <1>3, <2>0, <2>3, <3>1
  <2>. QED  BY <1>2, <2>1, <2>2, <2>3
<1>5. /\ l.req = k.req /\ l.at = k.at /\ l.cand = k.cand /\ l.got = g /\ l.pc = p /\ l.man = k.man
  BY <1>4
<1>6. Sound(l)  BY <1>3, <1>4, <1>5 DEF Sound
<1>. QED  BY <1>2, <1>6, SoundStep

\* A source returns records there are.
LEMMA RowsIn ==
    ASSUME NEW c  PROVE DOMAIN Rows(c) \subseteq Ids
<1>. DEFINE exact == Entry(c).kind = "exact"
            found == {i \in Ids: Visible(i) /\ IF exact THEN i \in call[c].req.required ELSE Rec[i].lexical > 0}
            rank == [i \in found |-> Rank(i, found, IF exact THEN ById ELSE ByScore)]
            kept == {j \in found: exact \/ rank[j] <= Entry(c).limit}
<1>1. Rows(c) = [i \in kept |-> [version |-> store[i].version, status |-> store[i].status, rank |-> rank[i]]]
  BY Zenon DEF Rows
<1>2. kept \subseteq Ids  OBVIOUS
<1>. HIDE DEF kept, rank
<1>. QED  BY <1>1, <1>2

LEMMA SourceSound ==
    ASSUME IInv, SelInv, NEW c \in Compiles,
           \/ Abort(c) \/ Ask(c) \/ Hang(c) \/ Answer(c) \/ QueryFails(c)
           \/ QueryCancelled(c) \/ Deadline(c)
    PROVE  SelInv'
<1>0. IsCands(call[c].cand) /\ \A i \in DOMAIN call[c].cand : IsCandidate(call[c].cand[i])
  BY DEF SelInv, Sound
<1>1. CASE Abort(c)  BY <1>1, NotedSound DEF Abort
<1>2. CASE Ask(c)
  <2>1. call[c].pc = "plan"  BY <1>2 DEF Ask
  <2>2. CASE Fail(c, "candidate_source_cancelled")  BY <2>2, FailSound
  <2>3. CASE Report(c, "unavailable", "candidate_source_required_unavailable", call[c].cand)
    BY <1>0, <2>1, <2>3, ReportSound
  <2>4. CASE Report(c, "denied", "candidate_source_required_denied", call[c].cand)
    BY <1>0, <2>1, <2>4, ReportSound
  <2>5. CASE Entry(c).kind \in Registered /\ Goto(c, "query")
    BY <2>1, <2>5, NotedSound DEF Goto
  <2>. QED  BY <1>2, <2>2, <2>3, <2>4, <2>5 DEF Ask
<1>3. CASE Hang(c)  BY <1>3, NotedSound DEF Hang
<1>4. CASE Answer(c)
  <2>1. call[c].pc = "query"  BY <1>4 DEF Answer
  <2>2. PICK bad \in BOOLEAN : call' = [call EXCEPT ![c].got = [bad |-> bad, rows |-> Rows(c)]]
    BY <1>4 DEF Answer
  <2>3. PICK x : x = [bad |-> bad, rows |-> Rows(c)]  OBVIOUS
  <2>4. DOMAIN x.rows \subseteq Ids  BY <2>3, RowsIn
  <2>. QED  BY <2>1, <2>2, <2>3, <2>4, NotedSound
<1>5. CASE QueryFails(c)  BY <1>0, <1>5, ReportSound DEF QueryFails
<1>6. CASE QueryCancelled(c)  BY <1>0, <1>6, ReportSound DEF QueryCancelled
<1>7. CASE Deadline(c)  BY <1>0, <1>7, ReportSound DEF Deadline
<1>. QED  BY <1>1, <1>2, <1>3, <1>4, <1>5, <1>6, <1>7

\* mergeSourceOutput adds hits of a registered source to the candidates.
LEMMA MergeSound ==
    ASSUME IInv, SelInv, NEW c \in Compiles, Merge(c)
    PROVE  SelInv'
<1>1. call[c].pc = "query" /\ call[c].got \notin {None, Hung}  BY DEF Merge
<1>2. PICK got, cand, new, kind : /\ got = call[c].got /\ cand = call[c].cand
                                  /\ new = Staged(got) /\ kind = Entry(c).kind
  OBVIOUS
<1>3. PICK up : up = Upserted(cand, new, got, kind)  OBVIOUS
<1>4. CASE Fail(c, "candidate_identity_conflict")  BY <1>4, FailSound
<1>5. CASE Report(c, IF got.bad THEN "invalid_output" ELSE "succeeded",
                  "candidate_source_required_failed", up)
  <2>1. /\ IsCands(cand) /\ \A i \in DOMAIN cand : IsCandidate(cand[i])
        /\ kind \in {"exact", "lexical"} /\ DOMAIN got.rows \subseteq Ids
    <3>1. Sound(call[c])  BY DEF SelInv
    <3>. QED  BY <1>1, <1>2, <3>1, RegistryAssumption DEF Sound, Entry, Plan
  <2>2. new \subseteq Ids  BY <1>2, <2>1 DEF Staged
  <2>3. DOMAIN up = DOMAIN cand \cup new  BY <1>3 DEF Upserted
  <2>4. ASSUME NEW i \in DOMAIN up
        PROVE  IsCandidate(up[i]) /\ DOMAIN up[i].hits \subseteq {"direct", "exact", "lexical"}
    <3>1. CASE i \notin new
      <4>1. up[i] = cand[i] /\ i \in DOMAIN cand  BY <1>3, <2>3, <2>4, <3>1 DEF Upserted
      <4>. QED  BY <2>1, <4>1 DEF IsCands
    <3>2. CASE i \in new /\ i \in DOMAIN cand
      <4>1. PICK h : h = With(cand[i].hits, kind, got.rows[i].rank)  OBVIOUS
      <4>2. up[i] = [cand[i] EXCEPT !.hits = h]  BY <1>3, <3>2, <4>1 DEF Upserted
      <4>3. up[i] \in [version : {cand[i].version}, status : {cand[i].status}, hits : {h}]
        BY <2>1, <3>2, <4>2 DEF IsCandidate
      <4>4. IsCandidate(up[i]) /\ up[i].hits = h  BY <4>3 DEF IsCandidate
      <4>5. DOMAIN h = DOMAIN cand[i].hits \cup {kind}  BY <4>1, WithKey
      <4>. QED  BY <2>1, <3>2, <4>4, <4>5 DEF IsCands
    <3>3. CASE i \in new /\ i \notin DOMAIN cand
      <4>1. PICK h : h = With(Nothing, kind, got.rows[i].rank)  OBVIOUS
      <4>2. up[i] = [version |-> got.rows[i].version, status |-> got.rows[i].status, hits |-> h]
        BY <1>3, <2>3, <3>3, <4>1 DEF Upserted
      <4>3. IsCandidate(up[i]) /\ up[i].hits = h  BY <4>2 DEF IsCandidate
      <4>4. DOMAIN Nothing = {}  BY DEF Nothing
      <4>5. DOMAIN h = DOMAIN Nothing \cup {kind}  BY <4>1, WithKey
      <4>. QED  BY <2>1, <4>3, <4>4, <4>5
    <3>. QED  BY <2>3, <2>4, <3>1, <3>2, <3>3
  <2>5. IsCands(up)  BY <2>1, <2>2, <2>3, <2>4 DEF IsCands
  <2>6. \A i \in DOMAIN up : IsCandidate(up[i])  BY <2>4
  <2>. QED  BY <1>1, <1>5, <2>5, <2>6, ReportSound
<1>. QED  BY <1>2, <1>3, <1>4, <1>5 DEF Merge

\* The preselection keeps some of the candidates as they are.
LEMMA CappedCands ==
    ASSUME NEW c, IsCands(call[c].cand)
    PROVE  IsCands(Capped(c))
<1>1. PICK cand : cand = call[c].cand  OBVIOUS
<1>2. \E S \in SUBSET DOMAIN cand : Capped(c) = cand \/ Capped(c) = [i \in S |-> cand[i]]
  BY <1>1, Zenon DEF Capped, Restrict
<1>. QED  BY <1>1, <1>2 DEF IsCands

\* The manifest is made of a selection that ended without an error.
LEMMA CompileSound ==
    ASSUME IInv, SelInv, NEW c \in Compiles, Compile(c)
    PROVE  SelInv'
<1>1. PICK k : k = call[c]  OBVIOUS
<1>2. IsCall(k) /\ Sound(k) /\ k.pc = "plan"  BY <1>1 DEF IInv, CallInv, SelInv, Compile
<1>3. PICK cands, s, a :
         /\ cands = Capped(c) /\ s = Select(cands, k.req) /\ a = Assemble(s.sel)
         /\ \/ \E code : Fail(c, code)
            \/ /\ CompileError(c, cands, s) = None
               /\ call' = [call EXCEPT ![c].pc = "append",
                     ![c].man = [id |-> ManifestId(c, a), fp |-> Fingerprint(c, cands, s),
                                 cands |-> cands, sel |-> a, out |-> s.out,
                                 used |-> MapThenSumSet(Represented, Range(a))]]
  BY <1>1 DEF Compile
<1>4. CASE \E code : Fail(c, code)  BY <1>4, FailSound
<1>5. CASE /\ CompileError(c, cands, s) = None
           /\ call' = [call EXCEPT ![c].pc = "append",
                 ![c].man = [id |-> ManifestId(c, a), fp |-> Fingerprint(c, cands, s),
                             cands |-> cands, sel |-> a, out |-> s.out,
                             used |-> MapThenSumSet(Represented, Range(a))]]
  <2>1. s.error = None
    <3>1. CompileError(c, cands, s) = None  BY <1>5
    <3>. QED  BY <3>1, NoneAssumption DEF CompileError
  <2>2. IsCands(cands) /\ k.req.budget \in Int
    <3>1. IsCands(cands)  BY <1>1, <1>2, <1>3, CappedCands DEF Sound
    <3>2. k.req \in Requests  BY <1>2 DEF Sound
    <3>. QED  BY <3>1, <3>2, ContextAssumption
  <2>3. Distinct(s.sel) /\ SelectInv(cands, k.req, s.sel, s.out)
    BY <1>3, <2>1, <2>2, SelectIsSound
  <2>4. Distinct(a) /\ Range(a) = Range(s.sel)  BY <1>3, <2>3, AssembleSame
  <2>5. Len(a) = Cardinality(Range(a))  BY <2>4, DistinctLen
  <2>6. SelectInv(cands, k.req, a, s.out)  BY <2>3, <2>4 DEF SelectInv
  <2>7. PICK m : m = [id |-> ManifestId(c, a), fp |-> Fingerprint(c, cands, s),
                      cands |-> cands, sel |-> a, out |-> s.out,
                      used |-> MapThenSumSet(Represented, Range(a))]
    OBVIOUS
  <2>8. m.cands = cands /\ m.sel = a /\ m.out = s.out  BY <2>7
  <2>9. PICK l : l = [k EXCEPT !.pc = "append", !.man = m]  OBVIOUS
  <2>10. call' = [call EXCEPT ![c] = l]  BY <1>1, <1>5, <2>7, <2>9 DEF IInv
  <2>11. l \in [pc : {"append"}, why : {k.why}, req : {k.req}, at : {k.at}, got : {k.got},
                cand : {k.cand}, reports : {k.reports}, man : {m}, aborted : {k.aborted}]
    BY <1>2, <2>9 DEF IsCall
  <2>12. /\ l.req = k.req /\ l.cand = k.cand /\ l.got = k.got /\ l.pc = "append" /\ l.man = m
    BY <2>11
  <2>13. ManifestSound(l)  BY <2>5, <2>6, <2>8, <2>12 DEF ManifestSound
  <2>14. Sound(l)  BY <1>2, <2>12, <2>13 DEF Sound
  <2>. QED  BY <2>10, <2>14, SoundStep
<1>. QED  BY <1>3, <1>4, <1>5

\* Writing, reading back and announcing leave the manifest as it is.
LEMMA FilesSound ==
    ASSUME IInv, SelInv, NEW c \in Compiles,
           AppendCheck(c) \/ AppendWrite(c) \/ ReadBack(c) \/ Announce(c)
    PROVE  SelInv'
<1>1. \/ \E code : Fail(c, code)
      \/ \E pc \in {"get", "write", "emit"} : Goto(c, pc)
      \/ call' = [call EXCEPT ![c] = NewCall("done", None)]
  BY DEF AppendCheck, AppendWrite, ReadBack, Announce
<1>2. CASE \E code : Fail(c, code)  BY <1>2, FailSound
<1>3. CASE \E pc \in {"get", "write", "emit"} : Goto(c, pc)  BY <1>3, GotoSound
<1>4. CASE call' = [call EXCEPT ![c] = NewCall("done", None)]
  BY <1>4, NewCallSound, SoundStep
<1>. QED  BY <1>1, <1>2, <1>3, <1>4

LEMMA NextSound ==
    ASSUME IInv, SelInv, [Next]_vars
    PROVE  SelInv'
<1>1. CASE UNCHANGED call  BY <1>1 DEF SelInv
<1>2. CASE UNCHANGED vars  BY <1>1, <1>2 DEF vars
<1>3. CASE \E i \in Ids : Edit(i)  BY <1>1, <1>3 DEF Edit
<1>4. ASSUME NEW c \in Compiles, Query(c)  PROVE SelInv'
  BY <1>4, SourceSound, MergeSound DEF Query
<1>. QED
  BY <1>2, <1>3, <1>4, BeginSound, SourceSound, CompileSound, FilesSound DEF Next

-----------------------------------------------------------------------------
(* The theorems. *)

LEMMA InitInv == Init => IInv
<1>. SUFFICES ASSUME Init  PROVE IInv  OBVIOUS
<1>1. \A c \in Compiles : call[c] = NewCall("idle", None)  BY DEF Init
<1>2. \A c \in Compiles : CallInv(call[c]) /\ call[c].pc = "idle"  BY <1>1, NewCallInv
<1>3. call = [c \in Compiles |-> call[c]]  BY DEF Init
<1>. QED  BY <1>2, <1>3 DEF Init, IInv, WriteInv, StoredInv, AnnouncedInv

LEMMA NextInv ==
    ASSUME IInv, [Next]_vars
    PROVE  IInv'
<1>1. CASE UNCHANGED vars
  BY <1>1 DEF vars, IInv, WriteInv, StoredInv, AnnouncedInv, CallInv, IsCall, Reported,
     Gathered, Succeeded
<1>2. ASSUME NEW c \in Compiles, Query(c)  PROVE IInv'
  BY <1>2, SourceInv, MergeInv DEF Query
<1>. QED
  BY <1>1, <1>2, OthersInv, BeginInv, SourceInv, CompileInv, CheckInv, WriteStepInv,
     PublishInv DEF Next

\* The loop over the plan reports once per entry, candidates are those of the
\* sources that succeeded, and a file that may still be replaced is known to be
\* overlapped: in every interleaving of compilations, edits and failures.
THEOREM CompilerInvariant == Spec => []IInv
<1>1. IInv /\ [Next]_vars => IInv'  BY NextInv
<1>. QED  BY <1>1, InitInv, PTL DEF Spec

\* generateContextCandidates: a source that was denied, failed, timed out, was
\* cancelled or returned a malformed item leaves no candidate behind, and every
\* candidate has passed the access check.
THEOREM CandidatesFromSuccess == Spec => []OnlyFromSuccess
<1>1. IInv => OnlyFromSuccess
  BY DEF IInv, CallInv, Gathered, Succeeded, OnlyFromSuccess, Plan
<1>. QED  BY <1>1, CompilerInvariant, PTL

\* selectContextCandidates and buildAssembly: whatever the candidates, their
\* utilities, the caps and the conflicts among them, a manifest has every candidate
\* as selected or as excluded, once; what is required and what is eligible policy is
\* selected, and the selected records fit the budget.
THEOREM SelectionIsSound == Spec => []SelectionSound
<1>1. Init => SelInv
  BY NewCallSound DEF Init, SelInv
<1>2. IInv /\ SelInv /\ [Next]_vars => SelInv'  BY NextSound
<1>3. IInv /\ SelInv => SelectionSound
  BY DEF SelInv, Sound, ManifestSound, SelectInv, SelectionSound
<1>. QED  BY <1>1, <1>2, <1>3, CompilerInvariant, PTL DEF Spec

\* compileAndPersistContext: what the event context.manifest.persisted named is
\* what the repository has under the id, unless two appends looked for the file
\* before either had written it.
THEOREM AnnouncedStays == Spec => []AnnouncedIsStored
<1>1. IInv => AnnouncedIsStored  BY DEF IInv, AnnouncedInv, AnnouncedIsStored
<1>. QED  BY <1>1, CompilerInvariant, PTL
=============================================================================
