------------------------ MODULE EmbeddedWorkflowProofs ------------------------
(***************************************************************************)
(* Proofs about the embedded workflow runtime, for any number of calls,    *)
(* runs, steps and faults: it implements RunLifecycle, no handler starts   *)
(* after an abort, and only faults leave a run behind.                     *)
(***************************************************************************)
EXTENDS EmbeddedWorkflow, FiniteSetTheorems, SequenceTheorems, TLAPS

-----------------------------------------------------------------------------
(* Types. *)

\* Where a call has not created its row, and where it is at work on its run.
Early == {"idle", "reading", "creating", "refused"}
Live == {"created", "started", "stepping", "stepped", "retrying", "giving_up",
         "stopping", "completing", "failing", "cancelling", "loop", "invoking",
         "handling", "completed", "failed", "cancelled"}
Places == Early \cup Live \cup Over
InStep == {"stepping", "invoking", "handling", "stepped", "retrying",
           "giving_up", "stopping"}

RunStatus == {"running", "completed", "failed", "cancelled"}
EventTypes == {Emits[e] : e \in DOMAIN Emits} \cup {"note"}
CallRow == [at : Places, step : 1 .. Steps + 1, attempt : Nat]

TypeOK ==
    /\ rows \in [Runs -> Seq(RunStatus)]
    /\ history \in [Calls -> Seq(EventTypes)]
    /\ call \in [Calls -> CallRow]
    /\ controllers \in [Runs -> Calls \cup {None}]
    /\ aborted \subseteq Calls
    /\ resigned \subseteq Calls
    /\ abandoned \subseteq Calls
    /\ broken \in BOOLEAN
    /\ faults \in Nat

-----------------------------------------------------------------------------
(* The inductive invariant. *)

Completed(c) == Count(c, "step.completed")

\* What a call knows at each of its places: its step is the one after those
\* it has recorded as completed, and it is cancelled only when it was aborted
\* or a handler of its own has declared it cancelled.
Progress(c) ==
    /\ call[c].at \in Early => history[c] = <<>> /\ c \notin abandoned
    /\ call[c].at \in Early \cup {"created", "started"} => call[c].step = 1
    /\ call[c].at \in InStep => call[c].step <= Steps
    /\ call[c].at \in {"completing", "completed"} => call[c].step = Steps + 1
    /\ call[c].at \in {"stopping", "cancelling", "cancelled"} => c \in aborted \cup resigned
    /\ call[c].at \in Early \cup Live => Completed(c) = call[c].step - 1

\* What the row of a run shows that only this call starts.
RowShows(c) ==
    /\ call[c].at \in Early => rows[RunOf[c]] = <<>>
    /\ call[c].at \in Live => rows[RunOf[c]] # <<>> /\ rows[RunOf[c]][1] = "running"
    /\ call[c].at = "returned" => rows[RunOf[c]] # <<>> /\ rows[RunOf[c]][1] # "running"

\* Whose controller is registered.
Registration(c) ==
    /\ call[c].at \in {"idle", "reading", "refused", "returned", "lost"} =>
          controllers[RunOf[c]] # c
    /\ call[c].at = "threw" =>
          /\ faults > 0
          /\ controllers[RunOf[c]] = c => history[c] = <<>> /\ c \notin abandoned

IInv ==
    /\ TypeOK
    /\ broken => faults > 0
    /\ \A c \in Calls : /\ Progress(c)
                        /\ Registration(c)
                        /\ RunOf[c] \in OwnRuns => RowShows(c)

-----------------------------------------------------------------------------
(* Lemmas about the operators of the model. *)

LEMMA EmitsAre ==
    /\ DOMAIN Emits = {"created", "started", "stepping", "stepped", "retrying",
                       "giving_up", "stopping", "completing", "failing", "cancelling"}
    /\ \A e \in DOMAIN Emits : Emits[e] \in EventTypes
    /\ \A e \in DOMAIN Emits : Emits[e] = "step.completed" <=> e = "stepped"
<1>1. DOMAIN Emits = {"created", "started", "stepping", "stepped", "retrying",
                      "giving_up", "stopping", "completing", "failing", "cancelling"}
  BY DEF Emits
<1>2. \A e \in DOMAIN Emits : Emits[e] \in EventTypes  BY DEF EventTypes
<1>3. \A e \in DOMAIN Emits : Emits[e] = "step.completed" <=> e = "stepped"
  BY <1>1 DEF Emits
<1>. QED  BY <1>1, <1>2, <1>3

Occurs(t, s) == Cardinality({i \in DOMAIN s : s[i] = t})

LEMMA CountOccurs == \A c : Completed(c) = Occurs("step.completed", history[c])
BY DEF Completed, Count, Occurs

\* A recorded event counts once for its own type and not for another.
LEMMA CountAppend ==
    ASSUME NEW T, NEW h \in Seq(T), NEW x \in T, NEW t
    PROVE  /\ Occurs(t, h) \in Nat
           /\ Occurs(t, Append(h, x)) = IF x = t THEN Occurs(t, h) + 1 ELSE Occurs(t, h)
<1>. DEFINE S(s) == {i \in DOMAIN s : s[i] = t}
            k == Len(h) + 1
<1>1. /\ DOMAIN h = 1 .. Len(h) /\ Len(h) \in Nat
      /\ DOMAIN Append(h, x) = 1 .. k
      /\ \A i \in 1 .. Len(h) : Append(h, x)[i] = h[i]
      /\ Append(h, x)[k] = x
  OBVIOUS
<1>2. IsFiniteSet(S(h))
  <2>1. IsFiniteSet(1 .. Len(h))  BY <1>1, FS_Interval
  <2>2. S(h) \in SUBSET (1 .. Len(h))  BY <1>1
  <2>. QED  BY <2>1, <2>2, FS_Subset
<1>3. S(Append(h, x)) = IF x = t THEN S(h) \cup {k} ELSE S(h)  BY <1>1
<1>4. k \notin S(h)  BY <1>1
<1>5. Cardinality(S(h)) \in Nat  BY <1>2, FS_CardinalityType
<1>6. Cardinality(S(h) \cup {k}) = Cardinality(S(h)) + 1  BY <1>2, <1>4, FS_AddElement
<1>. QED  BY <1>3, <1>5, <1>6 DEF Occurs

LEMMA CountEmpty == \A t : Cardinality({i \in DOMAIN << >> : << >>[i] = t}) = 0
<1>1. \A t : {i \in DOMAIN << >> : << >>[i] = t} = {}  OBVIOUS
<1>. QED  BY <1>1, FS_EmptySet

\* A run of OwnRuns has one call, which is the one CallOf names.
LEMMA OwnCall ==
    ASSUME NEW c \in Calls, RunOf[c] \in OwnRuns
    PROVE  /\ CallOf(RunOf[c]) = c
           /\ \A d \in Calls : RunOf[d] = RunOf[c] => d = c
<1>1. PICK e \in Calls : RunOf[e] = RunOf[c] /\ \A f \in Calls \ {e} : RunOf[f] # RunOf[e]
  BY DEF OwnRuns
<1>2. \A d \in Calls : RunOf[d] = RunOf[c] => d = c  BY <1>1
<1>. QED  BY <1>2 DEF CallOf

LEMMA OwnRun ==
    ASSUME NEW r \in OwnRuns
    PROVE  r \in Runs /\ CallOf(r) \in Calls /\ RunOf[CallOf(r)] = r
<1>1. PICK c \in Calls : RunOf[c] = r  BY DEF OwnRuns
<1>2. CallOf(r) = c  BY <1>1, OwnCall
<1>. QED  BY <1>1, <1>2, EmbeddedAssumption

-----------------------------------------------------------------------------
(* Steps of one call. *)

\* A call that goes to another place is typed.
LEMMA GoType ==
    ASSUME TypeOK, NEW c \in Calls, NEW place \in Places, Go(c, place)
    PROVE  /\ call' \in [Calls -> CallRow]
           /\ call'[c].at = place /\ call'[c].step = call[c].step
           /\ \A d \in Calls \ {c} : call'[d] = call[d]
<1>1. call \in [Calls -> CallRow] /\ call[c] \in CallRow  BY DEF TypeOK
<1>2. call'[c] = [call[c] EXCEPT !.at = place]  BY <1>1 DEF Go
<1>3. call'[c] \in CallRow /\ call'[c].at = place /\ call'[c].step = call[c].step
  BY <1>1, <1>2 DEF CallRow
<1>. QED  BY <1>1, <1>3 DEF Go

\* What has to be shown of a step of c: the other calls keep their invariant
\* when their own state, their rows and their registrations are left alone.
LEMMA OneCall ==
    ASSUME IInv, TypeOK', NEW c \in Calls,
           broken' => faults' > 0, faults' >= faults,
           aborted \subseteq aborted', resigned \subseteq resigned',
           \A d \in Calls \ {c} :
              /\ call'[d] = call[d] /\ history'[d] = history[d]
              /\ d \in abandoned' => d \in abandoned
              /\ controllers'[RunOf[d]] = d => controllers[RunOf[d]] = d,
           \A r \in Runs \ {RunOf[c]} : rows'[r] = rows[r],
           Progress(c)', Registration(c)', RunOf[c] \in OwnRuns => RowShows(c)'
    PROVE  IInv'
<1>1. ASSUME NEW d \in Calls, d # c PROVE Progress(d)'
  <2>1. Progress(d)  BY DEF IInv
  <2>2. Completed(d)' = Completed(d)
    <3>1. history'[d] = history[d]  BY <1>1
    <3>. QED  BY <3>1 DEF Completed, Count
  <2>. QED  BY <2>1, <2>2, <1>1 DEF Progress
<1>2. ASSUME NEW d \in Calls, d # c PROVE Registration(d)'
  <2>1. Registration(d)  BY DEF IInv
  <2>2. faults > 0 => faults' > 0  BY DEF IInv, TypeOK
  <2>. QED  BY <2>1, <2>2, <1>2 DEF Registration
<1>3. ASSUME NEW d \in Calls, d # c, RunOf[d] \in OwnRuns PROVE RowShows(d)'
  <2>1. RowShows(d)  BY <1>3 DEF IInv
  <2>2. RunOf[d] \in Runs \ {RunOf[c]}  BY <1>3, OwnCall, EmbeddedAssumption
  <2>. QED  BY <2>1, <2>2, <1>3 DEF RowShows
<1>. QED  BY <1>1, <1>2, <1>3 DEF IInv, OwnRuns

\* A step that changes only the place of c, and may give up its handler.
LEMMA OnlyGoes ==
    ASSUME IInv, NEW c \in Calls, NEW place \in Places, Go(c, place),
           UNCHANGED <<rows, history, controllers, aborted, broken, faults>>,
           resigned' \in {resigned, resigned \cup {c}},
           abandoned' \subseteq abandoned \cup {c},
           Progress(c)', Registration(c)', RunOf[c] \in OwnRuns => RowShows(c)'
    PROVE  IInv'
<1>1. /\ call' \in [Calls -> CallRow]
      /\ \A d \in Calls \ {c} : call'[d] = call[d]
  BY GoType DEF IInv
<1>2. TypeOK'  BY <1>1 DEF IInv, TypeOK
<1>3. broken' => faults' > 0  BY DEF IInv
<1>4. faults' >= faults  BY DEF IInv, TypeOK
<1>. QED  BY <1>1, <1>2, <1>3, <1>4, OneCall

\* What the invariant says of the call that moves.
LEMMA Knows ==
    ASSUME IInv, NEW c \in Calls
    PROVE  /\ call[c] \in CallRow /\ call[c].step \in Nat
           /\ Progress(c) /\ Registration(c)
           /\ RunOf[c] \in OwnRuns => RowShows(c)
           /\ RunOf[c] \in Runs /\ Steps \in Nat
<1>1. call[c] \in CallRow  BY DEF IInv, TypeOK
<1>2. call[c].step \in Nat  BY <1>1, EmbeddedAssumption DEF CallRow
<1>. QED  BY <1>1, <1>2, EmbeddedAssumption DEF IInv

-----------------------------------------------------------------------------
(* The invariant holds at first and is kept by every step. *)

LEMMA InvInit == Init => IInv
<1>. SUFFICES ASSUME Init PROVE IInv  OBVIOUS
<1>1. Idle \in CallRow  BY EmbeddedAssumption DEF Idle, CallRow, Places, Early
<1>2. TypeOK
  <2>1. <<>> \in Seq(RunStatus) /\ <<>> \in Seq(EventTypes)  BY EmptySeq
  <2>. QED  BY <1>1, <2>1 DEF Init, TypeOK
<1>3. ASSUME NEW c \in Calls PROVE Progress(c)
  <2>1. Completed(c) = 0  BY CountEmpty DEF Init, Completed, Count
  <2>. QED  BY <2>1 DEF Init, Idle, Progress, Early, InStep
<1>4. ASSUME NEW c \in Calls PROVE Registration(c) /\ RowShows(c)
  BY EmbeddedAssumption DEF Init, Idle, Registration, RowShows, Live
<1>. QED  BY <1>2, <1>3, <1>4 DEF Init, IInv

LEMMA StartInv == ASSUME IInv, NEW c \in Calls, Start(c) PROVE IInv'
<1>. DEFINE place == IF controllers[RunOf[c]] # None THEN "refused" ELSE "reading"
<1>1. place \in Places /\ Go(c, place)  BY DEF Start, Places, Early
<1>2. call'[c].at = place /\ call'[c].step = call[c].step  BY <1>1, GoType DEF IInv
<1>3. Completed(c)' = Completed(c)  BY DEF Start, Completed, Count
<1>4. Progress(c)'
  BY <1>1, <1>2, <1>3, Knows DEF Start, At, Progress, Early, InStep, Live
<1>5. Registration(c)'  BY <1>1, <1>2, Knows DEF Start, At, Registration
<1>6. RunOf[c] \in OwnRuns => RowShows(c)'
  BY <1>1, <1>2, Knows DEF Start, At, RowShows, Early, Live
<1>. QED  BY <1>1, <1>4, <1>5, <1>6, OnlyGoes DEF Start

LEMMA RegisterInv == ASSUME IInv, NEW c \in Calls, Register(c) PROVE IInv'
<1>1. Completed(c)' = Completed(c)  BY DEF Register, Completed, Count
<1>2. CASE rows[RunOf[c]] # <<>> /\ Go(c, "refused") /\ UNCHANGED controllers
  <2>1. "refused" \in Places  BY DEF Places, Early
  <2>2. call'[c].at = "refused" /\ call'[c].step = call[c].step
    BY <1>2, <2>1, GoType DEF IInv
  <2>3. Progress(c)'
    BY <1>1, <2>2, Knows DEF Register, At, Progress, Early, InStep, Live
  <2>4. Registration(c)'  BY <1>2, <2>2, Knows DEF Register, At, Registration
  <2>5. RunOf[c] \in OwnRuns => RowShows(c)'
    BY <1>2, <2>2, Knows DEF Register, At, RowShows, Early, Live
  <2>. QED  BY <1>2, <2>1, <2>3, <2>4, <2>5, OnlyGoes DEF Register
<1>3. CASE /\ rows[RunOf[c]] = <<>>
           /\ Go(c, "creating")
           /\ controllers' = [controllers EXCEPT ![RunOf[c]] = c]
  <2>1. "creating" \in Places  BY DEF Places, Early
  <2>2. /\ call' \in [Calls -> CallRow]
        /\ call'[c].at = "creating" /\ call'[c].step = call[c].step
        /\ \A d \in Calls \ {c} : call'[d] = call[d]
    BY <1>3, <2>1, GoType DEF IInv
  <2>3. TypeOK'  BY <1>3, <2>2, EmbeddedAssumption DEF Register, IInv, TypeOK
  <2>4. \A d \in Calls \ {c} : controllers'[RunOf[d]] = d => controllers[RunOf[d]] = d
    BY <1>3, EmbeddedAssumption DEF IInv, TypeOK
  <2>5. Progress(c)'
    BY <1>1, <2>2, Knows DEF Register, At, Progress, Early, InStep, Live
  <2>6. Registration(c)'  BY <2>2 DEF Registration
  <2>7. RunOf[c] \in OwnRuns => RowShows(c)'
    BY <1>3, <2>2, Knows DEF Register, At, RowShows, Early, Live
  <2>8. (broken' => faults' > 0) /\ faults' >= faults  BY DEF Register, IInv, TypeOK
  <2>. QED  BY <2>2, <2>3, <2>4, <2>5, <2>6, <2>7, <2>8, OneCall DEF Register
<1>. QED  BY <1>2, <1>3 DEF Register

LEMMA CreateRowInv == ASSUME IInv, NEW c \in Calls, CreateRow(c) PROVE IInv'
<1>1. "created" \in Places /\ Go(c, "created")  BY DEF CreateRow, Places, Live
<1>2. /\ call' \in [Calls -> CallRow]
      /\ call'[c].at = "created" /\ call'[c].step = call[c].step
      /\ \A d \in Calls \ {c} : call'[d] = call[d]
  BY <1>1, GoType DEF IInv
<1>3. rows \in [Runs -> Seq(RunStatus)] /\ RunOf[c] \in Runs
  BY EmbeddedAssumption DEF IInv, TypeOK
<1>4. rows[RunOf[c]] \in Seq(RunStatus) /\ "running" \in RunStatus  BY <1>3 DEF RunStatus
<1>5. /\ rows'[RunOf[c]] = Append(rows[RunOf[c]], "running")
      /\ rows' \in [Runs -> Seq(RunStatus)]
      /\ \A r \in Runs \ {RunOf[c]} : rows'[r] = rows[r]
  BY <1>3, <1>4 DEF CreateRow
<1>6. TypeOK'  BY <1>2, <1>5 DEF CreateRow, IInv, TypeOK
<1>7. Completed(c)' = Completed(c)  BY DEF CreateRow, Completed, Count
<1>8. Progress(c)'
  BY <1>2, <1>7, Knows DEF CreateRow, At, Progress, Early, InStep, Live
<1>9. Registration(c)'  BY <1>2 DEF Registration
<1>10. RunOf[c] \in OwnRuns => RowShows(c)'
  <2>1. RunOf[c] \in OwnRuns => rows[RunOf[c]] = <<>>
    BY Knows DEF CreateRow, At, RowShows, Early
  <2>2. Append(<<>>, "running") # <<>> /\ Append(<<>>, "running")[1] = "running"
    OBVIOUS
  <2>. QED  BY <1>2, <1>5, <2>1, <2>2 DEF RowShows, Early
<1>11. (broken' => faults' > 0) /\ faults' >= faults  BY DEF CreateRow, IInv, TypeOK
<1>. QED  BY <1>2, <1>5, <1>6, <1>8, <1>9, <1>10, <1>11, OneCall DEF CreateRow

LEMMA SaveResultInv == ASSUME IInv, NEW c \in Calls, SaveResult(c) PROVE IInv'
<1>. DEFINE r == RunOf[c]
<1>1. "returned" \in Places /\ Go(c, "returned")  BY DEF SaveResult, Places, Over
<1>2. /\ call' \in [Calls -> CallRow]
      /\ call'[c].at = "returned"
      /\ \A d \in Calls \ {c} : call'[d] = call[d]
  BY <1>1, GoType DEF IInv
<1>3. rows \in [Runs -> Seq(RunStatus)] /\ r \in Runs /\ rows[r] \in Seq(RunStatus)
  BY EmbeddedAssumption DEF IInv, TypeOK
<1>4. call[c].at \in RunStatus /\ call[c].at # "running"
  BY DEF SaveResult, At, RunStatus
<1>5. /\ rows'[r] = [rows[r] EXCEPT ![1] = call[c].at]
      /\ \A q \in Runs \ {r} : rows'[q] = rows[q]
      /\ rows' = [q \in Runs |-> rows'[q]]
  BY <1>3 DEF SaveResult
<1>6. rows'[r] \in Seq(RunStatus)
  <2>1. CASE rows[r] = <<>>
    <3>1. [rows[r] EXCEPT ![1] = call[c].at] = rows[r]  BY <2>1
    <3>. QED  BY <3>1, <1>3, <1>5
  <2>2. CASE rows[r] # <<>>
    <3>1. 1 \in 1 .. Len(rows[r])  BY <1>3, <2>2
    <3>. QED  BY <3>1, <1>3, <1>4, <1>5, ExceptSeq
  <2>. QED  BY <2>1, <2>2
<1>7. rows' \in [Runs -> Seq(RunStatus)]  BY <1>3, <1>5, <1>6
<1>8. /\ controllers' \in [Runs -> Calls \cup {None}]
      /\ controllers'[r] = None
      /\ \A q \in Runs \ {r} : controllers'[q] = controllers[q]
  BY <1>3 DEF SaveResult, IInv, TypeOK
<1>9. TypeOK'  BY <1>2, <1>7, <1>8 DEF SaveResult, IInv, TypeOK
<1>10. \A d \in Calls \ {c} : controllers'[RunOf[d]] = d => controllers[RunOf[d]] = d
  BY <1>8, EmbeddedAssumption
<1>11. Progress(c)'  BY <1>2 DEF Progress, Early, InStep, Live
<1>12. Registration(c)'  BY <1>2, <1>8, EmbeddedAssumption DEF Registration
<1>13. ASSUME r \in OwnRuns PROVE RowShows(c)'
  <2>1. rows[r] # <<>>  BY <1>13, Knows DEF SaveResult, At, RowShows, Live
  <2>2. Len(rows[r]) >= 1  BY <1>3, <2>1
  <2>3. rows'[r][1] = call[c].at /\ rows'[r] # <<>>  BY <1>3, <1>5, <2>2
  <2>. QED  BY <1>2, <1>4, <2>3 DEF RowShows, Early, Live
<1>14. (broken' => faults' > 0) /\ faults' >= faults  BY DEF SaveResult, IInv, TypeOK
<1>. QED
  BY <1>2, <1>5, <1>9, <1>10, <1>11, <1>12, <1>13, <1>14, OneCall DEF SaveResult

\* Where an event takes a call: to the next step after step.completed only, and
\* past the places whose knowledge it keeps.
LEMMA ThenGoes ==
    ASSUME NEW now \in CallRow, now.at \in DOMAIN Emits, now.at \in InStep => now.step <= Steps
    PROVE  /\ Then(now) \in CallRow
           /\ Then(now).at \in Live
           /\ Then(now).step = IF now.at = "stepped" THEN now.step + 1 ELSE now.step
           /\ now.at = "created" <=> Then(now).at = "started"
           /\ now.at = "stepping" <=> Then(now).at = "invoking"
           /\ now.at = "stopping" <=> Then(now).at = "cancelling"
           /\ now.at = "completing" <=> Then(now).at = "completed"
           /\ now.at = "cancelling" <=> Then(now).at = "cancelled"
           /\ Then(now).at \notin (Early \cup InStep \cup {"created", "completing"}) \ {"invoking"}
<1>1. /\ now.at \in Places /\ now.step \in 1 .. Steps + 1 /\ now.attempt \in Nat
      /\ now = [at |-> now.at, step |-> now.step, attempt |-> now.attempt]
  BY DEF CallRow
<1>2. now.at \in {"created", "started", "stepping", "stepped", "retrying", "giving_up",
                  "stopping", "completing", "failing", "cancelling"}
  BY EmitsAre
<1>3. Then(now) = [at |-> Then(now).at, step |-> Then(now).step, attempt |-> Then(now).attempt]
  BY <1>1, <1>2 DEF Then
<1>4. /\ Then(now).at =
            CASE now.at = "created" -> "started"
              [] now.at = "started" -> "loop"
              [] now.at = "stepping" -> "invoking"
              [] now.at = "stepped" -> "loop"
              [] now.at = "retrying" -> "loop"
              [] now.at = "giving_up" -> "failing"
              [] now.at = "stopping" -> "cancelling"
              [] now.at = "completing" -> "completed"
              [] now.at = "failing" -> "failed"
              [] now.at = "cancelling" -> "cancelled"
      /\ Then(now).step = IF now.at = "stepped" THEN now.step + 1 ELSE now.step
      /\ Then(now).attempt \in Nat
  BY <1>1, <1>2 DEF Then
<1>5. Then(now).at \in Live  BY <1>2, <1>4 DEF Live
<1>6. Then(now).step \in 1 .. Steps + 1
  BY <1>1, <1>4, EmbeddedAssumption DEF InStep
<1>7. Then(now) \in CallRow  BY <1>3, <1>4, <1>5, <1>6 DEF CallRow, Places
<1>8. /\ now.at = "created" <=> Then(now).at = "started"
      /\ now.at = "stepping" <=> Then(now).at = "invoking"
      /\ now.at = "stopping" <=> Then(now).at = "cancelling"
      /\ now.at = "completing" <=> Then(now).at = "completed"
      /\ now.at = "cancelling" <=> Then(now).at = "cancelled"
  BY <1>2, <1>4
<1>9. Then(now).at \notin (Early \cup InStep \cup {"created", "completing"}) \ {"invoking"}
  BY <1>2, <1>4 DEF Early, InStep
<1>. QED  BY <1>4, <1>5, <1>7, <1>8, <1>9

\* An event of type t is appended to the history of c.
LEMMA RecordType ==
    ASSUME TypeOK, NEW c \in Calls, NEW t \in EventTypes,
           history' = [history EXCEPT ![c] = Append(@, t)]
    PROVE  /\ history' \in [Calls -> Seq(EventTypes)]
           /\ \A d \in Calls \ {c} : history'[d] = history[d]
           /\ Completed(c) \in Nat
           /\ Completed(c)' = IF t = "step.completed" THEN Completed(c) + 1 ELSE Completed(c)
<1>1. history \in [Calls -> Seq(EventTypes)] /\ history[c] \in Seq(EventTypes)
  BY DEF TypeOK
<1>2. history'[c] = Append(history[c], t)  BY <1>1
<1>3. Append(history[c], t) \in Seq(EventTypes)  BY <1>1
<1>4. history' \in [Calls -> Seq(EventTypes)] /\ \A d \in Calls \ {c} : history'[d] = history[d]
  BY <1>1, <1>3
<1>5. /\ Completed(c) = Occurs("step.completed", history[c])
      /\ Completed(c)' = Occurs("step.completed", Append(history[c], t))
  BY <1>2, CountOccurs DEF Completed, Count, Occurs
<1>. QED  BY <1>1, <1>4, <1>5, CountAppend

LEMMA EmitInv == ASSUME IInv, NEW c \in Calls, Emit(c) PROVE IInv'
<1>. DEFINE t == Emits[call[c].at]
<1>1. call[c] \in CallRow /\ call[c].at \in DOMAIN Emits  BY Knows DEF Emit
<1>2. t \in EventTypes /\ (t = "step.completed" <=> call[c].at = "stepped")
  BY <1>1, EmitsAre
<1>3. /\ history' \in [Calls -> Seq(EventTypes)]
      /\ \A d \in Calls \ {c} : history'[d] = history[d]
      /\ Completed(c)' = IF t = "step.completed" THEN Completed(c) + 1 ELSE Completed(c)
  BY <1>2, RecordType DEF Emit, IInv
<1>4. call[c].at \in InStep => call[c].step <= Steps  BY Knows DEF Progress
<1>5. /\ call' \in [Calls -> CallRow]
      /\ call'[c] = Then(call[c])
      /\ \A d \in Calls \ {c} : call'[d] = call[d]
  BY <1>1, <1>4, ThenGoes DEF Emit, IInv, TypeOK
<1>6. TypeOK'  BY <1>3, <1>5 DEF Emit, IInv, TypeOK
<1>7. /\ call[c].at \in Live
      /\ Completed(c) = call[c].step - 1
      /\ call[c].at = "created" => call[c].step = 1
      /\ call[c].at = "stepping" => call[c].step <= Steps
      /\ call[c].at = "completing" => call[c].step = Steps + 1
      /\ call[c].at \in {"stopping", "cancelling"} => c \in aborted \cup resigned
  BY <1>1, EmitsAre, Knows DEF Progress, Live, InStep
<1>8. /\ call'[c].at \in Live
      /\ call'[c].step = IF call[c].at = "stepped" THEN call[c].step + 1 ELSE call[c].step
      /\ call'[c].at = "started" => call[c].at = "created"
      /\ call'[c].at = "invoking" => call[c].at = "stepping"
      /\ call'[c].at = "cancelling" => call[c].at = "stopping"
      /\ call'[c].at = "completed" => call[c].at = "completing"
      /\ call'[c].at = "cancelled" => call[c].at = "cancelling"
      /\ call'[c].at \notin (Early \cup InStep \cup {"created", "completing"}) \ {"invoking"}
  BY <1>1, <1>4, <1>5, ThenGoes
<1>9. Progress(c)'
  <2>1. Completed(c)' = call'[c].step - 1  BY <1>2, <1>3, <1>7, <1>8, Knows
  <2>2. aborted' = aborted /\ resigned' = resigned  BY DEF Emit
  <2>3. /\ call'[c].at \notin Early /\ call'[c].at # "created"
        /\ call'[c].at = "started" => call'[c].step = 1
        /\ call'[c].at \in InStep => call'[c].step <= Steps
        /\ call'[c].at \in {"completing", "completed"} => call'[c].step = Steps + 1
        /\ call'[c].at \in {"stopping", "cancelling", "cancelled"} => c \in aborted \cup resigned
    BY <1>7, <1>8 DEF Early, InStep
  <2>. QED  BY <2>1, <2>2, <2>3 DEF Progress
<1>10. Registration(c)'  BY <1>8 DEF Registration, Live
<1>11. RunOf[c] \in OwnRuns => RowShows(c)'
  BY <1>7, <1>8, Knows DEF Emit, RowShows, Live, Early
<1>12. (broken' => faults' > 0) /\ faults' >= faults  BY DEF Emit, IInv, TypeOK
<1>. QED  BY <1>3, <1>5, <1>6, <1>9, <1>10, <1>11, <1>12, OneCall DEF Emit

\* The steps between two events: from one live place to another.
LEMMA LiveGoes ==
    ASSUME IInv, NEW c \in Calls, NEW place \in Live, Go(c, place), call[c].at \in Live,
           UNCHANGED <<rows, history, controllers, aborted, broken, faults>>,
           resigned' \in {resigned, resigned \cup {c}},
           abandoned' \subseteq abandoned \cup {c},
           place \notin {"created", "started", "completed", "cancelled"},
           place \in InStep => call[c].step <= Steps,
           place = "completing" => call[c].step = Steps + 1,
           place \in {"stopping", "cancelling"} => c \in aborted \cup resigned'
    PROVE  IInv'
<1>1. place \in Places  BY DEF Places
<1>2. call'[c].at = place /\ call'[c].step = call[c].step  BY <1>1, GoType DEF IInv
<1>3. Completed(c)' = Completed(c)  BY DEF Completed, Count
<1>4. Completed(c) = call[c].step - 1  BY Knows DEF Progress
<1>5. place \notin Early  BY DEF Early, Live
<1>6. Progress(c)'  BY <1>2, <1>3, <1>4, <1>5 DEF Progress
<1>7. Registration(c)'  BY <1>2 DEF Registration, Live
<1>8. RunOf[c] \in OwnRuns => RowShows(c)'  BY <1>2, <1>5, Knows DEF RowShows, Live
<1>. QED  BY <1>1, <1>6, <1>7, <1>8, OnlyGoes

LEMMA LoopInv == ASSUME IInv, NEW c \in Calls, Loop(c) PROVE IInv'
<1>. DEFINE place == IF call[c].step > Steps THEN "completing"
                     ELSE IF c \in aborted THEN "cancelling" ELSE "stepping"
<1>1. call[c].step \in 1 .. Steps + 1 /\ Steps \in Nat  BY Knows DEF CallRow
<1>2. /\ place \in Live /\ Go(c, place) /\ call[c].at \in Live
      /\ place \notin {"created", "started", "completed", "cancelled"}
  BY DEF Loop, At, Live
<1>3. /\ place \in InStep => call[c].step <= Steps
      /\ place = "completing" => call[c].step = Steps + 1
      /\ place \in {"stopping", "cancelling"} => c \in aborted
  BY <1>1 DEF InStep
<1>. QED  BY <1>2, <1>3, LiveGoes DEF Loop

LEMMA InvokeInv == ASSUME IInv, NEW c \in Calls, Invoke(c) PROVE IInv'
<1>. DEFINE place == IF c \in aborted THEN "stopping" ELSE "handling"
<1>1. call[c].step <= Steps  BY Knows DEF Invoke, At, Progress, InStep
<1>2. place \in Live /\ Go(c, place) /\ call[c].at \in Live  BY DEF Invoke, At, Live
<1>. QED  BY <1>1, <1>2, LiveGoes DEF Invoke

LEMMA HandlerInv ==
    ASSUME IInv, NEW c \in Calls,
           HandlerReturns(c) \/ HandlerThrows(c) \/ Timeout(c) \/ StopHandler(c)
    PROVE  IInv'
<1>1. call[c].at = "handling"
  BY DEF HandlerReturns, HandlerThrows, Timeout, StopHandler, At
<1>2. call[c].at \in Live /\ call[c].step <= Steps
  BY <1>1, Knows DEF Progress, InStep, Live
<1>3. \A b \in BOOLEAN : Failure(c, b) \in {"retrying", "giving_up"}  BY DEF Failure
<1>4. PICK place \in {"stepped", "retrying", "giving_up", "stopping"} :
         /\ Go(c, place)
         /\ place = "stopping" => c \in aborted \cup resigned'
         /\ UNCHANGED <<rows, history, controllers, aborted, broken, faults>>
         /\ resigned' \in {resigned, resigned \cup {c}}
         /\ abandoned' \subseteq abandoned \cup {c}
  BY <1>3 DEF HandlerReturns, HandlerThrows, Timeout, StopHandler
<1>5. place \in Live  BY <1>4 DEF Live
<1>. QED  BY <1>2, <1>4, <1>5, LiveGoes

LEMMA HandlerEmitsInv == ASSUME IInv, NEW c \in Calls, HandlerEmits(c) PROVE IInv'
<1>1. "note" \in EventTypes  BY DEF EventTypes
<1>2. /\ history' \in [Calls -> Seq(EventTypes)]
      /\ \A d \in Calls \ {c} : history'[d] = history[d]
      /\ Completed(c)' = Completed(c)
  BY <1>1, RecordType DEF HandlerEmits, IInv
<1>3. TypeOK'  BY <1>2 DEF HandlerEmits, IInv, TypeOK
<1>4. call[c].at \notin Early  BY Knows DEF HandlerEmits, At, Progress, Early
<1>5. Progress(c)'  BY <1>2, <1>4, Knows DEF HandlerEmits, Progress
<1>6. Registration(c)'
  BY Knows DEF HandlerEmits, At, Registration
<1>7. RunOf[c] \in OwnRuns => RowShows(c)'  BY Knows DEF HandlerEmits, RowShows
<1>8. (broken' => faults' > 0) /\ faults' >= faults  BY DEF HandlerEmits, IInv, TypeOK
<1>. QED  BY <1>2, <1>3, <1>5, <1>6, <1>7, <1>8, OneCall DEF HandlerEmits

\* Steps that leave the calls, their histories and the rows alone.
LEMMA AroundCalls ==
    ASSUME IInv, TypeOK', UNCHANGED <<rows, history, call, controllers>>,
           aborted \subseteq aborted', resigned' = resigned, abandoned' \subseteq abandoned,
           faults' >= faults, broken' => faults' > 0
    PROVE  IInv'
<1>1. ASSUME NEW c \in Calls PROVE Progress(c)'
  <2>1. Progress(c)  BY DEF IInv
  <2>2. Completed(c)' = Completed(c)  BY DEF Completed, Count
  <2>. QED  BY <2>1, <2>2 DEF Progress
<1>2. ASSUME NEW c \in Calls PROVE Registration(c)'
  <2>1. Registration(c)  BY DEF IInv
  <2>2. faults > 0 => faults' > 0  BY DEF IInv, TypeOK
  <2>. QED  BY <2>1, <2>2 DEF Registration
<1>3. ASSUME NEW c \in Calls, RunOf[c] \in OwnRuns PROVE RowShows(c)'
  BY <1>3 DEF IInv, RowShows
<1>. QED  BY <1>1, <1>2, <1>3 DEF IInv, OwnRuns

LEMMA AbandonedEndsInv == ASSUME IInv, NEW c \in Calls, AbandonedEnds(c) PROVE IInv'
<1>1. TypeOK' /\ faults' >= faults /\ (broken' => faults' > 0)
  BY DEF AbandonedEnds, IInv, TypeOK
<1>. QED  BY <1>1, AroundCalls DEF AbandonedEnds

LEMMA CancelInv == ASSUME IInv, NEW r \in Runs, Cancel(r) PROVE IInv'
<1>1. TypeOK' /\ faults' >= faults /\ (broken' => faults' > 0)
  BY DEF Cancel, IInv, TypeOK
<1>. QED  BY <1>1, AroundCalls DEF Cancel

LEMMA WriteFailsInv == ASSUME IInv, WriteFails PROVE IInv'
<1>1. TypeOK' /\ faults' >= faults /\ faults' > 0  BY DEF WriteFails, IInv, TypeOK
<1>. QED  BY <1>1, AroundCalls DEF WriteFails

LEMMA RejectedInv == ASSUME IInv, NEW c \in Calls, Rejected(c) PROVE IInv'
<1>1. "threw" \in Places /\ Go(c, "threw")  BY DEF Rejected, Places, Over
<1>2. /\ call' \in [Calls -> CallRow]
      /\ call'[c].at = "threw"
      /\ \A d \in Calls \ {c} : call'[d] = call[d]
  BY <1>1, GoType DEF IInv
<1>3. /\ controllers' \in [Runs -> Calls \cup {None}]
      /\ \A r \in Runs : controllers'[r] \in {controllers[r], None}
      /\ ~At(c, "creating") => controllers'[RunOf[c]] = None
  BY EmbeddedAssumption DEF Rejected, IInv, TypeOK
<1>4. TypeOK'  BY <1>2, <1>3 DEF Rejected, IInv, TypeOK
<1>5. \A d \in Calls \ {c} : controllers'[RunOf[d]] = d => controllers[RunOf[d]] = d
  BY <1>3, EmbeddedAssumption
<1>6. Progress(c)'  BY <1>2 DEF Progress, Early, InStep, Live
<1>7. Registration(c)'
  <2>1. faults' > 0  BY DEF Rejected, IInv
  <2>2. At(c, "creating") => history[c] = <<>> /\ c \notin abandoned
    BY Knows DEF Progress, At, Early
  <2>3. ~At(c, "creating") => controllers'[RunOf[c]] # c  BY <1>3, EmbeddedAssumption
  <2>. QED  BY <1>2, <2>1, <2>2, <2>3 DEF Rejected, Registration
<1>8. RunOf[c] \in OwnRuns => RowShows(c)'  BY <1>2 DEF RowShows, Early, Live
<1>9. (broken' => faults' > 0) /\ faults' >= faults  BY DEF Rejected, IInv, TypeOK
<1>. QED  BY <1>2, <1>4, <1>5, <1>6, <1>7, <1>8, <1>9, OneCall DEF Rejected

LEMMA CrashInv == ASSUME IInv, Crash PROVE IInv'
<1>1. faults' > 0 /\ faults' \in Nat  BY DEF Crash, IInv, TypeOK
<1>2. ASSUME NEW c \in Calls
      PROVE  /\ call'[c] \in CallRow
             /\ \/ call'[c] = call[c] /\ call[c].at \in Over \cup {"idle"}
                \/ call'[c].at = "lost"
  <2>1. call[c] \in CallRow  BY Knows
  <2>2. [call[c] EXCEPT !.at = "lost"] \in CallRow /\ [call[c] EXCEPT !.at = "lost"].at = "lost"
    BY <2>1 DEF CallRow, Places, Over
  <2>. QED  BY <2>1, <2>2 DEF Crash
<1>3. TypeOK'
  <2>1. call' \in [Calls -> CallRow]  BY <1>2 DEF Crash
  <2>. QED  BY <1>1, <2>1 DEF Crash, IInv, TypeOK
<1>4. ASSUME NEW c \in Calls
      PROVE  Progress(c)' /\ Registration(c)' /\ (RunOf[c] \in OwnRuns => RowShows(c)')
  <2>1. controllers'[RunOf[c]] # c  BY EmbeddedAssumption DEF Crash
  <2>2. Completed(c)' = Completed(c)  BY DEF Crash, Completed, Count
  <2>3. Registration(c)'  BY <1>1, <2>1 DEF Registration
  <2>4. CASE call'[c] = call[c]
    <3>1. Progress(c)'  BY <2>2, <2>4, Knows DEF Crash, Progress
    <3>2. RunOf[c] \in OwnRuns => RowShows(c)'  BY <2>4, Knows DEF Crash, RowShows
    <3>. QED  BY <2>3, <3>1, <3>2
  <2>5. CASE call'[c].at = "lost"
    BY <2>3, <2>5 DEF Progress, RowShows, Early, InStep, Live
  <2>. QED  BY <1>2, <2>4, <2>5
<1>. QED  BY <1>1, <1>3, <1>4 DEF IInv, OwnRuns

LEMMA InvNext == IInv /\ [Next]_vars => IInv'
<1>. SUFFICES ASSUME IInv, [Next]_vars PROVE IInv'  OBVIOUS
<1>1. ASSUME NEW c \in Calls, Start(c) \/ Step(c) \/ HandlerEmits(c) \/ AbandonedEnds(c)
      PROVE  IInv'
  BY <1>1, StartInv, RegisterInv, CreateRowInv, SaveResultInv, EmitInv, LoopInv, InvokeInv,
     HandlerInv, RejectedInv, HandlerEmitsInv, AbandonedEndsInv
  DEF Step
<1>2. ASSUME NEW r \in Runs, Cancel(r) PROVE IInv'  BY <1>2, CancelInv
<1>3. CASE WriteFails  BY <1>3, WriteFailsInv
<1>4. CASE Crash  BY <1>4, CrashInv
<1>5. CASE UNCHANGED vars
  <2>1. TypeOK' /\ faults' >= faults /\ (broken' => faults' > 0)
    BY <1>5 DEF vars, IInv, TypeOK
  <2>. QED  BY <1>5, <2>1, AroundCalls DEF vars
<1>. QED  BY <1>1, <1>2, <1>3, <1>4, <1>5 DEF Next

\* The inductive invariant of the embedded runtime.
THEOREM RuntimeInvariant == Spec => []IInv
<1>. QED  BY InvInit, InvNext, PTL DEF Spec

-----------------------------------------------------------------------------
(* The properties. *)

\* A run that is shown as running after its call is over, and a controller
\* that stays registered, were left behind by a failed write or a crash.
THEOREM LeftBehind == Spec => []LeftBehindByFaults
<1>1. IInv => LeftBehindByFaults
  <2>. SUFFICES ASSUME IInv, NEW c \in Calls
                PROVE  /\ At(c, "returned") /\ RunOf[c] \in OwnRuns =>
                             rows[RunOf[c]][1] # "running"
                       /\ At(c, "threw") => faults > 0
                       /\ controllers[RunOf[c]] = c /\ call[c].at \in Over =>
                             history[c] = <<>> /\ faults > 0
    BY DEF LeftBehindByFaults
  <2>. QED  BY Knows DEF At, RowShows, Registration, Over
<1>. QED  BY <1>1, RuntimeInvariant, PTL

\* A handler is called only by Invoke, which looks at the signal.
THEOREM NoLateHandler == Spec => NoHandlerAfterAbort
<1>1. IInv /\ [Next]_vars =>
         [\A c \in Calls : c \in aborted /\ ~At(c, "handling") => call'[c].at # "handling"]_vars
  <2>. SUFFICES ASSUME IInv, Next, NEW c \in Calls, c \in aborted, ~At(c, "handling")
                PROVE  call'[c].at # "handling"
    BY DEF vars
  <2>1. call[c] \in CallRow /\ call \in [Calls -> CallRow]  BY DEF IInv, TypeOK
  <2>2. ASSUME NEW d \in Calls, NEW place, Go(d, place), d = c => place # "handling"
        PROVE  call'[c].at # "handling"
    BY <2>1, <2>2 DEF Go, At, CallRow
  <2>3. ASSUME NEW d \in Calls, Emit(d) PROVE call'[c].at # "handling"
    <3>1. CASE d # c  BY <2>1, <2>3, <3>1 DEF Emit, At
    <3>2. CASE d = c
      <4>1. call[c].at \in InStep => call[c].step <= Steps  BY Knows DEF Progress
      <4>2. call[c].at \in DOMAIN Emits /\ call'[c] = Then(call[c])
        BY <2>1, <2>3, <3>2 DEF Emit
      <4>. QED  BY <2>1, <4>1, <4>2, ThenGoes DEF InStep
    <3>. QED  BY <3>1, <3>2
  <2>4. \A d \in Calls, b \in BOOLEAN : Failure(d, b) # "handling"  BY DEF Failure
  <2>5. ASSUME NEW d \in Calls, Start(d) \/ Step(d) PROVE call'[c].at # "handling"
    <3>1. CASE Emit(d)  BY <2>3, <3>1
    <3>2. CASE Start(d)  BY <2>2, <3>2 DEF Start
    <3>3. CASE Register(d)  BY <2>2, <3>3 DEF Register
    <3>4. CASE CreateRow(d) \/ SaveResult(d) \/ Rejected(d) \/ HandlerReturns(d) \/ StopHandler(d)
      BY <2>2, <3>4 DEF CreateRow, SaveResult, Rejected, HandlerReturns, StopHandler
    <3>5. CASE Loop(d)  BY <2>2, <3>5 DEF Loop
    <3>6. CASE Invoke(d)  BY <2>2, <3>6 DEF Invoke
    <3>7. CASE HandlerThrows(d) \/ Timeout(d)
      BY <2>2, <2>4, <3>7 DEF HandlerThrows, Timeout
    <3>. QED  BY <2>5, <3>1, <3>2, <3>3, <3>4, <3>5, <3>6, <3>7 DEF Step
  <2>6. CASE Crash  BY <2>1, <2>6 DEF Crash, At, CallRow
  <2>7. CASE UNCHANGED call  BY <2>7 DEF At
  <2>. QED
    BY <2>5, <2>6, <2>7 DEF Next, HandlerEmits, AbandonedEnds, Cancel, WriteFails
<1>. QED  BY <1>1, RuntimeInvariant, PTL DEF Spec, NoHandlerAfterAbort

-----------------------------------------------------------------------------
(* The embedded runtime implements RunLifecycle. *)

\* The refinement mapping of Lifecycle, run by run.
Shown(r) == IF rows[r] = <<>> THEN "absent" ELSE rows[r][1]
Status == [r \in OwnRuns |-> Shown(r)]
Done == [r \in OwnRuns |-> Completed(CallOf(r))]
Asked == [r \in OwnRuns |-> CallOf(r) \in aborted \cup resigned]

LEMMA Mapping ==
    /\ Lifecycle!lifecycleVars = <<Status, Done, Asked>>
    /\ Lifecycle!LifecycleInit <=>
          /\ Status = [r \in OwnRuns |-> "absent"]
          /\ Done = [r \in OwnRuns |-> 0]
          /\ Asked = [r \in OwnRuns |-> FALSE]
BY DEF Lifecycle!lifecycleVars, Lifecycle!LifecycleInit, Status, Shown, Done, Asked, Completed

\* Each kind of step of the abstract specification, by what it does to the run.
LEMMA MapsToCreate ==
    ASSUME NEW r \in OwnRuns, Status[r] = "absent",
           Status' = [Status EXCEPT ![r] = "running"], UNCHANGED <<Done, Asked>>
    PROVE  Lifecycle!LifecycleNext
<1>1. Lifecycle!Create(r)
  BY DEF Lifecycle!Create, Status, Shown, Done, Asked, Completed
<1>. QED  BY <1>1 DEF Lifecycle!LifecycleNext

LEMMA MapsToAdvance ==
    ASSUME NEW r \in OwnRuns, Status[r] = "running", Done[r] < Steps,
           Done' = [Done EXCEPT ![r] = @ + 1], UNCHANGED <<Status, Asked>>
    PROVE  Lifecycle!LifecycleNext
<1>1. Lifecycle!Advance(r)
  BY DEF Lifecycle!Advance, Status, Shown, Done, Asked, Completed
<1>. QED  BY <1>1 DEF Lifecycle!LifecycleNext

LEMMA MapsToAsk ==
    ASSUME NEW r \in OwnRuns, Asked' = [Asked EXCEPT ![r] = TRUE], UNCHANGED <<Status, Done>>
    PROVE  Lifecycle!LifecycleNext
<1>1. Lifecycle!Ask(r)
  BY DEF Lifecycle!Ask, Status, Shown, Done, Asked, Completed
<1>. QED  BY <1>1 DEF Lifecycle!LifecycleNext

LEMMA MapsToEnd ==
    ASSUME NEW r \in OwnRuns, NEW outcome \in {"completed", "failed", "cancelled"},
           Status[r] = "running", Status' = [Status EXCEPT ![r] = outcome],
           outcome = "completed" => Done[r] = Steps,
           outcome = "cancelled" => Asked[r],
           UNCHANGED <<Done, Asked>>
    PROVE  Lifecycle!LifecycleNext
<1>1. Lifecycle!End(r, outcome)
  BY DEF Lifecycle!End, Status, Shown, Done, Asked, Completed
<1>2. outcome \in Lifecycle!Ended  BY DEF Lifecycle!Ended
<1>. QED  BY <1>1, <1>2 DEF Lifecycle!LifecycleNext

\* What parts of a step leave alone.
LEMMA SameStatus == ASSUME \A r \in OwnRuns : rows'[r] = rows[r] PROVE Status' = Status
BY DEF Status, Shown

LEMMA SameDone ==
    ASSUME \A c \in Calls : Completed(c)' = Completed(c)
    PROVE  Done' = Done
<1>1. \A r \in OwnRuns : CallOf(r) \in Calls  BY OwnRun
<1>2. \A r \in OwnRuns : Completed(CallOf(r))' = Completed(CallOf(r))  BY <1>1
<1>. QED  BY <1>2 DEF Done

LEMMA SameAsked == ASSUME aborted' = aborted, resigned' = resigned PROVE Asked' = Asked
BY DEF Asked

\* A cancellation of c, by its caller or by a handler of its own.
LEMMA MapsToAskOf ==
    ASSUME NEW c \in Calls, aborted' \cup resigned' = aborted \cup resigned \cup {c},
           UNCHANGED <<Status, Done>>
    PROVE  Lifecycle!LifecycleNext \/ UNCHANGED <<Status, Done, Asked>>
<1>. DEFINE r == RunOf[c]
            off == aborted \cup resigned
<1>1. CASE r \notin OwnRuns
  <2>1. \A p \in OwnRuns : CallOf(p) # c  BY <1>1, OwnRun
  <2>2. \A p \in OwnRuns : (CallOf(p) \in off') = (CallOf(p) \in off)
    BY <2>1
  <2>3. Asked' = Asked  BY <2>2 DEF Asked
  <2>. QED  BY <2>3
<1>2. CASE r \in OwnRuns
  <2>1. CallOf(r) = c  BY <1>2, OwnCall
  <2>2. \A p \in OwnRuns \ {r} : CallOf(p) # c  BY OwnRun
  <2>3. \A p \in OwnRuns \ {r} : (CallOf(p) \in off') = (CallOf(p) \in off)
    BY <2>2
  <2>4. (CallOf(r) \in off') = TRUE  BY <2>1
  <2>5. Asked' = [Asked EXCEPT ![r] = TRUE]  BY <1>2, <2>3, <2>4 DEF Asked
  <2>. QED  BY <1>2, <2>5, MapsToAsk
<1>. QED  BY <1>1, <1>2

LEMMA HistoryKept ==
    ASSUME NEW c, history'[c] = history[c]
    PROVE  Completed(c)' = Completed(c)
BY DEF Completed, Count

LEMMA CreateRowMaps == ASSUME IInv, NEW c \in Calls, CreateRow(c)
                       PROVE  Lifecycle!LifecycleNext \/ UNCHANGED <<Status, Done, Asked>>
<1>. DEFINE r == RunOf[c]
<1>1. rows \in [Runs -> Seq(RunStatus)] /\ r \in Runs  BY Knows DEF IInv, TypeOK
<1>2. rows'[r] = Append(rows[r], "running") /\ \A q \in Runs \ {r} : rows'[q] = rows[q]
  BY <1>1 DEF CreateRow
<1>3. UNCHANGED <<Done, Asked>>  BY SameDone, SameAsked, HistoryKept DEF CreateRow
<1>4. CASE r \notin OwnRuns  BY <1>2, <1>3, <1>4, OwnRun, SameStatus
<1>5. CASE r \in OwnRuns
  <2>1. rows[r] = <<>>  BY <1>5, Knows DEF CreateRow, At, RowShows, Early
  <2>2. Shown(r) = "absent" /\ Shown(r)' = "running"  BY <1>2, <2>1 DEF Shown
  <2>3. \A q \in OwnRuns \ {r} : Shown(q)' = Shown(q)  BY <1>2, OwnRun DEF Shown
  <2>4. Status[r] = "absent" /\ Status' = [Status EXCEPT ![r] = "running"]
    BY <1>5, <2>2, <2>3 DEF Status
  <2>. QED  BY <1>3, <1>5, <2>4, MapsToCreate
<1>. QED  BY <1>4, <1>5

LEMMA SaveResultMaps == ASSUME IInv, NEW c \in Calls, SaveResult(c)
                        PROVE  Lifecycle!LifecycleNext \/ UNCHANGED <<Status, Done, Asked>>
<1>. DEFINE r == RunOf[c]
            outcome == call[c].at
<1>1. rows \in [Runs -> Seq(RunStatus)] /\ r \in Runs  BY Knows DEF IInv, TypeOK
<1>2. rows'[r] = [rows[r] EXCEPT ![1] = outcome] /\ \A q \in Runs \ {r} : rows'[q] = rows[q]
  BY <1>1 DEF SaveResult
<1>3. UNCHANGED <<Done, Asked>>  BY SameDone, SameAsked, HistoryKept DEF SaveResult
<1>4. CASE r \notin OwnRuns  BY <1>2, <1>3, <1>4, OwnRun, SameStatus
<1>5. CASE r \in OwnRuns
  <2>1. outcome \in {"completed", "failed", "cancelled"} /\ outcome \in Live
    BY DEF SaveResult, At, Live
  <2>2. rows[r] # <<>> /\ rows[r][1] = "running"  BY <1>5, <2>1, Knows DEF RowShows
  <2>3. rows[r] \in Seq(RunStatus) /\ Len(rows[r]) >= 1  BY <1>1, <2>2
  <2>4. rows'[r][1] = outcome /\ rows'[r] # <<>>  BY <1>2, <2>3
  <2>5. Shown(r) = "running" /\ Shown(r)' = outcome  BY <2>2, <2>4 DEF Shown
  <2>6. \A q \in OwnRuns \ {r} : Shown(q)' = Shown(q)  BY <1>2, OwnRun DEF Shown
  <2>7. Status[r] = "running" /\ Status' = [Status EXCEPT ![r] = outcome]
    BY <1>5, <2>5, <2>6 DEF Status
  <2>8. CallOf(r) = c  BY <1>5, OwnCall
  <2>9. outcome = "completed" => Done[r] = Steps
    <3>1. outcome = "completed" => Completed(c) = Steps
      BY <2>1, Knows DEF Progress
    <3>. QED  BY <1>5, <2>8, <3>1 DEF Done
  <2>10. outcome = "cancelled" => Asked[r]
    <3>1. outcome = "cancelled" => c \in aborted \cup resigned  BY Knows DEF Progress
    <3>. QED  BY <1>5, <2>8, <3>1 DEF Asked
  <2>. QED  BY <1>3, <1>5, <2>1, <2>7, <2>9, <2>10, MapsToEnd
<1>. QED  BY <1>4, <1>5

LEMMA EmitMaps == ASSUME IInv, NEW c \in Calls, Emit(c)
                  PROVE  Lifecycle!LifecycleNext \/ UNCHANGED <<Status, Done, Asked>>
<1>. DEFINE r == RunOf[c]
            t == Emits[call[c].at]
<1>1. t \in EventTypes /\ (t = "step.completed" <=> call[c].at = "stepped")
  BY EmitsAre DEF Emit
<1>2. /\ \A d \in Calls \ {c} : Completed(d)' = Completed(d)
      /\ Completed(c)' = IF t = "step.completed" THEN Completed(c) + 1 ELSE Completed(c)
  BY <1>1, RecordType, HistoryKept DEF Emit, IInv
<1>3. UNCHANGED <<Status, Asked>>  BY SameStatus, SameAsked DEF Emit
<1>4. CASE call[c].at # "stepped"  BY <1>1, <1>2, <1>3, <1>4, SameDone
<1>5. CASE r \notin OwnRuns
  <2>1. \A q \in OwnRuns : CallOf(q) \in Calls \ {c}  BY <1>5, OwnRun
  <2>2. \A q \in OwnRuns : Completed(CallOf(q))' = Completed(CallOf(q))  BY <1>2, <2>1
  <2>3. Done' = Done  BY <2>2 DEF Done
  <2>. QED  BY <1>3, <2>3
<1>6. CASE r \in OwnRuns /\ call[c].at = "stepped"
  <2>1. CallOf(r) = c  BY <1>6, OwnCall
  <2>2. Completed(c) = call[c].step - 1 /\ call[c].step <= Steps
    BY <1>6, Knows DEF Progress, InStep, Live
  <2>3. Completed(c)' = Completed(c) + 1 /\ Completed(c) < Steps
    BY <1>1, <1>2, <1>6, <2>2, Knows
  <2>4. \A q \in OwnRuns \ {r} : CallOf(q) \in Calls \ {c}  BY OwnRun
  <2>5. \A q \in OwnRuns \ {r} : Completed(CallOf(q))' = Completed(CallOf(q))
    BY <1>2, <2>4
  <2>6. Completed(CallOf(r))' = Completed(CallOf(r)) + 1 /\ Completed(CallOf(r)) < Steps
    BY <2>1, <2>3
  <2>7. Done[r] < Steps /\ Done' = [Done EXCEPT ![r] = @ + 1]
    BY <1>6, <2>5, <2>6 DEF Done
  <2>8. Shown(r) = "running"
    BY <1>6, Knows DEF RowShows, Live, Shown
  <2>9. Status[r] = "running"  BY <1>6, <2>8 DEF Status
  <2>. QED  BY <1>3, <1>6, <2>7, <2>9, MapsToAdvance
<1>. QED  BY <1>4, <1>5, <1>6

LEMMA HandlerEmitsMaps == ASSUME IInv, NEW c \in Calls, HandlerEmits(c)
                          PROVE  UNCHANGED <<Status, Done, Asked>>
<1>1. "note" \in EventTypes  BY DEF EventTypes
<1>2. \A d \in Calls : Completed(d)' = Completed(d)
  BY <1>1, RecordType, HistoryKept DEF HandlerEmits, IInv
<1>. QED  BY <1>2, SameStatus, SameDone, SameAsked DEF HandlerEmits

LEMMA CancelMaps == ASSUME IInv, NEW q \in Runs, Cancel(q)
                    PROVE  Lifecycle!LifecycleNext \/ UNCHANGED <<Status, Done, Asked>>
<1>1. /\ controllers[q] \in Calls
      /\ aborted' = aborted \cup {controllers[q]} /\ resigned' = resigned
  BY DEF Cancel, IInv, TypeOK
<1>2. UNCHANGED <<Status, Done>>  BY SameStatus, SameDone, HistoryKept DEF Cancel
<1>. QED  BY <1>1, <1>2, MapsToAskOf

\* A handler that throws an error ends the attempt, and may ask for the end
\* of the run.
LEMMA HandlerThrowsMaps == ASSUME IInv, NEW c \in Calls, HandlerThrows(c)
                           PROVE  Lifecycle!LifecycleNext \/ UNCHANGED <<Status, Done, Asked>>
<1>1. UNCHANGED <<Status, Done>>  BY SameStatus, SameDone, HistoryKept DEF HandlerThrows
<1>2. CASE resigned' = resigned  BY <1>1, <1>2, SameAsked DEF HandlerThrows
<1>3. CASE resigned' = resigned \cup {c}
  <2>1. aborted' \cup resigned' = aborted \cup resigned \cup {c}
    BY <1>3 DEF HandlerThrows
  <2>. QED  BY <1>1, <2>1, MapsToAskOf
<1>. QED  BY <1>2, <1>3 DEF HandlerThrows

LEMMA StepMaps ==
    ASSUME IInv, [Next]_vars
    PROVE  Lifecycle!LifecycleNext \/ UNCHANGED <<Status, Done, Asked>>
<1>1. ASSUME UNCHANGED <<rows, history, aborted, resigned>>
      PROVE  UNCHANGED <<Status, Done, Asked>>
  BY <1>1, SameStatus, SameDone, SameAsked, HistoryKept
<1>2. ASSUME NEW c \in Calls, Start(c) \/ Step(c) \/ HandlerEmits(c) \/ AbandonedEnds(c)
      PROVE  Lifecycle!LifecycleNext \/ UNCHANGED <<Status, Done, Asked>>
  <2>1. CASE CreateRow(c)  BY <2>1, CreateRowMaps
  <2>2. CASE SaveResult(c)  BY <2>2, SaveResultMaps
  <2>3. CASE Emit(c)  BY <2>3, EmitMaps
  <2>4. CASE HandlerEmits(c)  BY <2>4, HandlerEmitsMaps
  <2>5. CASE HandlerThrows(c)  BY <2>5, HandlerThrowsMaps
  <2>6. CASE UNCHANGED <<rows, history, aborted, resigned>>  BY <2>6, <1>1
  <2>. QED
    BY <1>2, <2>1, <2>2, <2>3, <2>4, <2>5, <2>6
    DEF Start, Step, AbandonedEnds, Register, Loop, Invoke, HandlerReturns, Timeout,
        StopHandler, Rejected
<1>3. ASSUME NEW r \in Runs, Cancel(r)
      PROVE  Lifecycle!LifecycleNext \/ UNCHANGED <<Status, Done, Asked>>
  BY <1>3, CancelMaps
<1>4. CASE WriteFails \/ Crash \/ UNCHANGED vars
  BY <1>1, <1>4 DEF WriteFails, Crash, vars
<1>. QED  BY <1>2, <1>3, <1>4 DEF Next

\* What the state file shows of a run is a life of a run as RunLifecycle has
\* it: each step of the runtime is one of its steps or leaves the run alone.
THEOREM RuntimeImplementsLifecycle == Spec => ImplementsLifecycle
<1>1. Init => Lifecycle!LifecycleInit
  <2>. SUFFICES ASSUME Init PROVE Lifecycle!LifecycleInit  OBVIOUS
  <2>1. \A r \in OwnRuns : Shown(r) = "absent" /\ CallOf(r) \in Calls
    BY OwnRun DEF Init, Shown
  <2>2. \A c \in Calls : Completed(c) = 0  BY CountEmpty DEF Init, Completed, Count
  <2>3. /\ Status = [r \in OwnRuns |-> "absent"]
        /\ Done = [r \in OwnRuns |-> 0]
        /\ Asked = [r \in OwnRuns |-> FALSE]
    <3>1. \A r \in OwnRuns : Completed(CallOf(r)) = 0  BY <2>1, <2>2
    <3>2. \A r \in OwnRuns : (CallOf(r) \in aborted \cup resigned) = FALSE  BY DEF Init
    <3>3. Status = [r \in OwnRuns |-> "absent"]  BY <2>1 DEF Status
    <3>4. Done = [r \in OwnRuns |-> 0]  BY <3>1 DEF Done
    <3>5. Asked = [r \in OwnRuns |-> FALSE]  BY <3>2 DEF Asked
    <3>. QED  BY <3>3, <3>4, <3>5
  <2>. QED  BY <2>3, Mapping
<1>2. IInv /\ [Next]_vars => [Lifecycle!LifecycleNext]_(Lifecycle!lifecycleVars)
  <2>. SUFFICES ASSUME IInv, [Next]_vars
                PROVE  [Lifecycle!LifecycleNext]_(Lifecycle!lifecycleVars)
    OBVIOUS
  <2>1. UNCHANGED <<Status, Done, Asked>> => UNCHANGED Lifecycle!lifecycleVars
    BY Mapping
       DEF Lifecycle!lifecycleVars, Status, Shown, Done, Asked, Completed
  <2>. QED  BY <2>1, StepMaps
<1>. QED
  BY <1>1, <1>2, RuntimeInvariant, PTL DEF Spec, ImplementsLifecycle, Lifecycle!LifecycleSpec
===============================================================================
