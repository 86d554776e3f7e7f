--------------------------- MODULE ControlApiProofs ---------------------------
(***************************************************************************)
(* Proofs about the control API and the identity file, for any number of   *)
(* requests, users and faults: what was answered stands, and a credential  *)
(* whose end was answered opens nothing.                                   *)
(***************************************************************************)
EXTENDS ControlApi, TLAPS

-----------------------------------------------------------------------------
(* The inductive invariant. *)

IsCall(k) ==
    k = [stage |-> k.stage, ask |-> k.ask, who |-> k.who, dead |-> k.dead, ok |-> k.ok]

Resting == {"idle", "done", "lost"}

\* The stages in which a call waits for an update of each kind.
Awaits(kind, stage) ==
    \/ kind = "bootstrap" /\ stage = "bootstrapping"
    \/ kind = "session" /\ stage = "opening"
    \/ kind = "token" /\ stage = "issuing"
    \/ kind \in {"logout", "revoke"} /\ stage = "revoking"
    \/ kind = "audit" /\ stage \in {"refusing", "deciding", "auditing"}

\* Job j is what a call at the given stage waits for.
Suits(j, stage) ==
    /\ Awaits(j.kind, stage)
    /\ j.kind = "bootstrap" => j.user \in Users

\* What a call is: one under way is one of those offered, the script only
\* bootstraps, and one that came with one of the credentials in gone will be
\* refused.
CallForm(c, k, gone) ==
    /\ IsCall(k)
    /\ k.stage \notin Resting => k.ask \in Offered[c]
    /\ c = Script => k.stage \in Resting \cup {"bootstrapping"}
    /\ k.dead =>
          /\ k.stage \in {"checking", "authenticating", "refusing", "done"}
          /\ ~k.ok
          /\ k.stage \in {"checking", "authenticating"} =>
                /\ k.ask.cred \in gone
                /\ ~Routes[k.ask.route].public
                /\ k.who = None

IsQueue(q) == \E S : q \in Seq(S)

\* The updates that wait in process p, when the calls are as in f: each is what
\* its call waits for, and no call waits twice.
QueueForm(q, p, f) ==
    /\ IsQueue(q)
    /\ \A i \in DOMAIN q :
          /\ q[i].call \in Calls
          /\ Home(q[i].call) = p
          /\ Suits(q[i], f[q[i].call].stage)
    /\ \A i, j \in DOMAIN q : q[i].call = q[j].call => i = j

StoreQueueInv ==
    /\ IsQueue(storeQueue)
    /\ \A i \in DOMAIN storeQueue :
          /\ storeQueue[i] \in Calls
          /\ calls[storeQueue[i]].stage \in {"saving", "done", "lost"}
          /\ ~calls[storeQueue[i]].dead

\* The name of a credential is that of a call that is over.
Over(x) == x \in Calls /\ (calls[x].stage \in {"done", "lost"} \/ Offered[x] = {})

Names(s) == DOMAIN s.sessions \cup DOMAIN s.tokens

EndedRevoked(s) ==
    \A x \in ended :
       /\ x \in DOMAIN s.sessions => s.sessions[x].revoked
       /\ x \in DOMAIN s.tokens => s.tokens[x].revoked

StateInv(s) == StateForm(s) /\ \A x \in Names(s) : Over(x)

\* The file and what was read of it; what the server will write still revokes
\* every credential whose end was answered.
FileInv ==
    /\ StateInv(file) /\ EndedRevoked(file)
    /\ \A p \in Procs : snapshot[p] # None => StateInv(snapshot[p])
    /\ snapshot["api"] # None => EndedRevoked(snapshot["api"])
    /\ \A x \in ended : Over(x)
    /\ overlapped \/ issued \subseteq Names(file)

IInv ==
    /\ calls = [c \in Calls |-> calls[c]]
    /\ \A c \in Calls : CallForm(c, calls[c], ended)
    /\ queue = [p \in Procs |-> queue[p]]
    /\ snapshot = [p \in Procs |-> snapshot[p]]
    /\ \A p \in Procs : QueueForm(queue[p], p, calls)
    /\ StoreQueueInv
    /\ FileInv
    /\ kept \subseteq runs

-----------------------------------------------------------------------------
(* Queues. *)

LEMMA AppendIs ==
    ASSUME NEW q, IsQueue(q), NEW e
    PROVE  /\ IsQueue(Append(q, e))
           /\ Len(q) \in Nat /\ DOMAIN q = 1 .. Len(q)
           /\ DOMAIN Append(q, e) = 1 .. Len(q) + 1
           /\ \A i \in 1 .. Len(q) : Append(q, e)[i] = q[i]
           /\ Append(q, e)[Len(q) + 1] = e
<1>1. PICK S : q \in Seq(S)  BY DEF IsQueue
<1>2. PICK T : T = S \cup {e}  OBVIOUS
<1>3. q \in Seq(T) /\ e \in T  BY <1>1, <1>2
<1>4. Append(q, e) \in Seq(T)  BY <1>3
<1>. QED  BY <1>3, <1>4 DEF IsQueue

LEMMA TailIs ==
    ASSUME NEW q, IsQueue(q), q # <<>>
    PROVE  /\ IsQueue(Tail(q))
           /\ 1 \in DOMAIN q /\ Head(q) = q[1]
           /\ \A i \in DOMAIN Tail(q) : i \in Nat /\ i + 1 \in DOMAIN q /\ Tail(q)[i] = q[i + 1]
<1>1. PICK S : q \in Seq(S)  BY DEF IsQueue
<1>2. Tail(q) \in Seq(S)  BY <1>1
<1>. QED  BY <1>1, <1>2 DEF IsQueue

LEMMA EmptyIs == IsQueue(<<>>) /\ DOMAIN <<>> = {}
<1>1. <<>> \in Seq({})  OBVIOUS
<1>. QED  BY <1>1 DEF IsQueue

LEMMA QueueStays ==
    ASSUME NEW q, NEW p, NEW f, NEW g, QueueForm(q, p, f),
           \A i \in DOMAIN q : g[q[i].call].stage = f[q[i].call].stage
    PROVE  QueueForm(q, p, g)
BY DEF QueueForm

LEMMA QueueGrows ==
    ASSUME NEW q, NEW p, NEW f, QueueForm(q, p, f), NEW e,
           e.call \in Calls, Home(e.call) = p, Suits(e, f[e.call].stage),
           \A i \in DOMAIN q : q[i].call # e.call
    PROVE  QueueForm(Append(q, e), p, f)
<1>1. IsQueue(q)  BY DEF QueueForm
<1>2. PICK r : r = Append(q, e)  OBVIOUS
<1>3. PICK n : n = Len(q)  OBVIOUS
<1>4. /\ IsQueue(r) /\ n \in Nat /\ DOMAIN q = 1 .. n /\ DOMAIN r = 1 .. n + 1
      /\ \A i \in 1 .. n : r[i] = q[i]
      /\ r[n + 1] = e
  BY <1>1, <1>2, <1>3, AppendIs
<1>5. \A i \in DOMAIN r : i = n + 1 \/ (i # n + 1 /\ i \in DOMAIN q)  BY <1>4
<1>6. \A i \in DOMAIN r : /\ r[i].call \in Calls
                          /\ Home(r[i].call) = p
                          /\ Suits(r[i], f[r[i].call].stage)
  BY <1>4, <1>5 DEF QueueForm
<1>7. \A i, j \in DOMAIN r : r[i].call = r[j].call => i = j
  BY <1>4, <1>5 DEF QueueForm
<1>. QED  BY <1>2, <1>4, <1>6, <1>7 DEF QueueForm

LEMMA QueueShrinks ==
    ASSUME NEW q, NEW p, NEW f, QueueForm(q, p, f), q # <<>>
    PROVE  /\ QueueForm(Tail(q), p, f)
           /\ \A i \in DOMAIN Tail(q) : Tail(q)[i].call # Head(q).call
           /\ Head(q).call \in Calls /\ Home(Head(q).call) = p
           /\ Suits(Head(q), f[Head(q).call].stage)
<1>1. PICK r : r = Tail(q)  OBVIOUS
<1>2. IsQueue(q)  BY DEF QueueForm
<1>3. /\ IsQueue(r) /\ 1 \in DOMAIN q /\ Head(q) = q[1]
      /\ \A i \in DOMAIN r : i \in Nat /\ i + 1 \in DOMAIN q /\ r[i] = q[i + 1]
  BY <1>1, <1>2, TailIs
<1>4. DOMAIN r \subseteq Nat \ {0}
  <2>1. PICK S : r \in Seq(S)  BY <1>3 DEF IsQueue
  <2>. QED  BY <2>1
<1>5. \A i \in DOMAIN r : i + 1 # 1  BY <1>4
<1>6. QueueForm(r, p, f)
  <2>1. \A i, j \in DOMAIN r : r[i].call = r[j].call => i = j
    <3>. SUFFICES ASSUME NEW i \in DOMAIN r, NEW j \in DOMAIN r, r[i].call = r[j].call
                  PROVE  i = j
      OBVIOUS
    <3>1. i + 1 = j + 1  BY <1>3 DEF QueueForm
    <3>. QED  BY <1>4, <3>1
  <2>. QED  BY <1>3, <2>1 DEF QueueForm
<1>7. \A i \in DOMAIN r : r[i].call # q[1].call
  BY <1>3, <1>5 DEF QueueForm
<1>. QED  BY <1>1, <1>3, <1>6, <1>7 DEF QueueForm

-----------------------------------------------------------------------------
(* What becomes of a call. *)

\* An outcome that call c may take.
Fine(c, o) ==
    /\ CallForm(c, o.call, ended)
    /\ o.job # None => o.job.call = c /\ Suits(o.job, o.call.stage)
    /\ o.saves => o.call.stage = "saving" /\ ~o.call.dead

LEMMA OutcomeIs ==
    ASSUME NEW k, IsCall(k), NEW stage, NEW job
    PROVE  /\ Goes(k, stage) =
                 [call |-> [stage |-> stage, ask |-> k.ask, who |-> k.who, dead |-> k.dead, ok |-> k.ok],
                  job |-> None, saves |-> FALSE]
           /\ Waits(k, stage, job) =
                 [call |-> [stage |-> stage, ask |-> k.ask, who |-> k.who, dead |-> k.dead, ok |-> k.ok],
                  job |-> job, saves |-> FALSE]
           /\ Saves(k) =
                 [call |-> [stage |-> "saving", ask |-> k.ask, who |-> k.who, dead |-> k.dead, ok |-> k.ok],
                  job |-> None, saves |-> TRUE]
<1>1. \A s : [k EXCEPT !.stage = s] =
             [stage |-> s, ask |-> k.ask, who |-> k.who, dead |-> k.dead, ok |-> k.ok]
  BY DEF IsCall
<1>2. Goes(k, stage) =
         [call |-> [stage |-> stage, ask |-> k.ask, who |-> k.who, dead |-> k.dead, ok |-> k.ok],
          job |-> None, saves |-> FALSE]
  BY <1>1 DEF Goes
<1>3. Goes(k, "saving") =
         [call |-> [stage |-> "saving", ask |-> k.ask, who |-> k.who, dead |-> k.dead, ok |-> k.ok],
          job |-> None, saves |-> FALSE]
  BY <1>1 DEF Goes
<1>4. PICK l : l = [stage |-> stage, ask |-> k.ask, who |-> k.who, dead |-> k.dead, ok |-> k.ok]
  OBVIOUS
<1>5. PICK m : m = [stage |-> "saving", ask |-> k.ask, who |-> k.who, dead |-> k.dead, ok |-> k.ok]
  OBVIOUS
<1>6. PICK g : g = Goes(k, stage)  OBVIOUS
<1>7. PICK h : h = Goes(k, "saving")  OBVIOUS
<1>8. /\ g = [call |-> l, job |-> None, saves |-> FALSE]
      /\ h = [call |-> m, job |-> None, saves |-> FALSE]
  BY <1>2, <1>3, <1>4, <1>5, <1>6, <1>7
<1>9. [g EXCEPT !.job = job] = [call |-> l, job |-> job, saves |-> FALSE]
  <2>1. PICK x : x = [g EXCEPT !.job = job]  OBVIOUS
  <2>2. x \in [call : {l}, job : {job}, saves : {FALSE}]  BY <1>8, <2>1
  <2>3. x = [call |-> l, job |-> job, saves |-> FALSE]  BY <2>2
  <2>. QED  BY <2>1, <2>3, Zenon
<1>10. [h EXCEPT !.saves = TRUE] = [call |-> m, job |-> None, saves |-> TRUE]
  <2>1. PICK x : x = [h EXCEPT !.saves = TRUE]  OBVIOUS
  <2>2. x \in [call : {m}, job : {None}, saves : {TRUE}]  BY <1>8, <2>1
  <2>3. x = [call |-> m, job |-> None, saves |-> TRUE]  BY <2>2
  <2>. QED  BY <2>1, <2>3, Zenon
<1>11. Waits(k, stage, job) = [call |-> l, job |-> job, saves |-> FALSE]
  BY <1>6, <1>9 DEF Waits
<1>12. Saves(k) = [call |-> m, job |-> None, saves |-> TRUE]
  BY <1>7, <1>10 DEF Saves
<1>. QED  BY <1>2, <1>4, <1>5, <1>11, <1>12

LEMMA AnswerIs ==
    ASSUME NEW k, NEW code
    PROVE  Answer(k, code) =
              [call |-> [stage |-> "done", ask |-> None, who |-> None, dead |-> k.dead,
                         ok |-> (code = "ok")],
               job |-> None, saves |-> FALSE]
<1>0. PICK b : b = (code = "ok")  OBVIOUS
<1>1. PICK l : l = [stage |-> "idle", ask |-> None, who |-> None, dead |-> k.dead, ok |-> b]
  OBVIOUS
<1>2. [NoCall EXCEPT !.dead = k.dead, !.ok = b] = l
  <2>1. PICK x : x = [NoCall EXCEPT !.dead = k.dead, !.ok = b]  OBVIOUS
  <2>2. x \in [stage : {"idle"}, ask : {None}, who : {None}, dead : {k.dead}, ok : {b}]
    BY <2>1 DEF NoCall
  <2>3. x = l  BY <1>1, <2>2
  <2>. QED  BY <2>1, <2>3, Zenon
<1>3. IsCall(l)  BY <1>1 DEF IsCall
<1>4. Goes(l, "done") =
         [call |-> [stage |-> "done", ask |-> l.ask, who |-> l.who, dead |-> l.dead, ok |-> l.ok],
          job |-> None, saves |-> FALSE]
  BY <1>3, OutcomeIs
<1>5. l.ask = None /\ l.who = None /\ l.dead = k.dead /\ l.ok = b  BY <1>1
<1>6. Goes(l, "done") =
         [call |-> [stage |-> "done", ask |-> None, who |-> None, dead |-> k.dead, ok |-> b],
          job |-> None, saves |-> FALSE]
  BY <1>4, <1>5
<1>7. Answer(k, code) = Goes([NoCall EXCEPT !.dead = k.dead, !.ok = b], "done")
  BY <1>0, Zenon DEF Answer
<1>. QED  BY <1>0, <1>2, <1>6, <1>7, Zenon

LEMMA AnswerFine ==
    ASSUME NEW c, NEW k, NEW code, k.dead => code # "ok"
    PROVE  Fine(c, Answer(k, code)) /\ Answer(k, code).call.stage = "done"
<1>1. PICK l : l = [stage |-> "done", ask |-> None, who |-> None, dead |-> k.dead, ok |-> (code = "ok")]
  OBVIOUS
<1>2. CallForm(c, l, ended)  BY <1>1 DEF CallForm, IsCall, Resting
<1>3. Answer(k, code) = [call |-> l, job |-> None, saves |-> FALSE]  BY <1>1, AnswerIs
<1>. QED  BY <1>1, <1>2, <1>3 DEF Fine

LEMMA FailedFine ==
    ASSUME NEW c, NEW k
    PROVE  Fine(c, Failed(k)) /\ Failed(k).call.stage = "done"
BY AnswerFine DEF Failed

\* A live call goes on without waiting, or to save.
LEMMA GoesFine ==
    ASSUME NEW c, c # Script, NEW k, IsCall(k), k.ask \in Offered[c], ~k.dead, NEW stage
    PROVE  Fine(c, Goes(k, stage)) /\ Fine(c, Saves(k))
<1>1. ASSUME NEW s
      PROVE  CallForm(c, [stage |-> s, ask |-> k.ask, who |-> k.who, dead |-> k.dead, ok |-> k.ok], ended)
  BY DEF CallForm, IsCall
<1>2. PICK l : l = [stage |-> stage, ask |-> k.ask, who |-> k.who, dead |-> k.dead, ok |-> k.ok]
  OBVIOUS
<1>3. PICK m : m = [stage |-> "saving", ask |-> k.ask, who |-> k.who, dead |-> k.dead, ok |-> k.ok]
  OBVIOUS
<1>4. /\ Goes(k, stage) = [call |-> l, job |-> None, saves |-> FALSE]
      /\ Saves(k) = [call |-> m, job |-> None, saves |-> TRUE]
  BY <1>2, <1>3, OutcomeIs
<1>5. CallForm(c, l, ended) /\ CallForm(c, m, ended)  BY <1>1, <1>2, <1>3
<1>6. m.stage = "saving" /\ ~m.dead  BY <1>3
<1>. QED  BY <1>4, <1>5, <1>6 DEF Fine

LEMMA WaitsFine ==
    ASSUME NEW c, NEW k, IsCall(k), k.ask \in Offered[c], NEW stage, NEW job,
           k.dead => stage = "refusing" /\ ~k.ok,
           c = Script => stage = "bootstrapping",
           job.call = c, Suits(job, stage)
    PROVE  Fine(c, Waits(k, stage, job))
<1>1. PICK l : l = [stage |-> stage, ask |-> k.ask, who |-> k.who, dead |-> k.dead, ok |-> k.ok]
  OBVIOUS
<1>2. CallForm(c, l, ended)  BY <1>1 DEF CallForm, IsCall
<1>3. Waits(k, stage, job) = [call |-> l, job |-> job, saves |-> FALSE]  BY <1>1, OutcomeIs
<1>4. l.stage = stage  BY <1>1
<1>. QED  BY <1>2, <1>3, <1>4 DEF Fine

LEMMA JobIs ==
    ASSUME NEW kind, NEW c, NEW user, NEW target, NEW q
    PROVE  /\ Job(kind, c, user, target, q).kind = kind
           /\ Job(kind, c, user, target, q).call = c
           /\ Job(kind, c, user, target, q).user = user
BY DEF Job

LEMMA AuditSuits ==
    ASSUME NEW c, NEW k, NEW stage \in {"refusing", "deciding", "auditing"}
    PROVE  Audit(c, k).call = c /\ Suits(Audit(c, k), stage)
<1>1. Audit(c, k).kind = "audit" /\ Audit(c, k).call = c  BY JobIs DEF Audit
<1>. QED  BY <1>1 DEF Suits, Awaits

\* executeOperation starts a live call in one of these ways.
LEMMA PerformIs ==
    ASSUME NEW c, NEW k
    PROVE  \/ /\ k.ask.route = "bootstrapOwner"
              /\ Perform(c, k) =
                    Waits(k, "bootstrapping", Job("bootstrap", c, k.ask.user, None, k.ask))
           \/ /\ k.ask.route # "bootstrapOwner"
              /\ \/ \E stage : Perform(c, k) = Goes(k, stage)
                 \/ Perform(c, k) = Saves(k)
                 \/ Perform(c, k) = Failed(k)
                 \/ \E user, target :
                       \/ Perform(c, k) =
                             Waits(k, "revoking", Job("logout", c, user, target, k.ask))
                       \/ Perform(c, k) =
                             Waits(k, "revoking", Job("revoke", c, user, target, k.ask))
                       \/ Perform(c, k) =
                             Waits(k, "issuing", Job("token", c, user, target, k.ask))
BY DEF Perform

LEMMA PerformFine ==
    ASSUME NEW c \in Calls, NEW k, IsCall(k), k.ask \in Offered[c], ~k.dead
    PROVE  Fine(c, Perform(c, k))
<1>1. c = Script => k.ask.route = "bootstrapOwner"  BY RequestAssumption
<1>2. CASE k.ask.route = "bootstrapOwner"
  <2>1. PICK j : j = Job("bootstrap", c, k.ask.user, None, k.ask)  OBVIOUS
  <2>2. j.kind = "bootstrap" /\ j.call = c /\ j.user = k.ask.user  BY <2>1, JobIs
  <2>3. k.ask.user \in Users  BY <1>2, RequestAssumption
  <2>4. Suits(j, "bootstrapping")  BY <2>2, <2>3 DEF Suits, Awaits
  <2>5. Perform(c, k) = Waits(k, "bootstrapping", j)  BY <1>2, <2>1, PerformIs
  <2>. QED  BY <2>2, <2>4, <2>5, WaitsFine
<1>3. CASE k.ask.route # "bootstrapOwner"
  <2>1. c # Script  BY <1>1, <1>3
  <2>2. ASSUME NEW stage, Perform(c, k) = Goes(k, stage)  PROVE Fine(c, Perform(c, k))
    BY <2>1, <2>2, GoesFine
  <2>3. CASE Perform(c, k) = Saves(k)  BY <2>1, <2>3, GoesFine
  <2>4. CASE Perform(c, k) = Failed(k)  BY <2>4, FailedFine
  <2>5. ASSUME NEW stage, NEW kind, Awaits(kind, stage), kind # "bootstrap",
               NEW user, NEW target,
               Perform(c, k) = Waits(k, stage, Job(kind, c, user, target, k.ask))
        PROVE  Fine(c, Perform(c, k))
    <3>1. PICK j : j = Job(kind, c, user, target, k.ask)  OBVIOUS
    <3>2. j.call = c /\ Suits(j, stage)  BY <2>5, <3>1, JobIs DEF Suits
    <3>. QED  BY <2>1, <2>5, <3>1, <3>2, WaitsFine
  <2>6. Awaits("logout", "revoking") /\ Awaits("revoke", "revoking") /\ Awaits("token", "issuing")
    BY DEF Awaits
  <2>. QED  BY <1>3, <2>2, <2>3, <2>4, <2>5, <2>6, PerformIs
<1>. QED  BY <1>2, <1>3

LEMMA DecidedFine ==
    ASSUME NEW c \in Calls, NEW k, IsCall(k), k.ask \in Offered[c], ~k.dead, NEW audited
    PROVE  Fine(c, Decided(c, k, audited))
<1>1. \/ \E code : Decided(c, k, audited) = Answer(k, code)
      \/ Decided(c, k, audited) = Perform(c, k)
  BY DEF Decided
<1>. QED  BY <1>1, AnswerFine, PerformFine

\* A call with an ended credential is refused once that is known.
LEMMA IdentifiedFine ==
    ASSUME NEW c \in Calls, c # Script, NEW k, IsCall(k), k.ask \in Offered[c],
           k.dead => k.who = None /\ ~k.ok
    PROVE  Fine(c, Identified(c, k))
<1>1. CASE k.who = None
  <2>1. Identified(c, k) = Waits(k, "refusing", Audit(c, k))  BY <1>1 DEF Identified
  <2>. QED  BY <2>1, AuditSuits, WaitsFine
<1>2. CASE k.who # None
  <2>1. \/ \E code : Identified(c, k) = Answer(k, code)
        \/ Identified(c, k) = Waits(k, "deciding", Audit(c, k))
        \/ Identified(c, k) = Perform(c, k)
    BY <1>2 DEF Identified
  <2>. QED  BY <1>2, <2>1, AnswerFine, AuditSuits, WaitsFine, PerformFine
<1>. QED  BY <1>1, <1>2

\* How a call goes on after its update; one that was opening a session or
\* issuing a token is over.
LEMMA ContinueFine ==
    ASSUME NEW c \in Calls, NEW k, CallForm(c, k, ended), NEW j, Suits(j, k.stage), NEW error
    PROVE  /\ Fine(c, Continue(c, k, error))
           /\ k.stage \in {"opening", "issuing"} => Continue(c, k, error).call.stage = "done"
<1>1. /\ IsCall(k) /\ k.stage \notin Resting /\ k.ask \in Offered[c]
      /\ c = Script => k.stage = "bootstrapping"
      /\ k.dead => k.stage = "refusing"
  BY DEF CallForm, Suits, Awaits, Resting
<1>2. ASSUME NEW code, Continue(c, k, error) = Answer(k, code), k.dead => code # "ok"
      PROVE  Fine(c, Continue(c, k, error)) /\ Continue(c, k, error).call.stage = "done"
  BY <1>2, AnswerFine
<1>3. CASE k.stage = "deciding"
  <2>1. Continue(c, k, error) = Decided(c, k, error = None)  BY <1>3 DEF Continue
  <2>2. PICK b : b = (error = None)  OBVIOUS
  <2>3. Fine(c, Decided(c, k, b))  BY <1>1, <1>3, DecidedFine
  <2>. QED  BY <1>3, <2>1, <2>2, <2>3, Zenon
<1>4. CASE k.stage # "deciding" /\ error # None
  <2>1. \/ Continue(c, k, error) = Answer(k, "already_bootstrapped")
        \/ Continue(c, k, error) = Answer(k, "internal_error")
    BY <1>4 DEF Continue, Failed
  <2>. QED  BY <1>2, <2>1
<1>5. CASE k.stage # "deciding" /\ error = None
  <2>0. error # "already_bootstrapped"  BY <1>5, IdentityAssumption
  <2>1. CASE k.stage = "refusing"
    <3>1. Continue(c, k, error) = Answer(k, "authentication_required")
      BY <1>5, <2>0, <2>1 DEF Continue
    <3>. QED  BY <1>2, <2>1, <3>1
  <2>2. CASE k.stage # "refusing" /\ \E code : Continue(c, k, error) = Answer(k, code)
    BY <1>1, <1>2, <2>2
  <2>3. ASSUME NEW user, c # Script, k.stage \in {"auditing", "bootstrapping"},
               Continue(c, k, error) = Waits(k, "opening", Job("session", c, user, None, k.ask))
        PROVE  Fine(c, Continue(c, k, error))
    <3>1. PICK i : i = Job("session", c, user, None, k.ask)  OBVIOUS
    <3>2. i.call = c /\ Suits(i, "opening")  BY <3>1, JobIs DEF Suits, Awaits
    <3>. QED  BY <1>1, <2>3, <3>1, <3>2, WaitsFine
  <2>4. \/ k.stage = "refusing"
        \/ \E code : Continue(c, k, error) = Answer(k, code)
        \/ \E user : /\ c # Script /\ k.stage \in {"auditing", "bootstrapping"}
                     /\ Continue(c, k, error) =
                           Waits(k, "opening", Job("session", c, user, None, k.ask))
    BY <1>1, <1>5, <2>0 DEF Continue
  <2>. QED  BY <2>1, <2>2, <2>3, <2>4
<1>. QED  BY <1>3, <1>4, <1>5

-----------------------------------------------------------------------------
(* A call moves. *)

\* What the rest of the invariant does not see.
CallsInv ==
    /\ calls = [c \in Calls |-> calls[c]]
    /\ \A c \in Calls : CallForm(c, calls[c], ended)
    /\ queue = [p \in Procs |-> queue[p]]
    /\ \A p \in Procs : QueueForm(queue[p], p, calls)
    /\ StoreQueueInv

LEMMA HomeIs == \A c : Home(c) \in Procs
BY IdentityAssumption DEF Home

LEMMA MovesInv ==
    ASSUME IInv, NEW c \in Calls, calls[c].stage \notin {"saving", "done", "lost"},
           NEW rest, QueueForm(rest, Home(c), calls),
           \A i \in DOMAIN rest : rest[i].call # c,
           NEW o, Fine(c, o), Moves(c, o, rest), ended \subseteq ended'
    PROVE  /\ CallsInv'
           /\ calls'[c] = o.call
           /\ \A x : Over(x) => Over(x)'
<1>1. /\ calls' = [calls EXCEPT ![c] = o.call]
      /\ queue' = [queue EXCEPT ![Home(c)] = IF o.job = None THEN rest ELSE Append(rest, o.job)]
      /\ storeQueue' = IF o.saves THEN Append(storeQueue, c) ELSE storeQueue
  BY DEF Moves
<1>2. /\ calls' = [d \in Calls |-> calls'[d]] /\ calls'[c] = o.call
      /\ \A d \in Calls : d # c => calls'[d] = calls[d]
  BY <1>1 DEF IInv
<1>3. \A d \in Calls : CallForm(d, calls'[d], ended')
  <2>1. ASSUME NEW d, NEW k, CallForm(d, k, ended)  PROVE CallForm(d, k, ended')
    BY <2>1 DEF CallForm
  <2>2. \A d \in Calls : CallForm(d, calls'[d], ended)  BY <1>2 DEF IInv, Fine
  <2>. QED  BY <2>1, <2>2
<1>4. ASSUME NEW p \in Procs  PROVE QueueForm(queue'[p], p, calls')
  <2>1. CASE p # Home(c)
    <3>1. queue'[p] = queue[p] /\ QueueForm(queue[p], p, calls)  BY <1>1, <2>1 DEF IInv
    <3>2. \A i \in DOMAIN queue[p] : queue[p][i].call \in Calls \ {c}
      BY <2>1, <3>1 DEF QueueForm
    <3>. QED  BY <1>2, <3>1, <3>2, QueueStays
  <2>2. CASE p = Home(c)
    <3>1. queue'[p] = IF o.job = None THEN rest ELSE Append(rest, o.job)
      BY <1>1, <2>2 DEF IInv
    <3>2. \A i \in DOMAIN rest : rest[i].call \in Calls \ {c}  BY DEF QueueForm
    <3>3. QueueForm(rest, p, calls')  BY <1>2, <2>2, <3>2, QueueStays
    <3>4. ASSUME o.job # None  PROVE QueueForm(Append(rest, o.job), p, calls')
      <4>1. o.job.call = c /\ Suits(o.job, calls'[o.job.call].stage)
        BY <1>2, <3>4 DEF Fine
      <4>. QED  BY <2>2, <3>3, <4>1, QueueGrows
    <3>. QED  BY <3>1, <3>3, <3>4
  <2>. QED  BY <2>1, <2>2
<1>5. queue' = [p \in Procs |-> queue'[p]]  BY <1>1 DEF IInv
<1>6. StoreQueueInv'
  <2>1. IsQueue(storeQueue)  BY DEF IInv, StoreQueueInv
  <2>2. \A i \in DOMAIN storeQueue :
           /\ storeQueue[i] \in Calls
           /\ calls'[storeQueue[i]].stage \in {"saving", "done", "lost"}
           /\ ~calls'[storeQueue[i]].dead
    BY <1>2 DEF IInv, StoreQueueInv
  <2>3. CASE ~o.saves  BY <1>1, <2>1, <2>2, <2>3 DEF StoreQueueInv
  <2>4. CASE o.saves
    <3>1. storeQueue' = Append(storeQueue, c)  BY <1>1, <2>4
    <3>2. calls'[c].stage = "saving" /\ ~calls'[c].dead  BY <1>2, <2>4 DEF Fine
    <3>3. PICK n : n = Len(storeQueue)  OBVIOUS
    <3>4. /\ IsQueue(storeQueue') /\ n \in Nat /\ DOMAIN storeQueue = 1 .. n
          /\ DOMAIN storeQueue' = 1 .. n + 1
          /\ \A i \in 1 .. n : storeQueue'[i] = storeQueue[i]
          /\ storeQueue'[n + 1] = c
      BY <2>1, <3>1, <3>3, AppendIs
    <3>5. \A i \in DOMAIN storeQueue' : i = n + 1 \/ i \in DOMAIN storeQueue  BY <3>4
    <3>. QED  BY <2>2, <3>2, <3>4, <3>5 DEF StoreQueueInv
  <2>. QED  BY <2>3, <2>4
<1>7. \A x : Over(x) => Over(x)'
  <2>. SUFFICES ASSUME NEW x, Over(x)  PROVE Over(x)'  OBVIOUS
  <2>1. CASE Offered[x] = {}  BY <2>1 DEF Over
  <2>2. CASE x = c /\ Offered[x] # {}  BY <2>2 DEF Over
  <2>3. CASE x # c  BY <1>2, <2>3 DEF Over
  <2>. QED  BY <2>1, <2>2, <2>3
<1>. QED  BY <1>2, <1>3, <1>4, <1>5, <1>6, <1>7 DEF CallsInv

\* The stages in which a call waits for nothing that is queued.
Going == {"idle", "checking", "verifying", "authenticating", "executing", "running", "streaming"}

LEMMA StepsInv ==
    ASSUME IInv, NEW c \in Calls, calls[c].stage \in Going, NEW o, Fine(c, o), Steps(c, o)
    PROVE  IInv'
<1>1. /\ Moves(c, o, queue[Home(c)])
      /\ UNCHANGED <<file, snapshot, expired, overlapped, faults, runs, broken, issued, ended, kept>>
  BY DEF Steps
<1>2. QueueForm(queue[Home(c)], Home(c), calls)  BY HomeIs DEF IInv
<1>3. \A i \in DOMAIN queue[Home(c)] : queue[Home(c)][i].call # c
  BY <1>2 DEF QueueForm, Suits, Awaits, Going
<1>4. calls[c].stage \notin {"saving", "done", "lost"}  BY DEF Going
<1>5. CallsInv' /\ \A x : Over(x) => Over(x)'
  BY <1>1, <1>2, <1>3, <1>4, MovesInv
<1>6. \A s : StateInv(s) => StateInv(s)'
  BY <1>5 DEF StateInv, Names
<1>7. FileInv'
  BY <1>1, <1>5, <1>6 DEF IInv, FileInv, EndedRevoked
<1>. QED  BY <1>1, <1>5, <1>7 DEF IInv, CallsInv

-----------------------------------------------------------------------------
(* The steps of a request by itself. *)

LEMMA LoginIsPublic == Routes["login"].public
<1>1. "login" \in DOMAIN AuthRoutes /\ AuthRoutes["login"] = Open  BY DEF AuthRoutes
<1>2. Routes["login"] = Open  BY <1>1 DEF Routes, Pushed
<1>. QED  BY <1>2 DEF Open

LEMMA NewCallIs ==
    ASSUME NEW q, NEW b
    PROVE  [NoCall EXCEPT !.ask = q, !.dead = b] =
              [stage |-> "idle", ask |-> q, who |-> None, dead |-> b, ok |-> FALSE]
<1>1. PICK x : x = [NoCall EXCEPT !.ask = q, !.dead = b]  OBVIOUS
<1>2. x \in [stage : {"idle"}, ask : {q}, who : {None}, dead : {b}, ok : {FALSE}]
  BY <1>1 DEF NoCall
<1>3. x = [stage |-> "idle", ask |-> q, who |-> None, dead |-> b, ok |-> FALSE]  BY <1>2
<1>. QED  BY <1>1, <1>3, Zenon

\* A request that has been read goes to the checks.
LEMMA CheckingFine ==
    ASSUME NEW c \in Calls, c # Script, NEW q \in Offered[c], NEW k,
           IsCall(k), k.ask = q, k.who = None, ~k.ok,
           k.dead => q.cred \in ended /\ ~Routes[q.route].public
    PROVE  Fine(c, Goes(k, "checking"))
<1>2. PICK l : l = [stage |-> "checking", ask |-> k.ask, who |-> k.who, dead |-> k.dead, ok |-> k.ok]
  OBVIOUS
<1>3. Goes(k, "checking") = [call |-> l, job |-> None, saves |-> FALSE]
  BY <1>2, OutcomeIs
<1>4. CallForm(c, l, ended)
  <2>1. IsCall(l) /\ l.stage = "checking" /\ l.ask = q /\ l.who = None
    BY <1>2 DEF IsCall
  <2>2. l.dead => q.cred \in ended /\ ~Routes[q.route].public  BY <1>2
  <2>3. ~l.ok  BY <1>2
  <2>. QED  BY <2>1, <2>2, <2>3 DEF CallForm
<1>. QED  BY <1>3, <1>4 DEF Fine

LEMMA ReceiveInv ==
    ASSUME IInv, NEW c \in Calls, Receive(c)
    PROVE  IInv'
<1>1. c # Script /\ calls[c].stage = "idle"  BY DEF Receive
<1>2. PICK q \in Offered[c] :
         LET call == [NoCall EXCEPT !.ask = q, !.dead = ~Routes[q.route].public /\ q.cred \in ended]
         IN  Steps(c, IF ~WellFormed(q) THEN Answer(call, "request_validation_failed")
                      ELSE IF Routes[q.route].public THEN Perform(c, call)
                      ELSE Goes(call, "checking"))
  BY DEF Receive
<1>3. PICK b : b = (~Routes[q.route].public /\ q.cred \in ended)  OBVIOUS
<1>4. PICK k : k = [stage |-> "idle", ask |-> q, who |-> None, dead |-> b, ok |-> FALSE]  OBVIOUS
<1>5. PICK o : o = IF ~WellFormed(q) THEN Answer(k, "request_validation_failed")
                   ELSE IF Routes[q.route].public THEN Perform(c, k)
                   ELSE Goes(k, "checking")
  OBVIOUS
<1>6. Steps(c, o)  BY <1>2, <1>3, <1>4, <1>5, NewCallIs
<1>7. Fine(c, o)
  <2>1. CASE ~WellFormed(q)  BY <1>5, <2>1, AnswerFine
  <2>2. CASE WellFormed(q) /\ Routes[q.route].public
    <3>1. ~b  BY <1>3, <2>2
    <3>2. IsCall(k) /\ k.ask = q /\ ~k.dead  BY <1>4, <3>1 DEF IsCall
    <3>. QED  BY <1>5, <2>2, <3>2, PerformFine
  <2>3. CASE WellFormed(q) /\ ~Routes[q.route].public
    <3>1. IsCall(k) /\ k.ask = q /\ k.who = None /\ ~k.ok /\ k.dead = b
      BY <1>4 DEF IsCall
    <3>2. k.dead => q.cred \in ended /\ ~Routes[q.route].public  BY <1>3, <3>1
    <3>. QED  BY <1>1, <1>5, <2>3, <3>1, <3>2, CheckingFine
  <2>. QED  BY <2>1, <2>2, <2>3
<1>. QED  BY <1>1, <1>6, <1>7, StepsInv DEF Going

LEMMA ScriptStartsInv ==
    ASSUME IInv, ScriptStarts
    PROVE  IInv'
<1>1. calls[Script].stage = "idle" /\ Script \in Calls  BY RequestAssumption DEF ScriptStarts
<1>2. PICK q \in Offered[Script] : Steps(Script, Perform(Script, [NoCall EXCEPT !.ask = q]))
  BY DEF ScriptStarts
<1>3. PICK k : k = [NoCall EXCEPT !.ask = q]  OBVIOUS
<1>4. k \in [stage : {"idle"}, ask : {q}, who : {None}, dead : {FALSE}, ok : {FALSE}]
  BY <1>3 DEF NoCall
<1>5. IsCall(k) /\ k.ask = q /\ ~k.dead  BY <1>4 DEF IsCall
<1>6. Fine(Script, Perform(Script, k))  BY <1>1, <1>5, PerformFine
<1>. QED  BY <1>1, <1>2, <1>3, <1>6, StepsInv DEF Going

\* A request under way has what CallForm says.
LEMMA CallKnown ==
    ASSUME IInv, NEW c \in Calls, calls[c].stage \in Going \ {"idle"}
    PROVE  /\ IsCall(calls[c]) /\ calls[c].ask \in Offered[c] /\ c # Script
           /\ calls[c].dead =>
                 /\ calls[c].stage \in {"checking", "authenticating"} /\ ~calls[c].ok
                 /\ calls[c].ask.cred \in ended /\ ~Routes[calls[c].ask.route].public
                 /\ calls[c].who = None
BY DEF IInv, CallForm, Resting, Going

LEMMA CheckRequestInv ==
    ASSUME IInv, NEW c \in Calls, CheckRequest(c)
    PROVE  IInv'
<1>1. PICK k : k = calls[c]  OBVIOUS
<1>2. k.stage = "checking" /\ k.stage \in Going \ {"idle"}  BY <1>1 DEF CheckRequest, Going
<1>3. /\ IsCall(k) /\ k.ask \in Offered[c] /\ c # Script
      /\ k.dead => /\ ~k.ok /\ k.ask.cred \in ended /\ ~Routes[k.ask.route].public
                   /\ k.who = None
  BY <1>1, <1>2, CallKnown
<1>4. PICK o : /\ Steps(c, o)
               /\ \/ \E code \in {"bootstrap_required", "invalid_authentication"} : o = Answer(k, code)
                  \/ o = Identified(c, k)
                  \/ o = Goes(k, "authenticating")
  BY <1>1 DEF CheckRequest
<1>5. Fine(c, Goes(k, "authenticating"))
  <2>1. PICK l : l = [stage |-> "authenticating", ask |-> k.ask, who |-> k.who, dead |-> k.dead,
                      ok |-> k.ok]
    OBVIOUS
  <2>2. Goes(k, "authenticating") = [call |-> l, job |-> None, saves |-> FALSE]
    BY <1>3, <2>1, OutcomeIs
  <2>3. /\ IsCall(l) /\ l.stage = "authenticating" /\ l.ask = k.ask /\ l.who = k.who
        /\ l.dead = k.dead /\ l.ok = k.ok
    BY <2>1 DEF IsCall
  <2>4. CallForm(c, l, ended)  BY <1>3, <2>3 DEF CallForm
  <2>. QED  BY <2>2, <2>4 DEF Fine
<1>6. Fine(c, Identified(c, k))  BY <1>3, IdentifiedFine
<1>7. \A code \in {"bootstrap_required", "invalid_authentication"} : Fine(c, Answer(k, code))
  BY AnswerFine
<1>8. Fine(c, o)  BY <1>4, <1>5, <1>6, <1>7
<1>. QED  BY <1>1, <1>2, <1>4, <1>8, StepsInv

\* The other steps of a live call.
LEMMA LiveStepsInv ==
    ASSUME IInv, NEW c \in Calls,
           \/ CheckLogin(c) \/ VerifyPassword(c) \/ Execute(c) \/ RecallMap(c)
           \/ WorkflowEnds(c) \/ StreamCloses(c)
    PROVE  IInv'
<1>1. PICK k : k = calls[c]  OBVIOUS
<1>2. k.stage \in Going \ {"idle"}
  BY <1>1 DEF CheckLogin, VerifyPassword, Execute, RecallMap, WorkflowEnds, StreamCloses, Going
<1>3. IsCall(k) /\ k.ask \in Offered[c] /\ c # Script  BY <1>1, <1>2, CallKnown
<1>4. ~k.dead
  <2>1. CASE CheckLogin(c)
    <3>1. k.ask.route = "login"  BY <1>1, <2>1 DEF CheckLogin
    <3>. QED  BY <1>1, <1>2, <3>1, CallKnown, LoginIsPublic
  <2>2. CASE \/ VerifyPassword(c) \/ Execute(c) \/ RecallMap(c)
             \/ WorkflowEnds(c) \/ StreamCloses(c)
    <3>1. k.stage \notin {"checking", "authenticating"}
      BY <1>1, <2>2 DEF VerifyPassword, Execute, RecallMap, WorkflowEnds, StreamCloses
    <3>. QED  BY <1>1, <1>2, <3>1, CallKnown
  <2>. QED  BY <2>1, <2>2
<1>5. ASSUME NEW o, Fine(c, o), Steps(c, o)  PROVE IInv'
  BY <1>1, <1>2, <1>5, StepsInv
<1>6. \A code : Fine(c, Answer(k, code))  BY <1>4, AnswerFine
<1>7. \A stage : Fine(c, Goes(k, stage)) /\ Fine(c, Saves(k))  BY <1>3, <1>4, GoesFine
<1>8. CASE CheckLogin(c)
  <2>1. \/ \E code : Steps(c, Answer(k, code))
        \/ Steps(c, Goes(k, "verifying"))
    BY <1>1, <1>8 DEF CheckLogin
  <2>. QED  BY <1>5, <1>6, <1>7, <2>1
<1>9. CASE VerifyPassword(c)
  <2>1. PICK who : Steps(c, Waits([k EXCEPT !.who = who], "auditing",
                                  Audit(c, [k EXCEPT !.who = who])))
    BY <1>1, <1>9 DEF VerifyPassword
  <2>2. PICK l : l = [k EXCEPT !.who = who]  OBVIOUS
  <2>3. l \in [stage : {k.stage}, ask : {k.ask}, who : {who}, dead : {k.dead}, ok : {k.ok}]
    BY <1>3, <2>2 DEF IsCall
  <2>4. IsCall(l) /\ l.ask = k.ask /\ ~l.dead  BY <1>4, <2>3 DEF IsCall
  <2>5. Fine(c, Waits(l, "auditing", Audit(c, l)))
    BY <1>3, <2>4, AuditSuits, WaitsFine
  <2>. QED  BY <1>5, <2>1, <2>2, <2>5
<1>10. CASE Execute(c) \/ RecallMap(c) \/ StreamCloses(c)
  <2>1. \E code : Steps(c, Answer(k, code))
    BY <1>1, <1>10 DEF Execute, RecallMap, StreamCloses
  <2>. QED  BY <1>5, <1>6, <2>1
<1>11. CASE WorkflowEnds(c)
  <2>1. Steps(c, Saves(k)) \/ Steps(c, Answer(k, "internal_error"))
    BY <1>1, <1>11 DEF WorkflowEnds
  <2>. QED  BY <1>5, <1>6, <1>7, <2>1
<1>. QED  BY <1>8, <1>9, <1>10, <1>11

\* A credential whose end was answered stands for nobody.
LEMMA EndedIsNobody ==
    ASSUME IInv, NEW x \in ended
    PROVE  Authenticated(x) = None
<1>1. /\ x \in DOMAIN file.sessions => file.sessions[x].revoked
      /\ x \in DOMAIN file.tokens => file.tokens[x].revoked
  BY DEF IInv, FileInv, EndedRevoked
<1>. QED  BY <1>1 DEF Authenticated, AuthenticateSession, AuthenticateApiToken, Active

LEMMA AuthenticateInv ==
    ASSUME IInv, NEW c \in Calls, Authenticate(c)
    PROVE  IInv'
<1>1. PICK k : k = calls[c]  OBVIOUS
<1>2. k.stage = "authenticating" /\ k.stage \in Going \ {"idle"}
  BY <1>1 DEF Authenticate, Going
<1>3. /\ IsCall(k) /\ k.ask \in Offered[c] /\ c # Script
      /\ k.dead => ~k.ok /\ k.ask.cred \in ended
  BY <1>1, <1>2, CallKnown
<1>4. PICK who : who = Authenticated(k.ask.cred)  OBVIOUS
<1>5. PICK l : l = [k EXCEPT !.who = who]  OBVIOUS
<1>6. l \in [stage : {k.stage}, ask : {k.ask}, who : {who}, dead : {k.dead}, ok : {k.ok}]
  BY <1>3, <1>5 DEF IsCall
<1>7. IsCall(l) /\ l.ask = k.ask /\ l.who = who /\ l.dead = k.dead /\ l.ok = k.ok
  BY <1>6 DEF IsCall
<1>8. l.dead => l.who = None /\ ~l.ok  BY <1>3, <1>4, <1>7, EndedIsNobody
<1>9. Fine(c, Identified(c, l))  BY <1>3, <1>7, <1>8, IdentifiedFine
<1>10. Steps(c, Identified(c, l))  BY <1>1, <1>4, <1>5 DEF Authenticate
<1>. QED  BY <1>1, <1>2, <1>9, <1>10, StepsInv

-----------------------------------------------------------------------------
(* The updates of the identity file. *)

RowsForm(rows) ==
    \A x \in DOMAIN rows :
       rows[x] = [user |-> rows[x].user, scopes |-> rows[x].scopes, revoked |-> rows[x].revoked]

LEMMA RevokedIs ==
    ASSUME NEW rows, RowsForm(rows), NEW who
    PROVE  /\ DOMAIN Revoked(rows, who) = DOMAIN rows
           /\ RowsForm(Revoked(rows, who))
           /\ \A x \in DOMAIN rows :
                 x \in who \/ rows[x].revoked => Revoked(rows, who)[x].revoked
<1>1. PICK r : r = Revoked(rows, who)  OBVIOUS
<1>2. DOMAIN r = DOMAIN rows  BY <1>1 DEF Revoked
<1>3. ASSUME NEW x \in DOMAIN rows
      PROVE  /\ r[x] = [user |-> r[x].user, scopes |-> r[x].scopes, revoked |-> r[x].revoked]
             /\ x \in who \/ rows[x].revoked => r[x].revoked
  <2>1. CASE x \notin who
    <3>1. r[x] = rows[x]  BY <1>1, <2>1 DEF Revoked
    <3>. QED  BY <2>1, <3>1 DEF RowsForm
  <2>2. CASE x \in who
    <3>1. PICK y : y = rows[x]  OBVIOUS
    <3>2. y = [user |-> y.user, scopes |-> y.scopes, revoked |-> y.revoked]  BY <3>1 DEF RowsForm
    <3>3. PICK z : z = [y EXCEPT !.revoked = TRUE]  OBVIOUS
    <3>4. z \in [user : {y.user}, scopes : {y.scopes}, revoked : {TRUE}]  BY <3>2, <3>3
    <3>5. r[x] = z  BY <1>1, <2>2, <3>1, <3>3 DEF Revoked
    <3>6. z = [user |-> z.user, scopes |-> z.scopes, revoked |-> z.revoked]  BY <3>4
    <3>7. z.revoked  BY <3>4
    <3>. QED  BY <3>5, <3>6, <3>7
  <2>. QED  BY <2>1, <2>2
<1>. QED  BY <1>1, <1>2, <1>3 DEF RowsForm

LEMMA PushedIs ==
    ASSUME NEW rows, RowsForm(rows), NEW x, x \notin DOMAIN rows,
           NEW new, DOMAIN new = {x}, RowsForm(new), NEW r, r = Pushed(new, rows)
    PROVE  /\ DOMAIN r = DOMAIN rows \cup {x}
           /\ RowsForm(r)
           /\ \A y \in DOMAIN rows : r[y] = rows[y]
<1>1. DOMAIN r = DOMAIN rows \cup {x}  BY DEF Pushed
<1>2. r[x] = new[x]  BY DEF Pushed
<1>3. ASSUME NEW y \in DOMAIN rows  PROVE r[y] = rows[y]  BY <1>3 DEF Pushed
<1>4. RowsForm(r)  BY <1>1, <1>2, <1>3 DEF RowsForm
<1>. QED  BY <1>1, <1>3, <1>4

\* A state with an owner, or without anybody, stays in form when its rows do.
LEMMA FormIs ==
    ASSUME NEW s
    PROVE  StateForm(s) <=>
              /\ s = [users |-> s.users, role |-> s.role, sessions |-> s.sessions, tokens |-> s.tokens]
              /\ s.users \subseteq Users
              /\ s.role = [u \in Users |-> s.role[u]]
              /\ RowsForm(s.sessions) /\ RowsForm(s.tokens)
              /\ DOMAIN s.sessions \cap DOMAIN s.tokens = {}
              /\ \/ \E u \in Users : s.role[u] = "owner"
                 \/ s.users = {} /\ Names(s) = {}
<1>1. (\A rows \in {s.sessions, s.tokens} : \A x \in DOMAIN rows :
          rows[x] = [user |-> rows[x].user, scopes |-> rows[x].scopes, revoked |-> rows[x].revoked])
      <=> RowsForm(s.sessions) /\ RowsForm(s.tokens)
  BY Zenon DEF RowsForm
<1>. QED  BY <1>1, Zenon DEF StateForm, Names

\* What update j has made of s: a name is added by the two that create a
\* credential, and no row is made good again.
Updates(s, j, t) ==
    /\ StateForm(t)
    /\ Names(s) \subseteq Names(t)
    /\ j.kind \in {"session", "token"} => j.call \in Names(t)
    /\ \A x \in Names(t) : x \in Names(s) \/ (x = j.call /\ j.kind \in {"session", "token"})
    /\ \A x \in DOMAIN s.sessions :
          /\ x \notin DOMAIN t.tokens
          /\ \/ s.sessions[x].revoked
             \/ j.kind = "session" /\ s.sessions[x].user = j.user
             \/ j.kind = "logout" /\ x = j.target
             => t.sessions[x].revoked
    /\ \A x \in DOMAIN s.tokens :
          /\ x \notin DOMAIN t.sessions
          /\ s.tokens[x].revoked \/ (j.kind = "revoke" /\ x = j.target) => t.tokens[x].revoked
    /\ j.kind = "bootstrap" => Names(t) = {}

LEMMA ThrowsIs ==
    ASSUME NEW code \in {"already_bootstrapped", "user_not_found", "owner_membership_required"}
    PROVE  Throws(code).error # None
BY IdentityAssumption DEF Throws

LEMMA WorkUpdates ==
    ASSUME NEW s, StateForm(s), NEW j, NEW stage, Suits(j, stage), j.call \notin Names(s),
           Work(s, j).error = None
    PROVE  Updates(s, j, Work(s, j).state)
<1>0. /\ s = [users |-> s.users, role |-> s.role, sessions |-> s.sessions, tokens |-> s.tokens]
      /\ s.users \subseteq Users
      /\ s.role = [u \in Users |-> s.role[u]]
      /\ RowsForm(s.sessions) /\ RowsForm(s.tokens)
      /\ DOMAIN s.sessions \cap DOMAIN s.tokens = {}
      /\ \/ \E u \in Users : s.role[u] = "owner"
         \/ s.users = {} /\ Names(s) = {}
  BY FormIs
<1>1. j.call \notin DOMAIN s.sessions /\ j.call \notin DOMAIN s.tokens  BY DEF Names
<1>2. PICK w : w = Work(s, j)  OBVIOUS
<1>3. w.error = None  BY <1>2
<1>4. CASE j.kind = "audit"
  <2>1. w.state = s  BY <1>2, <1>4 DEF Work, Makes
  <2>. QED  BY <1>0, <1>2, <1>4, <2>1 DEF Updates, Names
<1>5. CASE j.kind = "bootstrap"
  <2>1. ~\E u \in Users : s.role[u] = "owner"
    <3>1. ASSUME \E u \in Users : s.role[u] = "owner"  PROVE w = Throws("already_bootstrapped")
      BY <1>2, <1>5, <3>1 DEF Work, BootstrapOwner
    <3>. QED  BY <1>3, <3>1, ThrowsIs
  <2>2. j.user \in Users  BY <1>5 DEF Suits
  <2>3. PICK t : t = [s EXCEPT !.users = @ \cup {j.user}, !.role[j.user] = "owner"]  OBVIOUS
  <2>4. w.state = t  BY <1>2, <1>5, <2>1, <2>3 DEF Work, BootstrapOwner, Makes
  <2>5. PICK role : role = [s.role EXCEPT ![j.user] = "owner"]  OBVIOUS
  <2>6. role = [u \in Users |-> role[u]] /\ role[j.user] = "owner"  BY <1>0, <2>2, <2>5
  <2>7. t \in [users : {s.users \cup {j.user}}, role : {role}, sessions : {s.sessions},
               tokens : {s.tokens}]
    BY <1>0, <2>3, <2>5
  <2>8. /\ t = [users |-> t.users, role |-> t.role, sessions |-> t.sessions, tokens |-> t.tokens]
        /\ t.users = s.users \cup {j.user} /\ t.role = role
        /\ t.sessions = s.sessions /\ t.tokens = s.tokens
    BY <2>7
  <2>9. StateForm(t)  BY <1>0, <2>2, <2>6, <2>8, FormIs
  <2>10. Names(t) = Names(s) /\ Names(s) = {}  BY <1>0, <2>1, <2>8 DEF Names
  <2>11. DOMAIN s.sessions = {} /\ DOMAIN s.tokens = {}  BY <2>10 DEF Names
  <2>. QED  BY <1>2, <1>5, <2>4, <2>9, <2>10, <2>11 DEF Updates
\* the updates of a table
<1>6. ASSUME NEW rows, RowsForm(rows), DOMAIN rows \cap DOMAIN s.tokens = {},
             DOMAIN s.sessions \subseteq DOMAIN rows, Names(s) = {} => s.users # {} \/ DOMAIN rows = {},
             NEW t, t = [s EXCEPT !.sessions = rows]
      PROVE  /\ StateForm(t) /\ t.sessions = rows /\ t.tokens = s.tokens
  <2>1. t \in [users : {s.users}, role : {s.role}, sessions : {rows}, tokens : {s.tokens}]
    BY <1>0, <1>6
  <2>2. /\ t = [users |-> t.users, role |-> t.role, sessions |-> t.sessions, tokens |-> t.tokens]
        /\ t.users = s.users /\ t.role = s.role
        /\ t.sessions = rows /\ t.tokens = s.tokens
    BY <2>1
  <2>3. (\E u \in Users : t.role[u] = "owner") \/ (t.users = {} /\ Names(t) = {})
    BY <1>0, <1>6, <2>2 DEF Names
  <2>. QED  BY <1>0, <1>6, <2>2, <2>3, FormIs
<1>7. ASSUME NEW rows, RowsForm(rows), DOMAIN rows \cap DOMAIN s.sessions = {},
             DOMAIN s.tokens \subseteq DOMAIN rows, Names(s) = {} => s.users # {} \/ DOMAIN rows = {},
             NEW t, t = [s EXCEPT !.tokens = rows]
      PROVE  /\ StateForm(t) /\ t.tokens = rows /\ t.sessions = s.sessions
  <2>1. t \in [users : {s.users}, role : {s.role}, sessions : {s.sessions}, tokens : {rows}]
    BY <1>0, <1>7
  <2>2. /\ t = [users |-> t.users, role |-> t.role, sessions |-> t.sessions, tokens |-> t.tokens]
        /\ t.users = s.users /\ t.role = s.role
        /\ t.tokens = rows /\ t.sessions = s.sessions
    BY <2>1
  <2>3. (\E u \in Users : t.role[u] = "owner") \/ (t.users = {} /\ Names(t) = {})
    BY <1>0, <1>7, <2>2 DEF Names
  <2>. QED  BY <1>0, <1>7, <2>2, <2>3, FormIs
<1>8. CASE j.kind = "logout"
  <2>1. PICK rows : rows = Revoked(s.sessions, {j.target})  OBVIOUS
  <2>2. /\ DOMAIN rows = DOMAIN s.sessions /\ RowsForm(rows)
        /\ \A x \in DOMAIN s.sessions :
              x = j.target \/ s.sessions[x].revoked => rows[x].revoked
    BY <1>0, <2>1, RevokedIs
  <2>3. PICK t : t = [s EXCEPT !.sessions = rows]  OBVIOUS
  <2>4. w.state = t  BY <1>2, <1>8, <2>1, <2>3 DEF Work, RevokeSession, Makes
  <2>5. StateForm(t) /\ t.sessions = rows /\ t.tokens = s.tokens
    BY <1>0, <1>6, <2>2, <2>3 DEF Names
  <2>. QED  BY <1>0, <1>2, <1>8, <2>2, <2>4, <2>5 DEF Updates, Names
<1>9. CASE j.kind = "revoke"
  <2>1. PICK rows : rows = Revoked(s.tokens, {j.target})  OBVIOUS
  <2>2. /\ DOMAIN rows = DOMAIN s.tokens /\ RowsForm(rows)
        /\ \A x \in DOMAIN s.tokens :
              x = j.target \/ s.tokens[x].revoked => rows[x].revoked
    BY <1>0, <2>1, RevokedIs
  <2>3. PICK t : t = [s EXCEPT !.tokens = rows]  OBVIOUS
  <2>4. w.state = t  BY <1>2, <1>9, <2>1, <2>3 DEF Work, RevokeApiToken, Makes
  <2>5. StateForm(t) /\ t.tokens = rows /\ t.sessions = s.sessions
    BY <1>0, <1>7, <2>2, <2>3 DEF Names
  <2>. QED  BY <1>0, <1>2, <1>9, <2>2, <2>4, <2>5 DEF Updates, Names
<1>10. CASE j.kind = "session"
  <2>1. PICK own : own = {x \in DOMAIN s.sessions : s.sessions[x].user = j.user}  OBVIOUS
  <2>2. PICK old : old = Revoked(s.sessions, own)  OBVIOUS
  <2>3. /\ DOMAIN old = DOMAIN s.sessions /\ RowsForm(old)
        /\ \A x \in DOMAIN s.sessions :
              s.sessions[x].user = j.user \/ s.sessions[x].revoked => old[x].revoked
    BY <1>0, <2>1, <2>2, RevokedIs
  <2>4. PICK row : row = [user |-> j.user, scopes |-> None, revoked |-> FALSE]  OBVIOUS
  <2>5. row = [user |-> row.user, scopes |-> row.scopes, revoked |-> row.revoked]  BY <2>4
  <2>0. PICK new : new = [x \in {j.call} |-> row]  OBVIOUS
  <2>6. PICK rows : rows = Pushed(new, old)  OBVIOUS
  <2>7. /\ DOMAIN rows = DOMAIN s.sessions \cup {j.call} /\ RowsForm(rows)
        /\ \A x \in DOMAIN s.sessions : rows[x] = old[x]
    <3>1. PICK id : id = j.call  OBVIOUS
    <3>2. DOMAIN new = {id} /\ RowsForm(new)  BY <2>0, <2>5, <3>1 DEF RowsForm
    <3>3. id \notin DOMAIN old /\ RowsForm(old)  BY <1>1, <2>3, <3>1
    <3>4. DOMAIN rows = DOMAIN old \cup {id} /\ RowsForm(rows)
      <4>1. RowsForm(rows)  BY <2>6, <3>2, <3>3, PushedIs
      <4>2. DOMAIN rows = DOMAIN old \cup {id}  BY <2>6, <3>2, <3>3 DEF Pushed
      <4>. QED  BY <4>1, <4>2
    <3>5. \A x \in DOMAIN old : rows[x] = old[x]  BY <2>6, <3>2, <3>3 DEF Pushed
    <3>. QED  BY <2>3, <3>1, <3>4, <3>5
  <2>8. j.user \in s.users
    <3>1. ASSUME j.user \notin s.users  PROVE w = Throws("user_not_found")
      BY <1>2, <1>10, <3>1 DEF Work, CreateSession
    <3>. QED  BY <1>3, <3>1, ThrowsIs
  <2>9. PICK t : t = [s EXCEPT !.sessions = rows]  OBVIOUS
  <2>10. w.state = t
    BY <1>2, <1>10, <2>0, <2>1, <2>2, <2>4, <2>6, <2>8, <2>9 DEF Work, CreateSession, Makes
  <2>11. StateForm(t) /\ t.sessions = rows /\ t.tokens = s.tokens
    BY <1>0, <1>1, <1>6, <2>7, <2>8, <2>9
  <2>. QED  BY <1>0, <1>1, <1>2, <1>10, <2>3, <2>7, <2>10, <2>11 DEF Updates, Names
<1>11. CASE j.kind = "token"
  <2>1. PICK row : row = [user |-> j.user, scopes |-> j.scopes, revoked |-> FALSE]  OBVIOUS
  <2>2. row = [user |-> row.user, scopes |-> row.scopes, revoked |-> row.revoked]  BY <2>1
  <2>0. PICK new : new = [x \in {j.call} |-> row]  OBVIOUS
  <2>3. PICK rows : rows = Pushed(new, s.tokens)  OBVIOUS
  <2>4. /\ DOMAIN rows = DOMAIN s.tokens \cup {j.call} /\ RowsForm(rows)
        /\ \A x \in DOMAIN s.tokens : rows[x] = s.tokens[x]
    <3>1. PICK id : id = j.call  OBVIOUS
    <3>2. DOMAIN new = {id} /\ RowsForm(new)  BY <2>0, <2>2, <3>1 DEF RowsForm
    <3>3. PICK old : old = s.tokens  OBVIOUS
    <3>4. id \notin DOMAIN old /\ RowsForm(old)  BY <1>0, <1>1, <3>1, <3>3
    <3>5. DOMAIN rows = DOMAIN old \cup {id} /\ RowsForm(rows)
      <4>1. RowsForm(rows)  BY <2>3, <3>2, <3>3, <3>4, PushedIs
      <4>2. DOMAIN rows = DOMAIN old \cup {id}  BY <2>3, <3>2, <3>3, <3>4 DEF Pushed
      <4>. QED  BY <4>1, <4>2
    <3>6. \A x \in DOMAIN old : rows[x] = old[x]  BY <2>3, <3>2, <3>3, <3>4 DEF Pushed
    <3>. QED  BY <3>1, <3>3, <3>5, <3>6
  <2>5. j.user \in s.users /\ j.workspace = "ws" /\ s.role[j.user] = "owner"
    <3>1. ASSUME ~(j.user \in s.users /\ j.workspace = "ws" /\ s.role[j.user] = "owner")
          PROVE  w = Throws("user_not_found") \/ w = Throws("owner_membership_required")
      BY <1>2, <1>11, <3>1 DEF Work, CreateApiToken
    <3>. QED  BY <1>3, <3>1, ThrowsIs
  <2>6. PICK t : t = [s EXCEPT !.tokens = rows]  OBVIOUS
  <2>7. w.state = t
    BY <1>2, <1>11, <2>0, <2>1, <2>3, <2>5, <2>6 DEF Work, CreateApiToken, Makes
  <2>8. StateForm(t) /\ t.tokens = rows /\ t.sessions = s.sessions
    BY <1>0, <1>1, <1>7, <2>4, <2>5, <2>6
  <2>. QED  BY <1>0, <1>1, <1>2, <1>11, <2>4, <2>7, <2>8 DEF Updates, Names
<1>. QED  BY <1>4, <1>5, <1>8, <1>9, <1>10, <1>11 DEF Suits, Awaits

LEMMA FileStays ==
    ASSUME \A x : Over(x) => Over(x)'
    PROVE  \A s : StateInv(s) => StateInv(s)'
BY DEF StateInv, Names

LEMMA UpdateReadsInv ==
    ASSUME IInv, NEW p \in Procs, UpdateReads(p), UNCHANGED apiVars
    PROVE  IInv'
<1>1. /\ snapshot' = [snapshot EXCEPT ![p] = file]
      /\ UNCHANGED <<file, queue, overlapped>>
      /\ UNCHANGED <<calls, storeQueue, runs, issued, ended, kept>>
  BY DEF UpdateReads, apiVars
<1>2. \A x : Over(x) => Over(x)'  BY <1>1 DEF Over
<1>3. \A s : StateInv(s) => StateInv(s)'  BY <1>2, FileStays
<1>4. CallsInv'
  BY <1>1 DEF IInv, CallsInv, StoreQueueInv
<1>5. snapshot' = [r \in Procs |-> snapshot'[r]]  BY <1>1 DEF IInv
<1>6. \A r \in Procs : snapshot'[r] = file \/ snapshot'[r] = snapshot[r]  BY <1>1 DEF IInv
<1>7. "api" \in Procs  BY IdentityAssumption
<1>8. FileInv'
  BY <1>1, <1>2, <1>3, <1>6, <1>7 DEF IInv, FileInv, EndedRevoked
<1>. QED  BY <1>1, <1>4, <1>5, <1>8 DEF IInv, CallsInv

\* A call that waits is not over.
LEMMA WaitingIsNotOver ==
    ASSUME NEW c, CallForm(c, calls[c], ended), NEW j, Suits(j, calls[c].stage)
    PROVE  ~Over(c)
BY DEF CallForm, Suits, Awaits, Resting, Over

\* The script waits for nothing but its bootstrap.
LEMMA ScriptBootstraps ==
    ASSUME NEW c, CallForm(c, calls[c], ended), NEW j, Suits(j, calls[c].stage),
           Home(c) # "api"
    PROVE  j.kind = "bootstrap" /\ calls[c].stage = "bootstrapping"
<1>1. c = Script  BY DEF Home
<1>. QED  BY <1>1 DEF CallForm, Suits, Awaits, Resting

LEMMA UpdateSettlesInv ==
    ASSUME IInv, NEW p \in Procs, UpdateSettles(p)
    PROVE  IInv'
<1>1. PICK q : q = queue[p]  OBVIOUS
<1>2. PICK s : s = snapshot[p]  OBVIOUS
<1>3. q # <<>> /\ s # None /\ QueueForm(q, p, calls)
  BY <1>1, <1>2 DEF UpdateSettles, IInv
<1>4. PICK j : j = Head(q)  OBVIOUS
<1>5. PICK rest : rest = Tail(q)  OBVIOUS
<1>6. PICK c : c = j.call  OBVIOUS
<1>7. PICK k : k = calls[c]  OBVIOUS
<1>8. /\ QueueForm(rest, p, calls)
      /\ \A i \in DOMAIN rest : rest[i].call # c
      /\ c \in Calls /\ Home(c) = p /\ Suits(j, k.stage)
  BY <1>3, <1>4, <1>5, <1>6, <1>7, QueueShrinks
<1>9. PICK w : w = Work(s, j)  OBVIOUS
<1>10. PICK others : others = {x \in DOMAIN s.sessions : s.sessions[x].user = j.user}  OBVIOUS
<1>11. PICK revoked : revoked = {j.target} \cap
                         DOMAIN (IF j.kind = "logout" THEN s.sessions ELSE s.tokens)
  OBVIOUS
<1>12. PICK error :
         /\ UpdateEnds(p, error)
         /\ Moves(c, Continue(c, k, error), rest)
         /\ issued' = IF error = None /\ (k.stage = "opening" \/ k.stage = "issuing")
                      THEN issued \cup {c} ELSE issued
         /\ ended' = IF error # None THEN ended
                     ELSE IF k.stage = "opening" THEN ended \cup others
                     ELSE IF k.stage = "revoking" THEN ended \cup revoked
                     ELSE ended
  BY <1>1, <1>2, <1>4, <1>5, <1>6, <1>7, <1>10, <1>11 DEF UpdateSettles
<1>13. UNCHANGED <<attempts, runs, broken, kept>>  BY DEF UpdateSettles
<1>14. PICK o : o = Continue(c, k, error)  OBVIOUS
<1>15. CallForm(c, k, ended)  BY <1>7, <1>8 DEF IInv
<1>16. Fine(c, o) /\ (k.stage \in {"opening", "issuing"} => o.call.stage = "done")
  BY <1>8, <1>14, <1>15, ContinueFine
<1>17. ended \subseteq ended'  BY <1>12
<1>18. calls[c].stage \notin {"saving", "done", "lost"}
  BY <1>7, <1>8 DEF Suits, Awaits
<1>19. CallsInv' /\ calls'[c] = o.call /\ \A x : Over(x) => Over(x)'
  BY <1>8, <1>12, <1>14, <1>16, <1>17, <1>18, MovesInv
<1>20. \A x : StateInv(x) => StateInv(x)'  BY <1>19, FileStays
<1>21. StateInv(s)  BY <1>2, <1>3 DEF IInv, FileInv
<1>22. ~Over(c)  BY <1>7, <1>8, <1>15, WaitingIsNotOver
<1>23. p # "api" => j.kind = "bootstrap" /\ k.stage = "bootstrapping"
  BY <1>7, <1>8, <1>15, ScriptBootstraps
<1>24. /\ snapshot' = [snapshot EXCEPT ![p] = None]
       /\ \/ error # None /\ UNCHANGED <<file, overlapped>>
          \/ /\ w.error = None /\ error = None /\ file' = w.state
             /\ overlapped' = (overlapped \/ s # file)
  <2>1. "write_failed" # None  BY IdentityAssumption
  <2>. QED  BY <1>1, <1>2, <1>4, <1>9, <1>12, <2>1 DEF UpdateEnds
<1>25. /\ snapshot' = [r \in Procs |-> snapshot'[r]] /\ snapshot'[p] = None
       /\ \A r \in Procs : r # p => snapshot'[r] = snapshot[r]
  BY <1>24 DEF IInv
<1>26. "api" \in Procs  BY IdentityAssumption
<1>27. \A r \in Procs : snapshot'[r] # None => StateInv(snapshot[r])'
  BY <1>20, <1>25 DEF IInv, FileInv
<1>28. CASE error # None
  <2>1. UNCHANGED <<file, overlapped, ended, issued>>  BY <1>12, <1>24, <1>28
  <2>2. FileInv'
    BY <1>19, <1>20, <1>25, <1>26, <1>27, <2>1 DEF IInv, FileInv, EndedRevoked
  <2>. QED  BY <1>13, <1>19, <1>25, <2>2 DEF IInv, CallsInv
<1>29. CASE error = None
  <2>1. PICK t : t = w.state  OBVIOUS
  <2>2. w.error = None /\ file' = t /\ overlapped' = (overlapped \/ s # file)
    BY <1>24, <1>29, <2>1
  <2>3. c \notin Names(s)  BY <1>21, <1>22 DEF StateInv
  <2>4. Updates(s, j, t)
    BY <1>6, <1>8, <1>9, <1>21, <2>1, <2>2, <2>3, WorkUpdates DEF StateInv
  <2>5. k.stage \in {"opening", "issuing"} <=> j.kind \in {"session", "token"}
    BY <1>8 DEF Suits, Awaits
  <2>6. StateInv(t)'
    <3>1. StateForm(t)  BY <2>4 DEF Updates
    <3>2. ASSUME NEW x \in Names(t)  PROVE Over(x)'
      <4>1. CASE x \in Names(s)  BY <1>19, <1>21, <4>1 DEF StateInv
      <4>2. CASE x = c /\ j.kind \in {"session", "token"}
        BY <1>8, <1>16, <1>19, <2>5, <4>2 DEF Over
      <4>. QED  BY <1>6, <2>4, <3>2, <4>1, <4>2 DEF Updates
    <3>. QED  BY <3>1, <3>2 DEF StateInv, Names
  <2>7. \A x \in ended' : x \in ended \/ (p = "api" /\ x \in Names(s))
    <3>1. others \cup revoked \subseteq Names(s)  BY <1>10, <1>11 DEF Names
    <3>. QED  BY <1>12, <1>23, <3>1
  <2>8. \A x \in ended' : Over(x)'
    <3>1. \A x \in ended : Over(x)  BY DEF IInv, FileInv
    <3>. QED  BY <1>19, <1>21, <2>7, <3>1 DEF StateInv
  <2>9. EndedRevoked(t)'
    <3>. SUFFICES ASSUME NEW x \in ended'
                  PROVE  /\ x \in DOMAIN t.sessions => t.sessions[x].revoked
                         /\ x \in DOMAIN t.tokens => t.tokens[x].revoked
      BY DEF EndedRevoked
    <3>1. CASE p # "api"
      <4>1. Names(t) = {}  BY <1>23, <2>4, <3>1 DEF Updates
      <4>. QED  BY <4>1 DEF Names
    <3>2. CASE p = "api" /\ x \in ended
      <4>1. x # c  BY <1>22, <3>2 DEF IInv, FileInv
      <4>2. EndedRevoked(s)  BY <1>2, <1>3, <3>2 DEF IInv, FileInv
      <4>3. x \in DOMAIN s.sessions \cup DOMAIN s.tokens \/ x \notin Names(t)
        BY <1>6, <2>4, <4>1 DEF Updates, Names
      <4>4. CASE x \in DOMAIN s.sessions
        BY <2>4, <3>2, <4>2, <4>4 DEF Updates, EndedRevoked
      <4>5. CASE x \in DOMAIN s.tokens
        BY <2>4, <3>2, <4>2, <4>5 DEF Updates, EndedRevoked
      <4>6. CASE x \notin Names(t)  BY <4>6 DEF Names
      <4>. QED  BY <4>3, <4>4, <4>5, <4>6
    <3>3. CASE x \notin ended /\ k.stage = "opening"
      <4>1. x \in others  BY <1>12, <1>29, <3>3
      <4>2. j.kind = "session"  BY <1>8, <3>3 DEF Suits, Awaits
      <4>. QED  BY <1>10, <2>4, <4>1, <4>2 DEF Updates
    <3>4. CASE x \notin ended /\ k.stage = "revoking"
      <4>1. x \in revoked  BY <1>12, <1>29, <3>4
      <4>2. j.kind \in {"logout", "revoke"}  BY <1>8, <3>4 DEF Suits, Awaits
      <4>. QED  BY <1>11, <2>4, <4>1, <4>2 DEF Updates
    <3>. QED  BY <1>12, <3>1, <3>2, <3>3, <3>4
  <2>10. snapshot'["api"] # None => EndedRevoked(snapshot["api"])'
    <3>. SUFFICES ASSUME snapshot'["api"] # None  PROVE EndedRevoked(snapshot["api"])'
      OBVIOUS
    <3>1. p # "api" /\ snapshot'["api"] = snapshot["api"]  BY <1>25, <1>26
    <3>2. ended' = ended  BY <1>12, <1>23, <3>1
    <3>3. EndedRevoked(snapshot["api"])  BY <3>1 DEF IInv, FileInv
    <3>. QED  BY <3>1, <3>2, <3>3 DEF EndedRevoked
  <2>11. overlapped' \/ issued' \subseteq Names(t)
    <3>. SUFFICES ASSUME ~overlapped'  PROVE issued' \subseteq Names(t)
      OBVIOUS
    <3>1. ~overlapped /\ s = file  BY <2>2
    <3>2. issued \subseteq Names(s)  BY <3>1 DEF IInv, FileInv
    <3>3. Names(s) \subseteq Names(t)  BY <2>4 DEF Updates
    <3>4. k.stage \in {"opening", "issuing"} => c \in Names(t)
      BY <1>6, <2>4, <2>5 DEF Updates
    <3>. QED  BY <1>12, <3>2, <3>3, <3>4
  <2>12. FileInv'
    <3>1. StateInv(file)' /\ EndedRevoked(file)'  BY <2>2, <2>6, <2>9
    <3>2. (overlapped \/ issued \subseteq Names(file))'  BY <2>2, <2>11 DEF Names
    <3>. QED  BY <1>27, <2>8, <2>10, <3>1, <3>2 DEF FileInv
  <2>. QED  BY <1>13, <1>19, <1>25, <2>12 DEF IInv, CallsInv
<1>. QED  BY <1>28, <1>29

-----------------------------------------------------------------------------
(* The state file, crashes and the passing of time. *)

LEMMA SaveEndsInv ==
    ASSUME IInv, SaveEnds
    PROVE  IInv'
<1>1. PICK c : c = Head(storeQueue)  OBVIOUS
<1>2. PICK code : /\ calls' = [calls EXCEPT ![c] = Answer(calls[c], code).call]
                  /\ (kept \subseteq runs => kept' \subseteq runs')
  BY <1>1 DEF SaveEnds, Ends
<1>3. /\ storeQueue # <<>> /\ storeQueue' = Tail(storeQueue)
      /\ UNCHANGED <<file, queue, snapshot, overlapped, issued, ended>>
  BY DEF SaveEnds
<1>4. /\ c \in Calls /\ calls[c].stage \in {"saving", "done", "lost"} /\ ~calls[c].dead
      /\ IsQueue(Tail(storeQueue))
      /\ \A i \in DOMAIN Tail(storeQueue) :
            i \in Nat /\ i + 1 \in DOMAIN storeQueue /\ Tail(storeQueue)[i] = storeQueue[i + 1]
  <2>1. PICK q : q = storeQueue  OBVIOUS
  <2>2. IsQueue(q) /\ q # <<>>  BY <1>3, <2>1 DEF IInv, StoreQueueInv
  <2>3. /\ IsQueue(Tail(q)) /\ 1 \in DOMAIN q /\ Head(q) = q[1]
        /\ \A i \in DOMAIN Tail(q) : i \in Nat /\ i + 1 \in DOMAIN q /\ Tail(q)[i] = q[i + 1]
    BY <2>2, TailIs
  <2>4. c = storeQueue[1] /\ 1 \in DOMAIN storeQueue  BY <1>1, <2>1, <2>3
  <2>5. /\ c \in Calls /\ calls[c].stage \in {"saving", "done", "lost"} /\ ~calls[c].dead
    BY <2>4 DEF IInv, StoreQueueInv
  <2>. QED  BY <2>1, <2>3, <2>5
<1>5. PICK l : l = Answer(calls[c], code).call  OBVIOUS
<1>6. CallForm(c, l, ended) /\ l.stage = "done"
  <2>1. PICK k : k = calls[c]  OBVIOUS
  <2>2. Fine(c, Answer(k, code)) /\ Answer(k, code).call.stage = "done"
    BY <1>4, <2>1, AnswerFine
  <2>. QED  BY <1>5, <2>1, <2>2 DEF Fine
<1>7. l.dead = calls[c].dead  BY <1>5, AnswerIs
<1>8. /\ calls' = [d \in Calls |-> calls'[d]] /\ calls'[c] = l
      /\ \A d \in Calls : d # c => calls'[d] = calls[d]
  BY <1>2, <1>4, <1>5 DEF IInv
<1>9. \A d \in Calls : CallForm(d, calls'[d], ended')
  BY <1>3, <1>6, <1>8 DEF IInv
<1>10. ASSUME NEW p \in Procs  PROVE QueueForm(queue'[p], p, calls')
  <2>1. queue'[p] = queue[p] /\ QueueForm(queue[p], p, calls)  BY <1>3 DEF IInv
  <2>2. \A i \in DOMAIN queue[p] : queue[p][i].call \in Calls \ {c}
    BY <1>4, <2>1 DEF QueueForm, Suits, Awaits
  <2>. QED  BY <1>8, <2>1, <2>2, QueueStays
<1>11. StoreQueueInv'
  <2>1. \A i \in DOMAIN storeQueue' :
           \E h \in DOMAIN storeQueue : storeQueue'[i] = storeQueue[h]
    BY <1>3, <1>4
  <2>2. \A h \in DOMAIN storeQueue :
           /\ storeQueue[h] \in Calls
           /\ calls'[storeQueue[h]].stage \in {"saving", "done", "lost"}
           /\ ~calls'[storeQueue[h]].dead
    BY <1>4, <1>6, <1>7, <1>8 DEF IInv, StoreQueueInv
  <2>. QED  BY <1>3, <1>4, <2>1, <2>2 DEF StoreQueueInv
<1>12. \A x : Over(x) => Over(x)'  BY <1>6, <1>8 DEF Over
<1>13. \A s : StateInv(s) => StateInv(s)'  BY <1>12, FileStays
<1>14. FileInv'  BY <1>3, <1>12, <1>13 DEF IInv, FileInv, EndedRevoked
<1>. QED  BY <1>2, <1>3, <1>8, <1>9, <1>10, <1>11, <1>14 DEF IInv

LEMMA CrashInv ==
    ASSUME IInv, NEW p \in Procs, Crash(p)
    PROVE  IInv'
<1>1. PICK l : l = [NoCall EXCEPT !.stage = "lost"]  OBVIOUS
<1>2. /\ calls' = [c \in Calls |-> IF Home(c) = p /\ InFlight(c) THEN l ELSE calls[c]]
      /\ queue' = [queue EXCEPT ![p] = <<>>]
      /\ snapshot' = [snapshot EXCEPT ![p] = None]
      /\ storeQueue' = IF p = "api" THEN <<>> ELSE storeQueue
      /\ UNCHANGED <<file, overlapped, runs, issued, ended, kept>>
  BY <1>1 DEF Crash
<1>3. l \in [stage : {"lost"}, ask : {None}, who : {None}, dead : {FALSE}, ok : {FALSE}]
  BY <1>1 DEF NoCall
<1>4. l.stage = "lost" /\ ~l.dead /\ \A c : CallForm(c, l, ended)
  BY <1>3 DEF CallForm, IsCall, Resting
<1>5. \A c \in Calls : calls'[c] = calls[c] \/ (Home(c) = p /\ InFlight(c) /\ calls'[c] = l)
  BY <1>2
<1>6. calls' = [c \in Calls |-> calls'[c]] /\ \A c \in Calls : CallForm(c, calls'[c], ended')
  BY <1>2, <1>4 DEF IInv
<1>7. ASSUME NEW r \in Procs  PROVE QueueForm(queue'[r], r, calls')
  <2>1. CASE r = p
    <3>1. queue'[r] = <<>>  BY <1>2, <2>1 DEF IInv
    <3>. QED  BY <3>1, EmptyIs DEF QueueForm
  <2>2. CASE r # p
    <3>1. queue'[r] = queue[r] /\ QueueForm(queue[r], r, calls)  BY <1>2, <2>2 DEF IInv
    <3>2. \A i \in DOMAIN queue[r] : calls'[queue[r][i].call] = calls[queue[r][i].call]
      BY <1>5, <2>2, <3>1 DEF QueueForm
    <3>. QED  BY <3>1, <3>2, QueueStays
  <2>. QED  BY <2>1, <2>2
<1>8. queue' = [r \in Procs |-> queue'[r]] /\ snapshot' = [r \in Procs |-> snapshot'[r]]
  BY <1>2 DEF IInv
<1>9. StoreQueueInv'
  <2>1. CASE p = "api"  BY <1>2, <2>1, EmptyIs DEF StoreQueueInv
  <2>2. CASE p # "api"  BY <1>2, <1>4, <1>5, <2>2 DEF IInv, StoreQueueInv
  <2>. QED  BY <2>1, <2>2
<1>10. \A x : Over(x) => Over(x)'  BY <1>5 DEF Over, InFlight
<1>11. \A s : StateInv(s) => StateInv(s)'  BY <1>10, FileStays
<1>12. \A r \in Procs : snapshot'[r] = None \/ snapshot'[r] = snapshot[r]  BY <1>2 DEF IInv
<1>13. "api" \in Procs  BY IdentityAssumption
<1>14. FileInv'
  BY <1>2, <1>10, <1>11, <1>12, <1>13 DEF IInv, FileInv, EndedRevoked
<1>. QED  BY <1>2, <1>6, <1>7, <1>8, <1>9, <1>14 DEF IInv

\* A step that changes nothing the invariant is about.
LEMMA RestInv ==
    ASSUME IInv,
           UNCHANGED <<file, queue, snapshot, overlapped, calls, storeQueue, runs, issued, ended, kept>>
    PROVE  IInv'
<1>1. \A x : Over(x) => Over(x)'  BY DEF Over
<1>2. \A s : StateInv(s) => StateInv(s)'  BY <1>1, FileStays
<1>3. FileInv'  BY <1>1, <1>2 DEF IInv, FileInv, EndedRevoked
<1>. QED  BY <1>3 DEF IInv, StoreQueueInv

-----------------------------------------------------------------------------
(* The theorems. *)

LEMMA InvInit == Init => IInv
<1>. SUFFICES ASSUME Init  PROVE IInv  OBVIOUS
<1>1. /\ calls = [c \in Calls |-> NoCall]
      /\ storeQueue = <<>> /\ runs = {} /\ issued = DOMAIN file.sessions
      /\ ended = {} /\ kept = {}
  BY DEF Init
<1>2. /\ file \in Earlier
      /\ queue = [p \in Procs |-> <<>>]
      /\ snapshot = [p \in Procs |-> None]
  BY DEF Init, IdentityInit
<1>3. NoCall = [stage |-> "idle", ask |-> None, who |-> None, dead |-> FALSE, ok |-> FALSE]
  BY DEF NoCall
<1>4. \A c \in Calls : CallForm(c, calls[c], ended)
  BY <1>1, <1>3 DEF CallForm, IsCall, Resting
<1>5. \A p \in Procs : QueueForm(queue[p], p, calls)  BY <1>2, EmptyIs DEF QueueForm
<1>6. StoreQueueInv  BY <1>1, EmptyIs DEF StoreQueueInv
<1>7. StateInv(file)
  BY <1>2, IdentityAssumption, RequestAssumption DEF StateInv, Names, Over
<1>8. FileInv  BY <1>1, <1>2, <1>7, IdentityAssumption DEF FileInv, EndedRevoked, Names
<1>. QED  BY <1>1, <1>2, <1>4, <1>5, <1>6, <1>8 DEF IInv

LEMMA InvNext == IInv /\ [Next]_vars => IInv'
<1>. SUFFICES ASSUME IInv, [Next]_vars  PROVE IInv'  OBVIOUS
<1>1. ASSUME NEW c \in Calls, Receive(c) \/ Advance(c) \/ StreamCloses(c)  PROVE IInv'
  BY <1>1, ReceiveInv, CheckRequestInv, LiveStepsInv, AuthenticateInv DEF Advance
<1>2. CASE ScriptStarts  BY <1>2, ScriptStartsInv
<1>3. ASSUME NEW p \in Procs, UpdateReads(p) /\ UNCHANGED apiVars  PROVE IInv'
  BY <1>3, UpdateReadsInv
<1>4. ASSUME NEW p \in Procs, UpdateSettles(p) \/ Crash(p)  PROVE IInv'
  BY <1>4, UpdateSettlesInv, CrashInv
<1>5. CASE SaveEnds  BY <1>5, SaveEndsInv
<1>6. ASSUME NEW key \in DOMAIN attempts, WindowEnds(key)  PROVE IInv'
  BY <1>6, RestInv DEF WindowEnds, identityVars
<1>7. ASSUME NEW x \in Calls, Expire(x) /\ UNCHANGED apiVars  PROVE IInv'
  BY <1>7, RestInv DEF Expire, apiVars
<1>8. CASE UNCHANGED vars
  BY <1>8, RestInv DEF vars, identityVars, apiVars
<1>. QED  BY <1>1, <1>2, <1>3, <1>4, <1>5, <1>6, <1>7, <1>8 DEF Next

\* The invariant holds in every state of the server and the bootstrap script,
\* whatever requests come, whatever writes fail and whichever process dies.
THEOREM ApiInvariant == Spec => []IInv
BY InvInit, InvNext, PTL DEF Spec

\* What executeOperation has answered stands: a session or token that was given
\* out is in the identity file unless the script wrote over it, a credential
\* that was ended is revoked there, also after the script's late write and after
\* failed updates and crashes, and a run that was answered is in state.json
\* until a reset.
THEOREM AnswersStand == Spec => []AnsweredKept
<1>1. IInv => AnsweredKept
  BY DEF IInv, FileInv, EndedRevoked, Names, AnsweredKept
<1>. QED  BY <1>1, ApiInvariant, PTL

\* authenticateAndAuthorize refuses every request that arrives after the end of
\* its credential was answered: whatever updates wait, overlap or fail, it never
\* reaches the policy decision or executeOperation.
THEOREM EndedStaysOut == Spec => []EndedIsOut
<1>1. IInv => EndedIsOut  BY DEF IInv, CallForm, EndedIsOut
<1>. QED  BY <1>1, ApiInvariant, PTL

=============================================================================
