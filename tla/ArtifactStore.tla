---------------------------- MODULE ArtifactStore ----------------------------
(***************************************************************************)
(* The artifact store (providers/native/artifact-filesystem/src/index.mjs) *)
(* of one workspace: immutable bodies named by their content, logical      *)
(* records that refer to them, and tombstones of deleted records, all of   *)
(* them files.                                                             *)
(*                                                                         *)
(* Workers are operations of any process on the same directory.  An action *)
(* is one file operation; nothing locks the directory.  Bodies are equal   *)
(* iff their hashes are, a record is named by what it says (its logical    *)
(* id), and a record put again after its deletion gets a name of its own.  *)
(***************************************************************************)
EXTENDS Integers, FiniteSets

CONSTANTS
    Logical,    \* what may be put: a body with its provenance
    Content,    \* [Logical -> contents]
    Retention,  \* [Logical -> {"retain", "expire-at", "legal-hold"}]
    Workers,
    MaxNames,   \* bound: names after the first that a logical record takes
    MaxOps,     \* bound: operations begun on the store
    MaxStops,   \* bound: operations that end in an error or a crash
    None

ASSUME ArtifactAssumption ==
    /\ Retention \in [Logical -> {"retain", "expire-at", "legal-hold"}]
    /\ MaxNames \in Nat
    /\ MaxOps \in Nat
    /\ MaxStops \in Nat

Contents == {Content[l] : l \in Logical}

\* Record ids: the logical id, and those with a suffix.
Ids == Logical \X (0 .. MaxNames)
Body(id) == Content[id[1]]

VARIABLES
    objects,    \* contents whose body is stored
    records,    \* ids of the active records
    tombstones, \* [Ids -> None or whether the body is said to be deleted]
    expired,    \* logical records whose retention has run out
    op,         \* [Workers -> the operation under way]
    begun,      \* operations begun so far
    stops,      \* operations that ended early so far
    raced       \* history: contents that a put found and a removal deleted

storeVars == <<objects, records, tombstones, expired, op, begun, stops, raced>>

Idle == [at |-> "idle", id |-> None, gone |-> FALSE, todo |-> {}]
Putting == {"checking", "writing", "written", "naming", "recording"}
Removing == {"tombstoning", "dropping", "listing", "deleting", "receipt"}

Init ==
    /\ objects = {}
    /\ records = {}
    /\ tombstones = [id \in Ids |-> None]
    /\ expired = {}
    /\ op = [w \in Workers |-> Idle]
    /\ begun = 0
    /\ stops = 0
    /\ raced = {}

At(w, place) == op[w].at = place
Go(w, place) == op' = [op EXCEPT ![w].at = place]

\* A worker takes up an operation.
Begin(w, operation) ==
    /\ At(w, "idle")
    /\ begun < MaxOps
    /\ begun' = begun + 1
    /\ op' = [op EXCEPT ![w] = operation]
    /\ UNCHANGED <<objects, records, tombstones, expired, stops, raced>>

\* Operations of other workers on the same body.
Others(w, places) ==
    {v \in Workers \ {w} : op[v].at \in places /\ Body(op[v].id) = Body(op[w].id)}

-----------------------------------------------------------------------------
(* put and putSourceSnapshot *)

PutBegin(w, l) ==
    Begin(w, [Idle EXCEPT !.at = "checking", !.id = <<l, 0>>])

\* An existing body is kept as it is.
CheckObject(w) ==
    /\ At(w, "checking")
    /\ Go(w, IF Body(op[w].id) \in objects THEN "naming" ELSE "writing")
    /\ UNCHANGED <<objects, records, tombstones, expired, begun, stops, raced>>

WriteObject(w) ==
    /\ At(w, "writing")
    /\ objects' = objects \cup {Body(op[w].id)}
    /\ Go(w, "written")
    /\ UNCHANGED <<records, tombstones, expired, begun, stops, raced>>

\* The body just written is read back; the put fails if it is gone.
ReadBack(w) ==
    /\ At(w, "written")
    /\ op' = [op EXCEPT ![w] = IF Body(op[w].id) \in objects
                               THEN [@ EXCEPT !.at = "naming"] ELSE Idle]
    /\ UNCHANGED <<objects, records, tombstones, expired, begun, stops, raced>>

\* availableRecordId: a tombstone on the logical id asks for a new name.
NameRecord(w) ==
    /\ At(w, "naming")
    /\ LET l == op[w].id[1]
           fresh == {n \in 1 .. MaxNames :
                       <<l, n>> \notin records /\ tombstones[<<l, n>>] = None}
       IN  \/ /\ tombstones[<<l, 0>>] = None
              /\ Go(w, "recording")
           \/ /\ tombstones[<<l, 0>>] # None
              /\ \E n \in fresh :
                    op' = [op EXCEPT ![w].at = "recording", ![w].id = <<l, n>>]
    /\ UNCHANGED <<objects, records, tombstones, expired, begun, stops, raced>>

\* writeOrReadRecord: the record that is there, or a new one; the history
\* notes a removal that has found the body without a record by now.
WriteRecord(w) ==
    /\ At(w, "recording")
    /\ records' = records \cup {op[w].id}
    /\ op' = [op EXCEPT ![w] = Idle]
    /\ raced' = IF Others(w, {"deleting"}) = {} THEN raced
                ELSE raced \cup {Body(op[w].id)}
    /\ UNCHANGED <<objects, tombstones, expired, begun, stops>>

-----------------------------------------------------------------------------
(* removeRecord, planRetention and applyRetention *)

\* Retention allows the record to go: never under legal hold; before it runs
\* out only for a retention run, which asks for what has run out.
Removable(id) ==
    /\ Retention[id[1]] # "legal-hold"
    /\ Retention[id[1]] = "expire-at" => id[1] \in expired

RemoveBegin(w, id) ==
    /\ id \in records
    /\ Removable(id)
    /\ Begin(w, [Idle EXCEPT !.at = "tombstoning", !.id = id])

WriteTombstone(w) ==
    /\ At(w, "tombstoning")
    /\ tombstones' = [tombstones EXCEPT ![op[w].id] = FALSE]
    /\ Go(w, "dropping")
    /\ UNCHANGED <<objects, records, expired, begun, stops, raced>>

DropRecord(w) ==
    /\ At(w, "dropping")
    /\ records' = records \ {op[w].id}
    /\ Go(w, "listing")
    /\ UNCHANGED <<objects, tombstones, expired, begun, stops, raced>>

\* The active records of the body.
Referencing(content) == {id \in records : Body(id) = content}

ListRemaining_IgnoresOthers(w) ==
    /\ At(w, "listing")
    /\ Go(w, "deleting")
    /\ UNCHANGED <<objects, records, tombstones, expired, begun, stops, raced>>

ListRemaining_BeforeDrop(w) ==
    /\ At(w, "listing")
    /\ Go(w, IF \E id \in records \cup {op[w].id} : Body(id) = Body(op[w].id)
             THEN "receipt" ELSE "deleting")
    /\ UNCHANGED <<objects, records, tombstones, expired, begun, stops, raced>>

ListRemaining(w) ==
    /\ At(w, "listing")
    /\ Go(w, IF Referencing(Body(op[w].id)) = {} THEN "deleting" ELSE "receipt")
    /\ UNCHANGED <<objects, records, tombstones, expired, begun, stops, raced>>

\* The body goes; the history notes a put that has found it by now.
DeleteObject(w) ==
    LET content == Body(op[w].id)
    IN  /\ At(w, "deleting")
        /\ objects' = objects \ {content}
        /\ op' = [op EXCEPT ![w].at = "receipt", ![w].gone = TRUE]
        /\ raced' = IF Others(w, {"naming", "recording"}) = {} THEN raced
                    ELSE raced \cup {content}
        /\ UNCHANGED <<records, tombstones, expired, begun, stops>>

\* The final tombstone; a retention run goes on with what it had planned.
WriteReceipt(w) ==
    /\ At(w, "receipt")
    /\ tombstones' = [tombstones EXCEPT ![op[w].id] = op[w].gone]
    /\ op' = [op EXCEPT ![w] = IF @.todo = {} THEN Idle
                               ELSE [Idle EXCEPT !.at = "planned", !.todo = op[w].todo]]
    /\ UNCHANGED <<objects, records, expired, begun, stops, raced>>

\* The records whose retention has run out, as one listing shows them.
PlanRetention(w) ==
    LET due == {id \in records : /\ Retention[id[1]] = "expire-at"
                                 /\ id[1] \in expired}
    IN  /\ due # {}
        /\ Begin(w, [Idle EXCEPT !.at = "planned", !.todo = due])

\* The next planned removal reads its record again; one that is gone is
\* passed over.
ApplyNext(w) ==
    /\ At(w, "planned")
    /\ \E id \in op[w].todo :
          LET rest == op[w].todo \ {id}
          IN  op' = [op EXCEPT ![w] =
                IF id \in records
                THEN [Idle EXCEPT !.at = "tombstoning", !.id = id, !.todo = rest]
                ELSE IF rest = {} THEN Idle ELSE [@ EXCEPT !.todo = rest]]
    /\ UNCHANGED <<objects, records, tombstones, expired, begun, stops, raced>>

Expire(l) ==
    /\ Retention[l] = "expire-at"
    /\ l \notin expired
    /\ expired' = expired \cup {l}
    /\ UNCHANGED <<objects, records, tombstones, op, begun, stops, raced>>

\* An operation ends early: the process dies, a file operation fails, or a
\* source snapshot turns out to lack a field after its body was written.
Stop(w) ==
    /\ ~At(w, "idle")
    /\ stops < MaxStops
    /\ stops' = stops + 1
    /\ op' = [op EXCEPT ![w] = Idle]
    /\ UNCHANGED <<objects, records, tombstones, expired, begun, raced>>

-----------------------------------------------------------------------------
Put(w) ==
    \/ CheckObject(w) \/ WriteObject(w) \/ ReadBack(w) \/ NameRecord(w)
    \/ WriteRecord(w)

Remove(w) ==
    \/ WriteTombstone(w) \/ DropRecord(w) \/ ListRemaining(w)
    \/ DeleteObject(w) \/ WriteReceipt(w) \/ ApplyNext(w)

StoreNext ==
    \/ \E w \in Workers :
          \/ \E l \in Logical : PutBegin(w, l)
          \/ \E id \in Ids : RemoveBegin(w, id)
          \/ Put(w) \/ Remove(w) \/ PlanRetention(w) \/ Stop(w)
    \/ \E l \in Logical : Expire(l)

-----------------------------------------------------------------------------
(* Properties. *)

\* An active record has its body, whatever puts, removals and retention runs
\* overlap and wherever they are cut short.  The one exception is the race
\* that the history notes: a body deleted between the listing of its records
\* and the record of a put that had found it stored.
RecordHasBody == \A id \in records : Body(id) \in objects \cup raced

\* A body without a record belongs to an operation under way, or to one that
\* was cut short: nothing leaks while all operations end.
NoStrayBody ==
    stops = 0 =>
       \A c \in objects :
          \/ Referencing(c) # {}
          \/ \E w \in Workers : op[w].at \in Putting \cup Removing
                                /\ Body(op[w].id) = c

=============================================================================
