----------------------------- MODULE BackupProofs -----------------------------
(***************************************************************************)
(* Proofs about the artifact store and its backups, for any number of      *)
(* records, workers, backups and operations: a record has its body, no     *)
(* body is left stray while operations end, a backup that verifies is      *)
(* whole, and a restore does what it reports.                              *)
(***************************************************************************)
EXTENDS Backup, TLAPS

-----------------------------------------------------------------------------
(* Types. *)

NoRecord == {"idle", "planned"}
StorePlaces == NoRecord \cup Putting \cup Removing
Tombstones == [Ids -> BOOLEAN \cup {None}]
Operation == [at : StorePlaces, id : Ids \cup {None}, gone : BOOLEAN, todo : SUBSET Ids]

StoreTypeOK ==
    /\ objects \subseteq Contents
    /\ records \subseteq Ids
    /\ tombstones \in Tombstones
    /\ op \in [Workers -> Operation]
    /\ \A w \in Workers : op[w].at \notin NoRecord => op[w].id \in Ids
    /\ stops \in Nat

DirPlaces == {"none", "saved", "copying", "exported", "sealed", "failed"}
Directory == [at : DirPlaces, state : Backups \cup {None}, records : SUBSET Ids,
              copied : SUBSET Contents, tombstones : Tombstones, damaged : SUBSET Files]
RestorePlaces == {"none", "verified", "importing", "objects", "tombstones", "integrity",
                  "done", "failed", "died"}

Target == [state : Backups \cup {None, Altered}, objects : SUBSET Contents,
           records : SUBSET Ids, altered : SUBSET (Ids \X Contents),
           tombstones : Tombstones, sources : SUBSET Backups]
Restore == [at : RestorePlaces, from : Backups \cup {None}, bodies : SUBSET Contents,
            refs : SUBSET Ids]

BackupTypeOK ==
    /\ backup \in [Backups -> Directory]
    /\ target \in Target
    /\ restore \in Restore

-----------------------------------------------------------------------------
(* The inductive invariant. *)

\* A put that goes on to its record has found the body, and it is there
\* still unless the history notes the race.
FoundIsThere ==
    \A w \in Workers :
       op[w].at \in {"naming", "recording"} => Body(op[w].id) \in objects \cup raced

\* A removal that goes on to the body has found no record of it, and there is
\* none still unless the history notes the race.
DoomedIsUnused ==
    \A w \in Workers :
       op[w].at = "deleting" =>
          Referencing(Body(op[w].id)) = {} \/ Body(op[w].id) \in raced

\* Operations that still have to settle what becomes of their body: a removal
\* that has reached its receipt is no longer among them.
Settling == (Putting \cup Removing) \ {"receipt"}

\* While no operation is cut short, a body without a record is one that an
\* operation will still settle.
StrayIsHeld ==
    stops = 0 =>
       \A c \in objects :
          \/ Referencing(c) # {}
          \/ \E w \in Workers : op[w].at \in Settling /\ Body(op[w].id) = c

StoreInv == RecordHasBody /\ FoundIsThere /\ DoomedIsUnused /\ StrayIsHeld

\* What a backup directory holds at each place of its writer.
DirInv ==
    \A b \in Backups :
       /\ backup[b].at \in {"saved", "copying", "exported", "sealed"} =>
             backup[b].state = b
       /\ backup[b].at \in {"exported", "sealed"} =>
             Needed(backup[b]) \subseteq backup[b].copied

\* What target t holds when directory dir is all it was ever restored from:
\* nothing that dir does not hold, unless it was read from a damaged file.
Took(t, dir) ==
    /\ t.objects \subseteq Needed(dir)
    /\ t.records \subseteq dir.records
    /\ "record" \notin dir.damaged => t.altered = {}
    /\ "tombstone" \notin dir.damaged =>
          \A id \in Ids : t.tombstones[id] \in {None, dir.tombstones[id]}

\* The sources of a target are sealed.
SourcesInv ==
    /\ \A b \in target.sources : backup[b].at = "sealed"
    /\ target.sources = {} =>
          /\ restore.at = "none"
          /\ target.objects = {} /\ target.records = {} /\ target.altered = {}
          /\ \A id \in Ids : target.tombstones[id] = None
    /\ \A b \in Backups : target.sources = {b} => Took(target, backup[b])

\* What restore now of directory dir has done to target t at each of its places.
Did(t, now, dir) ==
    /\ now.bodies \subseteq Needed(dir) /\ now.bodies \subseteq t.objects
    /\ now.refs \subseteq dir.records
    /\ "record" \notin dir.damaged => now.refs \subseteq t.records
    /\ /\ now.at \in {"importing", "objects", "tombstones", "integrity", "done"}
       /\ "state" \notin dir.damaged
       => t.state = dir.state
    /\ now.at \in {"tombstones", "integrity", "done"} =>
          now.bodies = Needed(dir) /\ now.refs = dir.records
    /\ now.at \in {"integrity", "done"} /\ "tombstone" \notin dir.damaged =>
          \A id \in Ids : dir.tombstones[id] \in {None, t.tombstones[id]}
    /\ now.at = "done" => Integrity(t)
    /\ now.at = "failed" /\ t.sources = {now.from} => dir.damaged # {}

RestoreInv ==
    restore.at # "none" =>
       restore.from \in target.sources /\ Did(target, restore, Source)

IInv ==
    /\ StoreTypeOK
    /\ BackupTypeOK
    /\ StoreInv
    /\ DirInv
    /\ SourcesInv
    /\ RestoreInv

-----------------------------------------------------------------------------
(* Lemmas about the operators of the store. *)

LEMMA IdsAre ==
    /\ \A id \in Ids : id[1] \in Logical /\ Body(id) \in Contents
    /\ \A l \in Logical, n \in 0 .. MaxNames :
          <<l, n>> \in Ids /\ Body(<<l, n>>) = Content[l]
BY DEF Ids, Body, Contents

LEMMA IdleIs ==
    /\ Idle \in Operation
    /\ Idle.at = "idle"
BY DEF Idle, Operation, StorePlaces, NoRecord

\* The operation that moves is the only one that changes.
LEMMA Moved ==
    ASSUME StoreTypeOK, NEW w \in Workers, NEW x \in Operation,
           x.at \notin NoRecord => x.id \in Ids,
           op' = [op EXCEPT ![w] = x]
    PROVE  /\ op' \in [Workers -> Operation]
           /\ \A v \in Workers : op'[v].at \notin NoRecord => op'[v].id \in Ids
           /\ op'[w] = x
           /\ \A v \in Workers \ {w} : op'[v] = op[v]
BY DEF StoreTypeOK

LEMMA Went ==
    ASSUME StoreTypeOK, NEW w \in Workers, NEW place \in StorePlaces \ NoRecord,
           op[w].at \notin NoRecord, Go(w, place)
    PROVE  /\ op' \in [Workers -> Operation]
           /\ \A v \in Workers : op'[v].at \notin NoRecord => op'[v].id \in Ids
           /\ op'[w].at = place /\ op'[w].id = op[w].id
           /\ op[w].id \in Ids
           /\ \A v \in Workers \ {w} : op'[v] = op[v]
<1>. DEFINE x == [op[w] EXCEPT !.at = place]
<1>1. op[w] \in Operation /\ op[w].id \in Ids  BY DEF StoreTypeOK
<1>2. x \in Operation /\ x.at = place /\ x.id = op[w].id  BY <1>1 DEF Operation
<1>3. op' = [op EXCEPT ![w] = x]  BY DEF Go
<1>. HIDE DEF x
<1>. QED  BY <1>1, <1>2, <1>3, Moved

-----------------------------------------------------------------------------
(* The operations of the store preserve its invariant. *)

\* Nothing but the operation of a worker changes, and it neither claims a
\* body, nor lets one go, nor leaves one without a record.
LEMMA OnlyOp ==
    ASSUME StoreTypeOK, StoreInv, NEW w \in Workers,
           op' \in [Workers -> Operation],
           \A v \in Workers : op'[v].at \notin NoRecord => op'[v].id \in Ids,
           \A v \in Workers \ {w} : op'[v] = op[v],
           UNCHANGED <<objects, records, tombstones, raced>>,
           stops' \in Nat, stops' = 0 => stops = 0,
           op'[w].at \in {"naming", "recording"} =>
              Body(op'[w].id) \in objects \cup raced,
           op'[w].at = "deleting" =>
              Referencing(Body(op'[w].id)) = {} \/ Body(op'[w].id) \in raced,
           op[w].at \in Settling /\ stops' = 0 =>
              \/ op'[w].at \in Settling /\ Body(op'[w].id) = Body(op[w].id)
              \/ Body(op[w].id) \notin objects
              \/ Referencing(Body(op[w].id)) # {}
    PROVE  StoreTypeOK' /\ StoreInv'
<1>1. StoreTypeOK'  BY DEF StoreTypeOK
<1>2. RecordHasBody'  BY DEF StoreInv, RecordHasBody
<1>3. FoundIsThere'  BY DEF StoreInv, FoundIsThere
<1>4. DoomedIsUnused'  BY DEF StoreInv, DoomedIsUnused, Referencing
<1>5. StrayIsHeld'
  <2>. SUFFICES ASSUME stops' = 0, NEW c \in objects, Referencing(c) = {}
                PROVE  \E v \in Workers : op'[v].at \in Settling /\ Body(op'[v].id) = c
    BY DEF StrayIsHeld, Referencing
  <2>1. PICK v \in Workers : op[v].at \in Settling /\ Body(op[v].id) = c
    BY DEF StoreInv, StrayIsHeld
  <2>. QED  BY <2>1
<1>. QED  BY <1>1, <1>2, <1>3, <1>4, <1>5 DEF StoreInv

LEMMA BeginInv ==
    ASSUME StoreTypeOK, StoreInv, NEW w \in Workers, NEW x \in Operation,
           x.at \in {"checking", "tombstoning", "planned"},
           x.at # "planned" => x.id \in Ids,
           Begin(w, x)
    PROVE  StoreTypeOK' /\ StoreInv'
<1>1. op' = [op EXCEPT ![w] = x]  BY DEF Begin
<1>2. x.at \notin NoRecord => x.id \in Ids  BY DEF NoRecord
<1>3. op[w].at = "idle"  BY DEF Begin, At
<1>4. "idle" \notin Settling  BY DEF Settling, Putting, Removing
<1>. QED  BY <1>1, <1>2, <1>3, <1>4, Moved, OnlyOp DEF StoreTypeOK, Begin

LEMMA PutBeginInv ==
    ASSUME StoreTypeOK, StoreInv, NEW w \in Workers, NEW l \in Logical, PutBegin(w, l)
    PROVE  StoreTypeOK' /\ StoreInv'
<1>. DEFINE x == [Idle EXCEPT !.at = "checking", !.id = <<l, 0>>]
<1>1. <<l, 0>> \in Ids  BY IdsAre, ArtifactAssumption
<1>2. x \in Operation /\ x.at = "checking" /\ x.id = <<l, 0>>
  BY <1>1 DEF Idle, Operation, StorePlaces, Putting
<1>3. Begin(w, x)  BY DEF PutBegin
<1>. HIDE DEF x
<1>. QED  BY <1>1, <1>2, <1>3, BeginInv

LEMMA RemoveBeginInv ==
    ASSUME StoreTypeOK, StoreInv, NEW w \in Workers, NEW id \in Ids, RemoveBegin(w, id)
    PROVE  StoreTypeOK' /\ StoreInv'
<1>. DEFINE x == [Idle EXCEPT !.at = "tombstoning", !.id = id]
<1>1. x \in Operation /\ x.at = "tombstoning" /\ x.id = id
  BY DEF Idle, Operation, StorePlaces, Removing
<1>2. Begin(w, x)  BY DEF RemoveBegin
<1>. HIDE DEF x
<1>. QED  BY <1>1, <1>2, BeginInv

LEMMA PlanRetentionInv ==
    ASSUME StoreTypeOK, StoreInv, NEW w \in Workers, PlanRetention(w)
    PROVE  StoreTypeOK' /\ StoreInv'
<1>. DEFINE due == {id \in records : Retention[id[1]] = "expire-at" /\ id[1] \in expired}
            x == [Idle EXCEPT !.at = "planned", !.todo = due]
<1>1. due \subseteq Ids  BY DEF StoreTypeOK
<1>2. x \in Operation /\ x.at = "planned"
  BY <1>1 DEF Idle, Operation, StorePlaces, NoRecord
<1>3. Begin(w, x)  BY DEF PlanRetention
<1>. HIDE DEF x
<1>. QED  BY <1>2, <1>3, BeginInv

LEMMA CheckObjectInv ==
    ASSUME StoreTypeOK, StoreInv, NEW w \in Workers, CheckObject(w)
    PROVE  StoreTypeOK' /\ StoreInv'
<1>. DEFINE place == IF Body(op[w].id) \in objects THEN "naming" ELSE "writing"
<1>1. place \in StorePlaces \ NoRecord /\ place \in Settling
  BY DEF StorePlaces, NoRecord, Putting, Removing, Settling
<1>2. op[w].at \notin NoRecord  BY DEF CheckObject, At, NoRecord
<1>3. Go(w, place)  BY DEF CheckObject
<1>4. place = "naming" => Body(op[w].id) \in objects  OBVIOUS
<1>5. place \in {"naming", "writing"}  OBVIOUS
<1>. HIDE DEF place
<1>. QED  BY <1>1, <1>2, <1>3, <1>4, <1>5, Went, OnlyOp DEF CheckObject, StoreTypeOK

LEMMA WriteObjectInv ==
    ASSUME StoreTypeOK, StoreInv, NEW w \in Workers, WriteObject(w)
    PROVE  StoreTypeOK' /\ StoreInv'
<1>1. /\ op' \in [Workers -> Operation]
      /\ \A v \in Workers : op'[v].at \notin NoRecord => op'[v].id \in Ids
      /\ op'[w].at = "written" /\ op'[w].id = op[w].id
      /\ op[w].id \in Ids
      /\ \A v \in Workers \ {w} : op'[v] = op[v]
  BY Went DEF WriteObject, At, StorePlaces, NoRecord, Putting
<1>2. Body(op[w].id) \in Contents  BY <1>1, IdsAre
<1>3. objects' = objects \cup {Body(op[w].id)}
      /\ UNCHANGED <<records, tombstones, stops, raced>>
  BY DEF WriteObject
<1>4. StoreTypeOK'  BY <1>1, <1>2, <1>3 DEF StoreTypeOK
<1>5. RecordHasBody'  BY <1>3 DEF StoreInv, RecordHasBody
<1>6. FoundIsThere'  BY <1>1, <1>3 DEF StoreInv, FoundIsThere
<1>7. DoomedIsUnused'  BY <1>1, <1>3 DEF StoreInv, DoomedIsUnused, Referencing
<1>8. StrayIsHeld'
  <2>1. "written" \in Settling  BY DEF Settling, Putting
  <2>. SUFFICES ASSUME stops = 0, NEW c \in objects', Referencing(c) = {}
                PROVE  \E v \in Workers : op'[v].at \in Settling /\ Body(op'[v].id) = c
    BY <1>3 DEF StrayIsHeld, Referencing
  <2>2. CASE c = Body(op[w].id)  BY <1>1, <2>1, <2>2
  <2>3. CASE c # Body(op[w].id)
    <3>1. PICK v \in Workers : op[v].at \in Settling /\ Body(op[v].id) = c
      BY <1>3, <2>3 DEF StoreInv, StrayIsHeld
    <3>. QED  BY <1>1, <2>3, <3>1
  <2>. QED  BY <2>2, <2>3
<1>. QED  BY <1>4, <1>5, <1>6, <1>7, <1>8 DEF StoreInv

LEMMA ReadBackInv ==
    ASSUME StoreTypeOK, StoreInv, NEW w \in Workers, ReadBack(w)
    PROVE  StoreTypeOK' /\ StoreInv'
<1>1. CASE Body(op[w].id) \in objects
  <2>1. Go(w, "naming")  BY <1>1 DEF ReadBack, Go
  <2>2. op[w].at \notin NoRecord  BY DEF ReadBack, At, NoRecord
  <2>3. "naming" \in StorePlaces \ NoRecord /\ "naming" \in Settling
    BY DEF StorePlaces, NoRecord, Putting, Settling
  <2>. QED  BY <1>1, <2>1, <2>2, <2>3, Went, OnlyOp DEF ReadBack, StoreTypeOK
<1>2. CASE Body(op[w].id) \notin objects
  <2>1. op' = [op EXCEPT ![w] = Idle]  BY <1>2 DEF ReadBack
  <2>2. "idle" \in NoRecord  BY DEF NoRecord
  <2>. QED  BY <1>2, <2>1, <2>2, IdleIs, Moved, OnlyOp DEF ReadBack, StoreTypeOK
<1>. QED  BY <1>1, <1>2

LEMMA NameRecordInv ==
    ASSUME StoreTypeOK, StoreInv, NEW w \in Workers, NameRecord(w)
    PROVE  StoreTypeOK' /\ StoreInv'
<1>1. /\ op[w] \in Operation /\ op[w].id \in Ids /\ op[w].at = "naming"
  BY DEF StoreTypeOK, NameRecord, At, NoRecord
<1>2. /\ "recording" \in StorePlaces \ NoRecord
      /\ "recording" \in Settling
  BY DEF StorePlaces, NoRecord, Putting, Settling
<1>3. Body(op[w].id) \in objects \cup raced  BY <1>1 DEF StoreInv, FoundIsThere
<1>4. /\ UNCHANGED <<objects, records, tombstones, raced>>
      /\ stops' \in Nat /\ stops' = stops
  BY DEF NameRecord, StoreTypeOK
<1>5. CASE Go(w, "recording")
  BY <1>1, <1>2, <1>3, <1>4, <1>5, Went, OnlyOp DEF NoRecord
<1>6. ASSUME NEW n \in 1 .. MaxNames,
             op' = [op EXCEPT ![w].at = "recording", ![w].id = <<op[w].id[1], n>>]
      PROVE  StoreTypeOK' /\ StoreInv'
  <2>. DEFINE id == <<op[w].id[1], n>>
              x == [op[w] EXCEPT !.at = "recording", !.id = id]
  <2>1. id \in Ids /\ Body(id) = Body(op[w].id)
    BY <1>1, <1>6, IdsAre, ArtifactAssumption DEF Body
  <2>2. x \in Operation /\ x.at = "recording" /\ x.id = id
    BY <1>1, <1>2, <2>1 DEF Operation
  <2>3. op' = [op EXCEPT ![w] = x]  BY <1>6
  <2>. HIDE DEF x, id
  <2>. QED  BY <1>1, <1>2, <1>3, <1>4, <2>1, <2>2, <2>3, Moved, OnlyOp
<1>. QED  BY <1>5, <1>6 DEF NameRecord

\* A removal that has found no record of the body is noted by the put that
\* records it now.
LEMMA WriteRecordInv ==
    ASSUME StoreTypeOK, StoreInv, NEW w \in Workers, WriteRecord(w)
    PROVE  StoreTypeOK' /\ StoreInv'
<1>. DEFINE c == Body(op[w].id)
<1>1. op[w].at = "recording" /\ op[w].id \in Ids
  BY DEF WriteRecord, At, StoreTypeOK, NoRecord
<1>2. /\ op' \in [Workers -> Operation]
      /\ \A v \in Workers : op'[v].at \notin NoRecord => op'[v].id \in Ids
      /\ op'[w] = Idle
      /\ \A v \in Workers \ {w} : op'[v] = op[v]
  BY IdleIs, Moved DEF WriteRecord, NoRecord
<1>3. records' = records \cup {op[w].id} /\ UNCHANGED <<objects, tombstones, stops>>
  BY DEF WriteRecord
<1>4. /\ raced \subseteq raced'
      /\ \A v \in Workers \ {w} : op[v].at = "deleting" /\ Body(op[v].id) = c => c \in raced'
  BY DEF WriteRecord, Others
<1>5. StoreTypeOK'  BY <1>1, <1>2, <1>3 DEF StoreTypeOK
<1>6. RecordHasBody'
  BY <1>1, <1>3, <1>4 DEF StoreInv, RecordHasBody, FoundIsThere
<1>7. FoundIsThere'  BY <1>2, <1>3, <1>4, IdleIs DEF StoreInv, FoundIsThere
<1>8. DoomedIsUnused'
  <2>. SUFFICES ASSUME NEW v \in Workers, op'[v].at = "deleting",
                       Body(op'[v].id) \notin raced'
                PROVE  {id \in records' : Body(id) = Body(op'[v].id)} = {}
    BY DEF DoomedIsUnused, Referencing
  <2>1. v # w /\ op'[v] = op[v]  BY <1>2, IdleIs
  <2>2. Referencing(Body(op[v].id)) = {}  BY <1>4, <2>1 DEF StoreInv, DoomedIsUnused
  <2>3. Body(op[v].id) # c  BY <1>4, <2>1
  <2>. QED  BY <1>3, <2>1, <2>2, <2>3 DEF Referencing
<1>9. StrayIsHeld'
  <2>. SUFFICES ASSUME stops = 0, NEW d \in objects,
                       {id \in records' : Body(id) = d} = {}
                PROVE  \E v \in Workers : op'[v].at \in Settling /\ Body(op'[v].id) = d
    BY <1>3 DEF StrayIsHeld, Referencing
  <2>1. d # c /\ Referencing(d) = {}  BY <1>3 DEF Referencing
  <2>2. PICK v \in Workers : op[v].at \in Settling /\ Body(op[v].id) = d
    BY <2>1 DEF StoreInv, StrayIsHeld
  <2>. QED  BY <1>2, <2>1, <2>2
<1>. QED  BY <1>5, <1>6, <1>7, <1>8, <1>9 DEF StoreInv

LEMMA WriteTombstoneInv ==
    ASSUME StoreTypeOK, StoreInv, NEW w \in Workers, WriteTombstone(w)
    PROVE  StoreTypeOK' /\ StoreInv'
<1>1. /\ op' \in [Workers -> Operation]
      /\ \A v \in Workers : op'[v].at \notin NoRecord => op'[v].id \in Ids
      /\ op'[w].at = "dropping" /\ op'[w].id = op[w].id
      /\ \A v \in Workers \ {w} : op'[v] = op[v]
  BY Went DEF WriteTombstone, At, StorePlaces, NoRecord, Removing
<1>2. UNCHANGED <<objects, records, stops, raced>>  BY DEF WriteTombstone
<1>3. tombstones' \in Tombstones  BY DEF WriteTombstone, StoreTypeOK, Tombstones
<1>4. op[w].at = "tombstoning"  BY DEF WriteTombstone, At
<1>5. "dropping" \in Settling  BY DEF Settling, Removing
<1>6. StoreTypeOK'  BY <1>1, <1>2, <1>3 DEF StoreTypeOK
<1>7. RecordHasBody'  BY <1>2 DEF StoreInv, RecordHasBody
<1>8. FoundIsThere'  BY <1>1, <1>2 DEF StoreInv, FoundIsThere
<1>9. DoomedIsUnused'  BY <1>1, <1>2 DEF StoreInv, DoomedIsUnused, Referencing
<1>10. StrayIsHeld'
  <2>. SUFFICES ASSUME stops = 0, NEW c \in objects, Referencing(c) = {}
                PROVE  \E v \in Workers : op'[v].at \in Settling /\ Body(op'[v].id) = c
    BY <1>2 DEF StrayIsHeld, Referencing
  <2>1. PICK v \in Workers : op[v].at \in Settling /\ Body(op[v].id) = c
    BY DEF StoreInv, StrayIsHeld
  <2>. QED  BY <1>1, <1>5, <2>1
<1>. QED  BY <1>6, <1>7, <1>8, <1>9, <1>10 DEF StoreInv

\* The removal itself holds a body whose last record it drops.
LEMMA DropRecordInv ==
    ASSUME StoreTypeOK, StoreInv, NEW w \in Workers, DropRecord(w)
    PROVE  StoreTypeOK' /\ StoreInv'
<1>1. /\ op' \in [Workers -> Operation]
      /\ \A v \in Workers : op'[v].at \notin NoRecord => op'[v].id \in Ids
      /\ op'[w].at = "listing" /\ op'[w].id = op[w].id
      /\ \A v \in Workers \ {w} : op'[v] = op[v]
  BY Went DEF DropRecord, At, StorePlaces, NoRecord, Removing
<1>2. records' = records \ {op[w].id} /\ UNCHANGED <<objects, tombstones, stops, raced>>
  BY DEF DropRecord
<1>3. "listing" \in Settling  BY DEF Settling, Removing
<1>4. StoreTypeOK'  BY <1>1, <1>2 DEF StoreTypeOK
<1>5. RecordHasBody'  BY <1>2 DEF StoreInv, RecordHasBody
<1>6. FoundIsThere'  BY <1>1, <1>2 DEF StoreInv, FoundIsThere
<1>7. DoomedIsUnused'  BY <1>1, <1>2 DEF StoreInv, DoomedIsUnused, Referencing
<1>8. StrayIsHeld'
  <2>. SUFFICES ASSUME stops = 0, NEW c \in objects, Body(op[w].id) # c,
                       {id \in records' : Body(id) = c} = {}
                PROVE  \E v \in Workers : op'[v].at \in Settling /\ Body(op'[v].id) = c
    BY <1>1, <1>2, <1>3 DEF StrayIsHeld, Referencing
  <2>1. Referencing(c) = {}  BY <1>2 DEF Referencing
  <2>2. PICK v \in Workers : op[v].at \in Settling /\ Body(op[v].id) = c
    BY <2>1 DEF StoreInv, StrayIsHeld
  <2>. QED  BY <1>1, <2>2
<1>. QED  BY <1>4, <1>5, <1>6, <1>7, <1>8 DEF StoreInv

LEMMA ListRemainingInv ==
    ASSUME StoreTypeOK, StoreInv, NEW w \in Workers, ListRemaining(w)
    PROVE  StoreTypeOK' /\ StoreInv'
<1>. DEFINE place == IF Referencing(Body(op[w].id)) = {} THEN "deleting" ELSE "receipt"
<1>1. place \in StorePlaces \ NoRecord /\ (place = "deleting" => place \in Settling)
  BY DEF StorePlaces, NoRecord, Removing, Settling
<1>2. op[w].at \notin NoRecord  BY DEF ListRemaining, At, NoRecord
<1>3. Go(w, place)  BY DEF ListRemaining
<1>4. \/ place = "deleting" /\ Referencing(Body(op[w].id)) = {}
      \/ place = "receipt" /\ Referencing(Body(op[w].id)) # {}
  OBVIOUS
<1>. HIDE DEF place
<1>. QED  BY <1>1, <1>2, <1>3, <1>4, Went, OnlyOp DEF ListRemaining, StoreTypeOK

\* A put that has found the body is noted by the removal that deletes it now.
LEMMA DeleteObjectInv ==
    ASSUME StoreTypeOK, StoreInv, NEW w \in Workers, DeleteObject(w)
    PROVE  StoreTypeOK' /\ StoreInv'
<1>. DEFINE c == Body(op[w].id)
            x == [op[w] EXCEPT !.at = "receipt", !.gone = TRUE]
<1>1. op[w] \in Operation /\ op[w].id \in Ids /\ op[w].at = "deleting"
  BY DEF DeleteObject, At, StoreTypeOK, NoRecord
<1>2. x \in Operation /\ x.at = "receipt" /\ x.id = op[w].id
  BY <1>1 DEF Operation, StorePlaces, Removing
<1>3. op' = [op EXCEPT ![w] = x]  BY DEF DeleteObject
<1>4. /\ op' \in [Workers -> Operation]
      /\ \A v \in Workers : op'[v].at \notin NoRecord => op'[v].id \in Ids
      /\ op'[w].at = "receipt"
      /\ \A v \in Workers \ {w} : op'[v] = op[v]
  <2>. HIDE DEF x
  <2>. QED  BY <1>1, <1>2, <1>3, Moved
<1>5. objects' = objects \ {c} /\ UNCHANGED <<records, tombstones, stops>>
  BY DEF DeleteObject
<1>6. /\ raced \subseteq raced'
      /\ \A v \in Workers \ {w} :
            op[v].at \in {"naming", "recording"} /\ Body(op[v].id) = c => c \in raced'
  BY DEF DeleteObject, Others
<1>7. \A id \in records : Body(id) = c => c \in raced
  BY <1>1 DEF StoreInv, DoomedIsUnused, Referencing
<1>8. StoreTypeOK'  BY <1>4, <1>5 DEF StoreTypeOK
<1>9. RecordHasBody'  BY <1>5, <1>6, <1>7 DEF StoreInv, RecordHasBody
<1>10. FoundIsThere'  BY <1>4, <1>5, <1>6 DEF StoreInv, FoundIsThere
<1>11. DoomedIsUnused'  BY <1>4, <1>5, <1>6 DEF StoreInv, DoomedIsUnused, Referencing
<1>12. StrayIsHeld'
  <2>. SUFFICES ASSUME stops = 0, NEW d \in objects, d # c, Referencing(d) = {}
                PROVE  \E v \in Workers : op'[v].at \in Settling /\ Body(op'[v].id) = d
    BY <1>5 DEF StrayIsHeld, Referencing
  <2>1. PICK v \in Workers : op[v].at \in Settling /\ Body(op[v].id) = d
    BY DEF StoreInv, StrayIsHeld
  <2>. QED  BY <1>4, <2>1
<1>. QED  BY <1>8, <1>9, <1>10, <1>11, <1>12 DEF StoreInv

\* The receipt comes after the body is settled.
LEMMA WriteReceiptInv ==
    ASSUME StoreTypeOK, StoreInv, NEW w \in Workers, WriteReceipt(w)
    PROVE  StoreTypeOK' /\ StoreInv'
<1>. DEFINE x == IF op[w].todo = {} THEN Idle
                 ELSE [Idle EXCEPT !.at = "planned", !.todo = op[w].todo]
<1>1. op[w] \in Operation /\ op[w].at = "receipt"
  BY DEF WriteReceipt, At, StoreTypeOK
<1>2. x \in Operation /\ x.at \in NoRecord
  BY <1>1 DEF Operation, Idle, StorePlaces, NoRecord
<1>3. op' = [op EXCEPT ![w] = x]  BY DEF WriteReceipt
<1>4. /\ op' \in [Workers -> Operation]
      /\ \A v \in Workers : op'[v].at \notin NoRecord => op'[v].id \in Ids
      /\ op'[w].at \in NoRecord
      /\ \A v \in Workers \ {w} : op'[v] = op[v]
  <2>. HIDE DEF x
  <2>. QED  BY <1>1, <1>2, <1>3, Moved
<1>5. UNCHANGED <<objects, records, stops, raced>>  BY DEF WriteReceipt
<1>6. tombstones' \in Tombstones
  BY <1>1 DEF WriteReceipt, StoreTypeOK, Tombstones, Operation
<1>7. "receipt" \notin Settling  BY DEF Settling
<1>8. op'[w].at \notin {"naming", "recording", "deleting"}  BY <1>4 DEF NoRecord
<1>9. StoreTypeOK'  BY <1>4, <1>5, <1>6 DEF StoreTypeOK
<1>10. RecordHasBody'  BY <1>5 DEF StoreInv, RecordHasBody
<1>11. FoundIsThere'  BY <1>4, <1>5, <1>8 DEF StoreInv, FoundIsThere
<1>12. DoomedIsUnused'  BY <1>4, <1>5, <1>8 DEF StoreInv, DoomedIsUnused, Referencing
<1>13. StrayIsHeld'
  <2>. SUFFICES ASSUME stops = 0, NEW c \in objects, Referencing(c) = {}
                PROVE  \E v \in Workers : op'[v].at \in Settling /\ Body(op'[v].id) = c
    BY <1>5 DEF StrayIsHeld, Referencing
  <2>1. PICK v \in Workers : op[v].at \in Settling /\ Body(op[v].id) = c
    BY DEF StoreInv, StrayIsHeld
  <2>. QED  BY <1>1, <1>4, <1>7, <2>1
<1>. QED  BY <1>9, <1>10, <1>11, <1>12, <1>13 DEF StoreInv

LEMMA ApplyNextInv ==
    ASSUME StoreTypeOK, StoreInv, NEW w \in Workers, ApplyNext(w)
    PROVE  StoreTypeOK' /\ StoreInv'
<1>1. op[w] \in Operation /\ op[w].at = "planned"  BY DEF ApplyNext, At, StoreTypeOK
<1>2. PICK id \in op[w].todo :
         op' = [op EXCEPT ![w] =
                IF id \in records
                THEN [Idle EXCEPT !.at = "tombstoning", !.id = id, !.todo = op[w].todo \ {id}]
                ELSE IF op[w].todo \ {id} = {} THEN Idle
                     ELSE [@ EXCEPT !.todo = op[w].todo \ {id}]]
  BY DEF ApplyNext
<1>. DEFINE rest == op[w].todo \ {id}
            x == IF id \in records
                 THEN [Idle EXCEPT !.at = "tombstoning", !.id = id, !.todo = rest]
                 ELSE IF rest = {} THEN Idle ELSE [op[w] EXCEPT !.todo = rest]
<1>3. id \in Ids /\ rest \subseteq Ids  BY <1>1 DEF Operation
<1>4. /\ x \in Operation
      /\ x.at \in {"idle", "planned", "tombstoning"}
      /\ x.at \notin NoRecord => x.id \in Ids
  BY <1>1, <1>3 DEF Operation, Idle, StorePlaces, NoRecord, Removing
<1>5. op' = [op EXCEPT ![w] = x]  BY <1>2
<1>6. "planned" \notin Settling  BY DEF Settling, Putting, Removing
<1>7. UNCHANGED <<objects, records, tombstones, raced, stops>>  BY DEF ApplyNext
<1>. HIDE DEF x
<1>. QED  BY <1>1, <1>4, <1>5, <1>6, <1>7, Moved, OnlyOp DEF StoreTypeOK

\* Once an operation is cut short, a stray body is allowed for.
LEMMA StopInv ==
    ASSUME StoreTypeOK, StoreInv, NEW w \in Workers, Stop(w)
    PROVE  StoreTypeOK' /\ StoreInv'
<1>1. op' = [op EXCEPT ![w] = Idle]  BY DEF Stop
<1>2. stops' \in Nat /\ stops' # 0  BY DEF Stop, StoreTypeOK
<1>3. "idle" \in NoRecord  BY DEF NoRecord
<1>. QED  BY <1>1, <1>2, <1>3, IdleIs, Moved, OnlyOp DEF Stop

StoreStep == StoreTypeOK' /\ StoreInv'

LEMMA StoreNextInv ==
    ASSUME StoreTypeOK, StoreInv, StoreNext
    PROVE  StoreStep
<1>. USE DEF StoreStep
<1>1. ASSUME NEW w \in Workers, NEW l \in Logical, PutBegin(w, l)  PROVE StoreStep
  BY <1>1, PutBeginInv
<1>2. ASSUME NEW w \in Workers, NEW id \in Ids, RemoveBegin(w, id)  PROVE StoreStep
  BY <1>2, RemoveBeginInv
<1>3. ASSUME NEW w \in Workers, Put(w)  PROVE StoreStep
  BY <1>3, CheckObjectInv, WriteObjectInv, ReadBackInv, NameRecordInv, WriteRecordInv
  DEF Put
<1>4. ASSUME NEW w \in Workers, Remove(w)  PROVE StoreStep
  BY <1>4, WriteTombstoneInv, DropRecordInv, ListRemainingInv, DeleteObjectInv,
     WriteReceiptInv, ApplyNextInv
  DEF Remove
<1>5. ASSUME NEW w \in Workers, PlanRetention(w)  PROVE StoreStep
  BY <1>5, PlanRetentionInv
<1>6. ASSUME NEW w \in Workers, Stop(w)  PROVE StoreStep
  BY <1>6, StopInv
<1>7. ASSUME NEW l \in Logical, Expire(l)  PROVE StoreStep
  BY <1>7 DEF Expire, StoreTypeOK, StoreInv, RecordHasBody, FoundIsThere,
     DoomedIsUnused, StrayIsHeld, Referencing
<1>. QED  BY <1>1, <1>2, <1>3, <1>4, <1>5, <1>6, <1>7 DEF StoreNext

\* A step that leaves the files and operations of the store alone.
LEMMA StoreUnchanged ==
    ASSUME StoreTypeOK, StoreInv, UNCHANGED <<objects, records, tombstones, op, raced>>,
           stops' \in Nat, stops' = 0 => stops = 0
    PROVE  StoreStep
BY DEF StoreStep, StoreTypeOK, StoreInv, RecordHasBody, FoundIsThere, DoomedIsUnused,
   StrayIsHeld, Referencing

-----------------------------------------------------------------------------
(* The steps of a backup preserve the invariants of directories, sources   *)
(* and restores.                                                           *)

DirStep == BackupTypeOK' /\ DirInv' /\ SourcesInv' /\ RestoreInv'
DirInvs == BackupTypeOK /\ DirInv /\ SourcesInv /\ RestoreInv

\* A directory that is not sealed is not read by any restore.
LEMMA DirChanges ==
    ASSUME StoreTypeOK, DirInvs, NEW b \in Backups, NEW dir \in Directory,
           backup' = [backup EXCEPT ![b] = dir],
           UNCHANGED <<target, restore>>,
           dir.at \in {"saved", "copying", "exported", "sealed"} => dir.state = b,
           dir.at \in {"exported", "sealed"} => Needed(dir) \subseteq dir.copied,
           \/ backup[b].at # "sealed"
           \/ /\ dir.at = "sealed" /\ dir.state = backup[b].state
              /\ dir.records = backup[b].records
              /\ dir.tombstones = backup[b].tombstones
              /\ backup[b].damaged \subseteq dir.damaged
    PROVE  DirStep
<1>. USE DEF DirInvs
<1>1. /\ backup \in [Backups -> Directory]
      /\ backup' \in [Backups -> Directory]
      /\ backup'[b] = dir
      /\ \A d \in Backups \ {b} : backup'[d] = backup[d]
  BY DEF BackupTypeOK
<1>2. BackupTypeOK'  BY <1>1 DEF BackupTypeOK
<1>3. DirInv'  BY <1>1 DEF DirInv, Needed
<1>4. ASSUME NEW d \in Backups, backup[d].at = "sealed"
      PROVE  /\ backup'[d].at = "sealed" /\ backup'[d].state = backup[d].state
             /\ backup'[d].records = backup[d].records
             /\ backup'[d].tombstones = backup[d].tombstones
             /\ Needed(backup'[d]) = Needed(backup[d])
             /\ backup[d].damaged \subseteq backup'[d].damaged
  BY <1>1, <1>4 DEF Needed
<1>5. target.sources \subseteq Backups  BY DEF BackupTypeOK, Target
<1>6. SourcesInv'
  <2>1. \A d \in Backups : target.sources = {d} => Took(target, backup'[d])
    <3>. SUFFICES ASSUME NEW d \in Backups, target.sources = {d}
                  PROVE  Took(target, backup'[d])
      OBVIOUS
    <3>1. Took(target, backup[d]) /\ backup[d].at = "sealed"  BY DEF SourcesInv
    <3>2. Took(target, backup'[d])  BY <1>4, <3>1 DEF Took
    <3>. QED  BY <3>2
  <2>2. \A d \in target.sources : backup'[d].at = "sealed"
    BY <1>4, <1>5 DEF SourcesInv
  <2>. QED  BY <2>1, <2>2 DEF SourcesInv
<1>7. RestoreInv'
  <2>1. CASE restore.at = "none"  BY <2>1 DEF RestoreInv
  <2>2. CASE restore.at # "none"
    <3>1. restore.from \in target.sources  BY <2>2 DEF RestoreInv
    <3>2. restore.from \in Backups /\ backup[restore.from].at = "sealed"
      BY <1>5, <3>1 DEF SourcesInv
    <3>3. Did(target, restore, Source)  BY <2>2 DEF RestoreInv
    <3>4. Did(target, restore, Source')  BY <1>4, <3>2, <3>3 DEF Did, Source
    <3>. QED  BY <3>1, <3>4 DEF RestoreInv
  <2>. QED  BY <2>1, <2>2
<1>. QED  BY <1>2, <1>3, <1>6, <1>7 DEF DirStep

BackupStep(b) ==
    \/ SaveState(b) \/ ExportRecords(b) \/ CopyObject(b)
    \/ ExportTombstones(b) \/ Seal(b) \/ Abandon(b)

LEMMA BackupStepInv ==
    ASSUME StoreTypeOK, StoreInv, DirInvs, NEW b \in Backups, BackupStep(b)
    PROVE  StoreStep /\ DirStep
<1>1. backup[b] \in Directory  BY DEF DirInvs, BackupTypeOK
<1>2. /\ backup[b].at \in {"saved", "copying", "exported", "sealed"} => backup[b].state = b
      /\ backup[b].at \in {"exported", "sealed"} => Needed(backup[b]) \subseteq backup[b].copied
  BY DEF DirInvs, DirInv
<1>3. ASSUME NEW dir \in Directory, Write(b, dir), backup[b].at # "sealed",
             dir.at \in {"saved", "copying", "exported", "sealed"} => dir.state = b,
             dir.at \in {"exported", "sealed"} => Needed(dir) \subseteq dir.copied
      PROVE  StoreStep /\ DirStep
  <2>1. UNCHANGED <<storeVars, target, restore>>  BY <1>3 DEF Write
  <2>2. StoreStep  BY <2>1, StoreUnchanged DEF storeVars, StoreTypeOK
  <2>3. DirStep  BY <1>3, <2>1, DirChanges DEF Write
  <2>. QED  BY <2>2, <2>3
<1>4. CASE SaveState(b)
  <2>. DEFINE dir == [backup[b] EXCEPT !.at = "saved", !.state = b]
  <2>1. dir \in Directory /\ dir.at = "saved" /\ dir.state = b
    BY <1>1 DEF Directory, DirPlaces
  <2>2. Write(b, dir) /\ backup[b].at # "sealed"  BY <1>4 DEF SaveState
  <2>. HIDE DEF dir
  <2>. QED  BY <1>3, <2>1, <2>2
<1>5. CASE ExportRecords(b)
  <2>. DEFINE dir == [backup[b] EXCEPT !.at = "copying", !.records = records]
  <2>1. dir \in Directory /\ dir.at = "copying" /\ dir.state = backup[b].state
    BY <1>1 DEF Directory, DirPlaces, StoreTypeOK
  <2>2. Write(b, dir) /\ backup[b].at = "saved"  BY <1>5 DEF ExportRecords
  <2>. HIDE DEF dir
  <2>. QED  BY <1>2, <1>3, <2>1, <2>2
<1>6. CASE CopyObject(b)
  <2>1. PICK c \in Needed(backup[b]) \ backup[b].copied :
           Write(b, IF c \in objects THEN [backup[b] EXCEPT !.copied = @ \cup {c}]
                    ELSE [backup[b] EXCEPT !.at = "failed"])
    BY <1>6 DEF CopyObject
  <2>. DEFINE dir == IF c \in objects THEN [backup[b] EXCEPT !.copied = backup[b].copied \cup {c}]
                     ELSE [backup[b] EXCEPT !.at = "failed"]
  <2>2. backup[b].at = "copying"  BY <1>6 DEF CopyObject
  <2>3. /\ dir \in Directory /\ dir.at \in {"copying", "failed"}
        /\ dir.state = backup[b].state
    BY <1>1, <2>2 DEF Directory, DirPlaces, StoreTypeOK
  <2>4. Write(b, dir)  BY <2>1
  <2>. HIDE DEF dir
  <2>. QED  BY <1>2, <1>3, <2>2, <2>3, <2>4
<1>7. CASE ExportTombstones(b)
  <2>. DEFINE dir == [backup[b] EXCEPT !.at = "exported", !.tombstones = tombstones]
  <2>1. /\ dir \in Directory /\ dir.at = "exported" /\ dir.state = backup[b].state
        /\ dir.records = backup[b].records /\ dir.copied = backup[b].copied
    BY <1>1 DEF Directory, DirPlaces, StoreTypeOK
  <2>2. /\ Write(b, dir) /\ backup[b].at = "copying"
        /\ Needed(backup[b]) \subseteq backup[b].copied
    BY <1>7 DEF ExportTombstones
  <2>. HIDE DEF dir
  <2>3. Needed(dir) = Needed(backup[b])  BY <2>1 DEF Needed
  <2>. QED  BY <1>2, <1>3, <2>1, <2>2, <2>3
<1>8. CASE Seal(b)
  <2>. DEFINE dir == [backup[b] EXCEPT !.at = "sealed"]
  <2>1. /\ dir \in Directory /\ dir.at = "sealed" /\ dir.state = backup[b].state
        /\ dir.records = backup[b].records /\ dir.copied = backup[b].copied
    BY <1>1 DEF Directory, DirPlaces
  <2>2. Write(b, dir) /\ backup[b].at = "exported"  BY <1>8 DEF Seal
  <2>. HIDE DEF dir
  <2>3. Needed(dir) = Needed(backup[b])  BY <2>1 DEF Needed
  <2>. QED  BY <1>2, <1>3, <2>1, <2>2, <2>3
<1>9. CASE Abandon(b)
  <2>. DEFINE dir == [backup[b] EXCEPT !.at = "failed"]
  <2>1. dir \in Directory /\ dir.at = "failed"  BY <1>1 DEF Directory, DirPlaces
  <2>2. backup[b].at # "sealed"  BY <1>9 DEF Abandon
  <2>3. backup' = [backup EXCEPT ![b] = dir] /\ UNCHANGED <<target, restore>>
    BY <1>9 DEF Abandon
  <2>4. StoreStep  BY <1>9, StoreUnchanged DEF Abandon, StoreTypeOK
  <2>. HIDE DEF dir
  <2>. QED  BY <2>1, <2>2, <2>3, <2>4, DirChanges
<1>. QED  BY <1>4, <1>5, <1>6, <1>7, <1>8, <1>9 DEF BackupStep

\* Damage leaves what a sealed backup says of itself, and is what a failed
\* restore may blame.
LEMMA DamageInv ==
    ASSUME StoreTypeOK, StoreInv, DirInvs, NEW b \in Backups, NEW file \in Files,
           Damage(b, file)
    PROVE  StoreStep /\ DirStep
<1>. DEFINE dir == [backup[b] EXCEPT !.damaged = backup[b].damaged \cup {file}]
<1>1. backup[b] \in Directory  BY DEF DirInvs, BackupTypeOK
<1>2. /\ dir \in Directory /\ dir.at = backup[b].at /\ dir.state = backup[b].state
      /\ dir.records = backup[b].records /\ dir.copied = backup[b].copied
      /\ dir.tombstones = backup[b].tombstones
      /\ backup[b].damaged \subseteq dir.damaged
  BY <1>1 DEF Directory
<1>3. /\ backup[b].at \in {"saved", "copying", "exported", "sealed"} => backup[b].state = b
      /\ backup[b].at \in {"exported", "sealed"} => Needed(backup[b]) \subseteq backup[b].copied
  BY DEF DirInvs, DirInv
<1>4. /\ backup' = [backup EXCEPT ![b] = dir] /\ UNCHANGED <<target, restore>>
      /\ backup[b].at = "sealed"
  BY DEF Damage
<1>5. StoreStep  BY StoreUnchanged DEF Damage, StoreTypeOK
<1>. HIDE DEF dir
<1>6. Needed(dir) = Needed(backup[b])  BY <1>2 DEF Needed
<1>. QED  BY <1>2, <1>3, <1>4, <1>5, <1>6, DirChanges

-----------------------------------------------------------------------------
(* The steps of a restore. *)

\* A restore that has begun reads one of the sources of its target.
LEMMA SourceIs ==
    ASSUME DirInvs, restore.at # "none"
    PROVE  /\ restore \in Restore /\ target \in Target
           /\ restore.from \in Backups /\ restore.from \in target.sources
           /\ Source \in Directory /\ Source.at = "sealed"
           /\ Did(target, restore, Source)
           /\ target.sources = {restore.from} => Took(target, Source)
<1>1. restore \in Restore /\ target \in Target /\ backup \in [Backups -> Directory]
  BY DEF DirInvs, BackupTypeOK
<1>2. restore.from \in target.sources /\ Did(target, restore, Source)
  BY DEF DirInvs, RestoreInv
<1>3. restore.from \in Backups  BY <1>1, <1>2 DEF Target
<1>4. /\ Source.at = "sealed"
      /\ target.sources = {restore.from} => Took(target, Source)
  BY <1>2, <1>3 DEF DirInvs, SourcesInv, Source
<1>. QED  BY <1>1, <1>2, <1>3, <1>4 DEF Source

LEMMA NeededType ==
    ASSUME NEW dir \in Directory
    PROVE  /\ Needed(dir) \subseteq Contents
           /\ \A id \in dir.records : Body(id) \in Needed(dir)
BY IdsAre DEF Directory, Needed

\* What has to be shown of a step of a restore: that the target and the restore
\* it leads to are what the invariant says of them.
LEMMA RestoredInv ==
    ASSUME StoreTypeOK, StoreInv, DirInvs, restore.at # "none",
           NEW t \in Target, NEW now \in Restore,
           Restored(t, now),
           now.at # "none", now.from = restore.from, t.sources = target.sources,
           Did(t, now, Source),
           target.sources = {restore.from} => Took(t, Source)
    PROVE  StoreStep /\ DirStep
<1>1. target' = t /\ restore' = now /\ UNCHANGED <<storeVars, backup>>
  BY DEF Restored
<1>2. StoreStep  BY <1>1, StoreUnchanged DEF storeVars, StoreTypeOK
<1>3. BackupTypeOK'  BY <1>1 DEF DirInvs, BackupTypeOK
<1>4. DirInv'  BY <1>1 DEF DirInvs, DirInv, Needed
<1>5. restore.from \in target.sources  BY SourceIs
<1>6. Source' = Source  BY <1>1 DEF Source
<1>7. SourcesInv'
  <2>1. \A b \in Backups : t.sources = {b} => Took(t, backup'[b])
    BY <1>1, <1>5 DEF Source
  <2>2. \A b \in t.sources : backup'[b].at = "sealed"
    BY <1>1 DEF DirInvs, SourcesInv
  <2>3. t.sources # {}  BY <1>5
  <2>. QED  BY <1>1, <2>1, <2>2, <2>3 DEF SourcesInv
<1>8. RestoreInv'
  <2>1. now.from \in t.sources /\ Did(t, now, Source')  BY <1>5, <1>6
  <2>. QED  BY <1>1, <2>1 DEF RestoreInv
<1>. QED  BY <1>2, <1>3, <1>4, <1>7, <1>8 DEF DirStep

\* A restore that only goes to another place.
LEMMA GoesType ==
    ASSUME NEW place \in RestorePlaces, restore \in Restore
    PROVE  /\ Goes(place) \in Restore
           /\ Goes(place).at = place /\ Goes(place).from = restore.from
           /\ Goes(place).bodies = restore.bodies /\ Goes(place).refs = restore.refs
BY DEF Goes, Restore

\* A restore may fail where a file is damaged, and in a target of two backups.
LEMMA FailsInv ==
    ASSUME StoreTypeOK, StoreInv, DirInvs, restore.at # "none", Fails,
           target.sources = {restore.from} => Source.damaged # {}
    PROVE  StoreStep /\ DirStep
<1>. DEFINE now == Goes("failed")
<1>1. /\ now \in Restore /\ now.at = "failed" /\ now.from = restore.from
      /\ now.bodies = restore.bodies /\ now.refs = restore.refs
  BY GoesType, SourceIs DEF RestorePlaces
<1>2. Restored(target, now)  BY DEF Fails
<1>. HIDE DEF now
<1>3. Did(target, now, Source)  BY <1>1, SourceIs DEF Did
<1>. QED  BY <1>1, <1>2, <1>3, SourceIs, RestoredInv

LEMMA RestoreBeginInv ==
    ASSUME StoreTypeOK, StoreInv, DirInvs, NEW b \in Backups, RestoreBegin(b)
    PROVE  StoreStep /\ DirStep
<1>. USE DEF DirInvs
<1>. DEFINE t == [target EXCEPT !.sources = target.sources \cup {b}]
            now == [NoRestore EXCEPT !.at = "verified", !.from = b]
<1>1. /\ target' = t /\ restore' = now
      /\ UNCHANGED <<storeVars, backup>>
      /\ backup[b].at = "sealed"
  BY DEF RestoreBegin, Restored, Verifies
<1>2. /\ t.sources = target.sources \cup {b}
      /\ t.objects = target.objects /\ t.records = target.records
      /\ t.altered = target.altered /\ t.tombstones = target.tombstones
      /\ t \in Target
  BY DEF BackupTypeOK, Target
<1>3. /\ now \in Restore /\ now.at = "verified" /\ now.from = b
      /\ now.bodies = {} /\ now.refs = {}
  BY DEF NoRestore, Restore, RestorePlaces
<1>. HIDE DEF t, now
<1>4. StoreStep  BY <1>1, StoreUnchanged DEF storeVars, StoreTypeOK
<1>5. BackupTypeOK'  BY <1>1, <1>2, <1>3 DEF BackupTypeOK
<1>6. DirInv'  BY <1>1 DEF DirInv, Needed
<1>7. SourcesInv'
  <2>1. ASSUME NEW d \in Backups, t.sources = {d}  PROVE Took(t, backup[d])
    <3>1. d = b /\ (target.sources = {} \/ target.sources = {b})  BY <1>2, <2>1
    <3>2. Took(target, backup[b])  BY <3>1 DEF SourcesInv, Took
    <3>. QED  BY <1>2, <3>1, <3>2 DEF Took
  <2>2. \A d \in t.sources : backup[d].at = "sealed"
    BY <1>1, <1>2 DEF SourcesInv
  <2>3. t.sources # {}  BY <1>2
  <2>. QED  BY <1>1, <2>1, <2>2, <2>3 DEF SourcesInv
<1>8. RestoreInv'
  <2>1. Did(t, now, backup[b])  BY <1>3 DEF Did
  <2>2. Source' = backup[b]  BY <1>1, <1>3 DEF Source
  <2>. QED  BY <1>1, <1>2, <1>3, <2>1, <2>2 DEF RestoreInv
<1>. QED  BY <1>4, <1>5, <1>6, <1>7, <1>8 DEF DirStep

\* The state that is installed is the one of the backup unless its file was
\* damaged.
LEMMA RestoreStateInv ==
    ASSUME StoreTypeOK, StoreInv, DirInvs, RestoreState
    PROVE  StoreStep /\ DirStep
<1>1. restore.at = "verified"  BY DEF RestoreState, Restoring
<1>2. CASE "state" \in Source.damaged /\ Fails  BY <1>1, <1>2, FailsInv
<1>3. ASSUME NEW state \in {Source.state, Altered},
             state = Altered => "state" \in Source.damaged,
             Restored([target EXCEPT !.state = state], Goes("importing"))
      PROVE  StoreStep /\ DirStep
  <2>. DEFINE t == [target EXCEPT !.state = state]
              now == Goes("importing")
  <2>1. /\ t \in Target /\ t.sources = target.sources /\ t.state = state
        /\ t.objects = target.objects /\ t.records = target.records
        /\ t.altered = target.altered /\ t.tombstones = target.tombstones
    BY <1>1, SourceIs DEF Target, Directory
  <2>2. /\ now \in Restore /\ now.at = "importing" /\ now.from = restore.from
        /\ now.bodies = restore.bodies /\ now.refs = restore.refs
    BY <1>1, GoesType, SourceIs DEF RestorePlaces
  <2>3. Restored(t, now)  BY <1>3
  <2>. HIDE DEF t, now
  <2>4. Did(t, now, Source)  BY <1>1, <1>3, <2>1, <2>2, SourceIs DEF Did
  <2>5. target.sources = {restore.from} => Took(t, Source)
    BY <1>1, <2>1, SourceIs DEF Took
  <2>. QED  BY <1>1, <2>1, <2>2, <2>3, <2>4, <2>5, RestoredInv
<1>4. CASE Restored([target EXCEPT !.state = Source.state], Goes("importing"))
  <2>1. Source \in Directory /\ DirInvs /\ restore.from \in Backups /\ Source.at = "sealed"
    BY <1>1, SourceIs
  <2>2. Source.state = restore.from  BY <2>1 DEF DirInvs, DirInv, Source
  <2>3. Source.state # Altered  BY <2>1, <2>2, BackupAssumption
  <2>. QED  BY <1>3, <1>4, <2>3
<1>. QED  BY <1>2, <1>3, <1>4 DEF RestoreState

\* Steps that read one file and go on: the manifest of the export, and the end
\* of its records.
LEMMA GoesOnInv ==
    ASSUME StoreTypeOK, StoreInv, DirInvs, ReadExport \/ RecordsImported
    PROVE  StoreStep /\ DirStep
<1>1. restore.at \in {"importing", "objects"}
  BY DEF ReadExport, RecordsImported, Restoring
<1>2. CASE "manifest" \in Source.damaged /\ Fails  BY <1>1, <1>2, FailsInv
<1>3. ASSUME NEW place \in {"objects", "tombstones"}, Restored(target, Goes(place)),
             place = "tombstones" =>
                restore.bodies = Needed(Source) /\ restore.refs = Source.records
      PROVE  StoreStep /\ DirStep
  <2>. DEFINE now == Goes(place)
  <2>1. /\ now \in Restore /\ now.at = place /\ now.from = restore.from
        /\ now.bodies = restore.bodies /\ now.refs = restore.refs
    BY <1>1, GoesType, SourceIs DEF RestorePlaces
  <2>2. Restored(target, now)  BY <1>3
  <2>. HIDE DEF now
  <2>3. Did(target, now, Source)  BY <1>1, <1>3, <2>1, SourceIs DEF Did
  <2>. QED  BY <1>1, <1>3, <2>1, <2>2, <2>3, SourceIs, RestoredInv
<1>. QED  BY <1>2, <1>3 DEF ReadExport, RecordsImported

\* An import fails where a body has been damaged.
LEMMA ImportObjectInv ==
    ASSUME StoreTypeOK, StoreInv, DirInvs, ImportObject
    PROVE  StoreStep /\ DirStep
<1>1. restore.at = "objects"  BY DEF ImportObject, Restoring
<1>2. PICK c \in Needed(Source) \ restore.bodies :
         IF c \in Source.damaged THEN Fails
         ELSE Restored([target EXCEPT !.objects = target.objects \cup {c}],
                       [restore EXCEPT !.bodies = restore.bodies \cup {c}])
  BY DEF ImportObject
<1>3. CASE c \in Source.damaged  BY <1>1, <1>2, <1>3, FailsInv
<1>4. CASE c \notin Source.damaged
  <2>. DEFINE t == [target EXCEPT !.objects = target.objects \cup {c}]
              now == [restore EXCEPT !.bodies = restore.bodies \cup {c}]
  <2>1. c \in Contents  BY <1>1, SourceIs, NeededType
  <2>2. /\ t \in Target /\ t.sources = target.sources /\ t.state = target.state
        /\ t.objects = target.objects \cup {c} /\ t.records = target.records
        /\ t.altered = target.altered /\ t.tombstones = target.tombstones
    BY <1>1, <2>1, SourceIs DEF Target
  <2>3. /\ now \in Restore /\ now.at = "objects" /\ now.from = restore.from
        /\ now.bodies = restore.bodies \cup {c} /\ now.refs = restore.refs
    BY <1>1, <2>1, SourceIs DEF Restore
  <2>4. Restored(t, now)  BY <1>2, <1>4
  <2>. HIDE DEF t, now
  <2>5. Did(t, now, Source)  BY <1>1, <2>2, <2>3, SourceIs DEF Did
  <2>6. target.sources = {restore.from} => Took(t, Source)
    BY <1>1, <2>2, SourceIs DEF Took
  <2>. QED  BY <1>1, <2>2, <2>3, <2>4, <2>5, <2>6, RestoredInv
<1>. QED  BY <1>3, <1>4

\* A record is imported as it was exported, or as it reads from a damaged file;
\* it meets another one of its id only after a damaged file or another backup.
LEMMA ImportRecordInv ==
    ASSUME StoreTypeOK, StoreInv, DirInvs, ImportRecord
    PROVE  StoreStep /\ DirStep
<1>1. restore.at = "objects"  BY DEF ImportRecord, Restoring
<1>2. PICK id \in Source.records \ restore.refs :
         \/ ImportGenuine(id)
         \/ "record" \in Source.damaged /\ ImportAltered(id)
  BY DEF ImportRecord
<1>3. /\ id \in Ids /\ restore.bodies \subseteq Contents
  BY <1>1, SourceIs DEF Directory, Restore
<1>. DEFINE now == [restore EXCEPT !.refs = restore.refs \cup {id}]
<1>4. /\ now \in Restore /\ now.at = "objects" /\ now.from = restore.from
      /\ now.bodies = restore.bodies /\ now.refs = restore.refs \cup {id}
  BY <1>1, <1>3, SourceIs DEF Restore
<1>5. CASE Restored([target EXCEPT !.records = target.records \cup {id}], now)
  <2>. DEFINE t == [target EXCEPT !.records = target.records \cup {id}]
  <2>1. /\ t \in Target /\ t.sources = target.sources /\ t.state = target.state
        /\ t.records = target.records \cup {id} /\ t.objects = target.objects
        /\ t.altered = target.altered /\ t.tombstones = target.tombstones
    BY <1>1, <1>3, SourceIs DEF Target
  <2>2. Restored(t, now)  BY <1>5
  <2>. HIDE DEF t, now
  <2>3. Did(t, now, Source)  BY <1>1, <1>4, <2>1, SourceIs DEF Did
  <2>4. target.sources = {restore.from} => Took(t, Source)
    BY <1>1, <2>1, SourceIs DEF Took
  <2>. QED  BY <1>1, <1>4, <2>1, <2>2, <2>3, <2>4, RestoredInv
<1>6. ASSUME NEW x \in Ids \X restore.bodies, "record" \in Source.damaged,
             Restored([target EXCEPT !.altered = target.altered \cup {x}], now)
      PROVE  StoreStep /\ DirStep
  <2>. DEFINE t == [target EXCEPT !.altered = target.altered \cup {x}]
  <2>1. x \in Ids \X Contents  BY <1>3
  <2>2. /\ t \in Target /\ t.sources = target.sources /\ t.state = target.state
        /\ t.records = target.records /\ t.objects = target.objects
        /\ t.tombstones = target.tombstones
    BY <1>1, <2>1, SourceIs DEF Target
  <2>3. Restored(t, now)  BY <1>6
  <2>. HIDE DEF t, now
  <2>4. Did(t, now, Source)  BY <1>1, <1>4, <1>6, <2>2, SourceIs DEF Did
  <2>5. target.sources = {restore.from} => Took(t, Source)
    BY <1>1, <1>6, <2>2, SourceIs DEF Took
  <2>. QED  BY <1>1, <1>4, <2>2, <2>3, <2>4, <2>5, RestoredInv
<1>7. CASE Fails /\ (HeldAltered(id) \/ target.sources # {restore.from})
  <2>1. target.sources = {restore.from} => Source.damaged # {}
    BY <1>1, <1>7, SourceIs DEF HeldAltered, Took
  <2>. QED  BY <1>1, <1>7, <2>1, FailsInv
<1>8. CASE Fails /\ "record" \in Source.damaged  BY <1>1, <1>8, FailsInv
<1>. HIDE DEF now
<1>. QED  BY <1>2, <1>5, <1>6, <1>7, <1>8 DEF ImportGenuine, ImportAltered, now

\* The tombstones of one backup do not differ from themselves, but as they are
\* read from damaged files.
LEMMA ImportTombstonesInv ==
    ASSUME StoreTypeOK, StoreInv, DirInvs, ImportTombstones
    PROVE  StoreStep /\ DirStep
<1>1. restore.at = "tombstones"  BY DEF ImportTombstones, Restoring
<1>2. target.tombstones \in Tombstones /\ Source.tombstones \in Tombstones
  BY <1>1, SourceIs DEF Target, Directory
<1>3. CASE "tombstone" \in Source.damaged /\ Fails  BY <1>1, <1>3, FailsInv
<1>4. ASSUME NEW new \in TombstonesRead(Source), Fails,
             NEW id \in Ids, target.tombstones[id] # None, new[id] # None,
             target.tombstones[id] # new[id]
      PROVE  StoreStep /\ DirStep
  <2>1. target.sources = {restore.from} => Source.damaged # {}
    BY <1>1, <1>4, SourceIs DEF Took, TombstonesRead
  <2>. QED  BY <1>1, <1>4, <2>1, FailsInv
<1>5. ASSUME NEW new \in TombstonesRead(Source),
             Restored([target EXCEPT !.tombstones =
                          [id \in Ids |-> IF new[id] # None THEN new[id]
                                          ELSE target.tombstones[id]]],
                      Goes("integrity"))
      PROVE  StoreStep /\ DirStep
  <2>. DEFINE both == [id \in Ids |-> IF new[id] # None THEN new[id]
                                      ELSE target.tombstones[id]]
              t == [target EXCEPT !.tombstones = both]
              now == Goes("integrity")
  <2>1. /\ new \in Tombstones
        /\ "tombstone" \notin Source.damaged => new = Source.tombstones
    BY DEF TombstonesRead, Tombstones
  <2>2. both \in Tombstones  BY <1>2, <2>1 DEF Tombstones
  <2>3. /\ t \in Target /\ t.sources = target.sources /\ t.state = target.state
        /\ t.objects = target.objects /\ t.records = target.records
        /\ t.altered = target.altered /\ t.tombstones = both
    BY <1>1, <2>2, SourceIs DEF Target
  <2>4. /\ now \in Restore /\ now.at = "integrity" /\ now.from = restore.from
        /\ now.bodies = restore.bodies /\ now.refs = restore.refs
    BY <1>1, GoesType, SourceIs DEF RestorePlaces
  <2>5. Restored(t, now)  BY <1>5
  <2>6. "tombstone" \notin Source.damaged =>
           \A id \in Ids : Source.tombstones[id] \in {None, both[id]}
    BY <2>1
  <2>7. target.sources = {restore.from} /\ "tombstone" \notin Source.damaged =>
           \A id \in Ids : both[id] \in {None, Source.tombstones[id]}
    BY <1>1, <2>1, SourceIs DEF Took
  <2>. HIDE DEF both, t, now
  <2>8. Did(t, now, Source)  BY <1>1, <2>3, <2>4, <2>6, SourceIs DEF Did
  <2>9. target.sources = {restore.from} => Took(t, Source)
    BY <1>1, <2>3, <2>7, SourceIs DEF Took
  <2>. QED  BY <1>1, <2>3, <2>4, <2>5, <2>8, <2>9, RestoredInv
<1>. QED  BY <1>3, <1>4, <1>5 DEF ImportTombstones

\* A target that holds what its one undamaged backup holds is without missing
\* or stray bodies.
LEMMA RestoreEndInv ==
    ASSUME StoreTypeOK, StoreInv, DirInvs, RestoreEnd
    PROVE  StoreStep /\ DirStep
<1>1. restore.at = "integrity"  BY DEF RestoreEnd, Restoring
<1>2. ASSUME target.sources = {restore.from}, Source.damaged = {}
      PROVE  target.altered = {} /\ Integrity(target)
  <2>1. target.altered = {}  BY <1>1, <1>2, SourceIs DEF Took
  <2>2. target.objects = Needed(Source) /\ target.records = Source.records
    BY <1>1, <1>2, SourceIs DEF Took, Did
  <2>. QED  BY <2>1, <2>2 DEF Integrity, NamedBodies, Needed
<1>3. CASE Fails /\ (target.altered # {} \/ ~Integrity(target))
  BY <1>1, <1>2, <1>3, FailsInv
<1>4. CASE Integrity(target) /\ Restored(target, Goes("done"))
  <2>. DEFINE now == Goes("done")
  <2>1. /\ now \in Restore /\ now.at = "done" /\ now.from = restore.from
        /\ now.bodies = restore.bodies /\ now.refs = restore.refs
    BY <1>1, GoesType, SourceIs DEF RestorePlaces
  <2>2. Restored(target, now)  BY <1>4
  <2>. HIDE DEF now
  <2>3. Did(target, now, Source)  BY <1>1, <1>4, <2>1, SourceIs DEF Did
  <2>. QED  BY <1>1, <2>1, <2>2, <2>3, SourceIs, RestoredInv
<1>. QED  BY <1>3, <1>4 DEF RestoreEnd, Fails

LEMMA RestoreDiesInv ==
    ASSUME StoreTypeOK, StoreInv, DirInvs, RestoreDies
    PROVE  StoreStep /\ DirStep
<1>1. restore.at # "none" /\ restore' = Goes("died") /\ UNCHANGED <<backup, target>>
  BY DEF RestoreDies, Underway, Goes
<1>2. /\ restore' \in Restore /\ restore'.at = "died" /\ restore'.from = restore.from
      /\ restore'.bodies = restore.bodies /\ restore'.refs = restore.refs
  BY <1>1, GoesType, SourceIs DEF RestorePlaces
<1>3. StoreStep  BY StoreUnchanged DEF RestoreDies, StoreTypeOK
<1>4. BackupTypeOK' /\ DirInv'
  BY <1>1, <1>2 DEF DirInvs, BackupTypeOK, DirInv, Needed
<1>5. restore.from \in target.sources  BY <1>1, SourceIs
<1>6. SourcesInv'  BY <1>1, <1>5 DEF DirInvs, SourcesInv, Took, Needed
<1>7. Did(target, restore', Source)  BY <1>1, <1>2, SourceIs DEF Did
<1>8. Source' = Source  BY <1>1, <1>2 DEF Source
<1>9. RestoreInv'  BY <1>1, <1>2, <1>5, <1>7, <1>8 DEF RestoreInv
<1>. QED  BY <1>3, <1>4, <1>6, <1>9 DEF DirStep

-----------------------------------------------------------------------------
(* The invariant. *)

LEMMA InvInit == BackupInit => IInv
<1>. SUFFICES ASSUME BackupInit  PROVE IInv
  OBVIOUS
<1>. USE DEF BackupInit, Init
<1>1. StoreTypeOK  BY IdleIs DEF StoreTypeOK, Tombstones, NoRecord
<1>2. Empty \in Directory /\ Empty.at = "none"
  BY DEF Empty, Directory, DirPlaces, Tombstones
<1>3. /\ EmptyTarget \in Target /\ EmptyTarget.sources = {}
      /\ EmptyTarget.objects = {} /\ EmptyTarget.records = {} /\ EmptyTarget.altered = {}
      /\ \A id \in Ids : EmptyTarget.tombstones[id] = None
  BY DEF EmptyTarget, Target, Tombstones
<1>4. NoRestore \in Restore /\ NoRestore.at = "none"
  BY DEF NoRestore, Restore, RestorePlaces
<1>5. BackupTypeOK  BY <1>2, <1>3, <1>4 DEF BackupTypeOK
<1>6. StoreInv
  BY IdleIs DEF StoreInv, RecordHasBody, FoundIsThere, DoomedIsUnused, StrayIsHeld
<1>7. DirInv  BY <1>2 DEF DirInv
<1>8. SourcesInv  BY <1>3, <1>4 DEF SourcesInv
<1>9. RestoreInv  BY <1>4 DEF RestoreInv
<1>. QED  BY <1>1, <1>5, <1>6, <1>7, <1>8, <1>9 DEF IInv

LEMMA InvNext == IInv /\ [Next]_vars => IInv'
<1>. SUFFICES ASSUME IInv, [Next]_vars  PROVE StoreStep /\ DirStep
  BY DEF IInv, StoreStep, DirStep
<1>. USE DEF IInv
<1>0. DirInvs  BY DEF DirInvs
<1>1. ASSUME StoreNext, UNCHANGED <<backup, target, restore>>
      PROVE  StoreStep /\ DirStep
  BY <1>1, StoreNextInv DEF DirStep, BackupTypeOK, DirInv, SourcesInv, RestoreInv,
     Took, Did, Source, Needed, Integrity, NamedBodies
<1>2. ASSUME NEW b \in Backups, BackupStep(b)  PROVE StoreStep /\ DirStep
  BY <1>0, <1>2, BackupStepInv
<1>3. ASSUME NEW b \in Backups, NEW file \in Files, Damage(b, file)
      PROVE  StoreStep /\ DirStep
  BY <1>0, <1>3, DamageInv
<1>4. ASSUME NEW b \in Backups, RestoreBegin(b)  PROVE StoreStep /\ DirStep
  BY <1>0, <1>4, RestoreBeginInv
<1>5. CASE RestoreState  BY <1>0, <1>5, RestoreStateInv
<1>6. CASE ReadExport \/ RecordsImported  BY <1>0, <1>6, GoesOnInv
<1>7. CASE ImportObject  BY <1>0, <1>7, ImportObjectInv
<1>8. CASE ImportRecord  BY <1>0, <1>8, ImportRecordInv
<1>9. CASE ImportTombstones  BY <1>0, <1>9, ImportTombstonesInv
<1>10. CASE RestoreEnd  BY <1>0, <1>10, RestoreEndInv
<1>11. CASE RestoreDies  BY <1>0, <1>11, RestoreDiesInv
<1>12. CASE UNCHANGED vars
  <2>1. UNCHANGED <<storeVars, backup, target, restore>>  BY <1>12 DEF vars
  <2>2. StoreStep  BY <2>1, StoreUnchanged DEF storeVars, StoreTypeOK
  <2>3. DirStep
    BY <2>1 DEF DirStep, BackupTypeOK, DirInv, SourcesInv, RestoreInv, Took, Did,
       Source, Needed, Integrity, NamedBodies
  <2>. QED  BY <2>2, <2>3
<1>. QED  BY <1>1, <1>2, <1>3, <1>4, <1>5, <1>6, <1>7, <1>8, <1>9, <1>10, <1>11, <1>12
           DEF Next, BackupStep

-----------------------------------------------------------------------------
(* The theorems. *)

\* The store, its backups and a restore keep their types and the inductive
\* invariant: what every operation knows of its body, what every directory
\* holds and what a target has taken from which backup.
THEOREM StoreInvariant == Spec => []IInv
BY InvInit, InvNext, PTL DEF Spec

\* An active record has its body, however puts, removals and retention runs
\* overlap (index.mjs of artifact-filesystem, put and removeRecord), but for
\* the bodies of which the race of a put with a deletion is noted.
THEOREM RecordsHaveBodies == Spec => []RecordHasBody
<1>1. IInv => RecordHasBody  BY DEF IInv, StoreInv
<1>. QED  BY <1>1, StoreInvariant, PTL

\* No removal leaves a body behind that no record names, as long as no
\* operation has been cut short.
THEOREM NothingStray == Spec => []NoStrayBody
<1>1. IInv => NoStrayBody  BY DEF IInv, StoreInv, StrayIsHeld, NoStrayBody, Settling
<1>. QED  BY <1>1, StoreInvariant, PTL

\* A backup that verifyOperationsBackup accepts has its state and the body of
\* every record it lists, wherever its writer was interrupted.
THEOREM VerifiedBackupIsWhole == Spec => []VerifiedIsWhole
<1>1. ASSUME IInv  PROVE VerifiedIsWhole
  <2>. SUFFICES ASSUME NEW b \in Backups, Verifies(backup[b])
                PROVE  /\ backup[b].state # None
                       /\ \A id \in backup[b].records :
                             Body(id) \in backup[b].copied \ backup[b].damaged
    BY DEF VerifiedIsWhole
  <2>1. backup[b].at = "sealed" /\ backup[b].damaged \cap Needed(backup[b]) = {}
    BY DEF Verifies
  <2>2. backup[b].state = b /\ Needed(backup[b]) \subseteq backup[b].copied
    BY <1>1, <2>1 DEF IInv, DirInv
  <2>3. \A id \in backup[b].records : Body(id) \in Needed(backup[b])  BY DEF Needed
  <2>. QED  BY <2>1, <2>2, <2>3, BackupAssumption
<1>. QED  BY <1>1, StoreInvariant, PTL

\* A restore that reports success has brought back the bodies of its backup and
\* what it read of the other files, which is what the backup holds where they
\* were not damaged; one into an empty or half restored target of the same
\* backup fails only because of a damaged file (restoreOperationsBackup,
\* importWorkspaceExport).
THEOREM RestoreIsSound == Spec => []RestoreSound
<1>1. ASSUME IInv  PROVE RestoreSound
  <2>1. CASE restore.at = "none"  BY <2>1 DEF RestoreSound
  <2>2. CASE restore.at # "none"
    <3>1. Did(target, restore, Source)  BY <1>1, <2>2 DEF IInv, RestoreInv
    <3>. QED  BY <3>1 DEF Did, RestoreSound
  <2>. QED  BY <2>1, <2>2
<1>. QED  BY <1>1, StoreInvariant, PTL
=============================================================================
