-------------------------------- MODULE Backup --------------------------------
(***************************************************************************)
(* Backup and restore (packages/operations/src/index.mjs) of the state     *)
(* file and of the artifact store while the store is in use: the export of *)
(* the artifacts, the manifest that seals a backup, its verification, and  *)
(* restores of two backups, one after the other, into one target.          *)
(*                                                                         *)
(* A backup is a directory written file by file; the process may die       *)
(* between any two files, and files of a backup may be damaged later, also *)
(* while it is restored: each is read again after it was verified, and not *)
(* every read compares it with its checksum.  A damaged file is lost, or   *)
(* reads as anything that does not forge a fingerprint.                    *)
(***************************************************************************)
EXTENDS ArtifactStore

CONSTANTS
    Backups,    \* backup directories; each finds a state file of its own
    Altered,    \* a well-formed state file that is none of theirs
    MaxAltered  \* bound: records that were read altered, in the target

\* No state file is the absence of one.
ASSUME BackupAssumption ==
    /\ None \notin Backups
    /\ Altered \notin Backups \cup {None}
    /\ MaxAltered \in Nat

VARIABLES
    backup,     \* [Backups -> the backup directory]
    target,     \* what has been restored
    restore     \* the restore under way

vars == <<storeVars, backup, target, restore>>

\* A directory: how far its writer is, what state it holds, which records and
\* tombstones were exported, which bodies were copied, and damaged files (any
\* of the two manifests and the checksum file, of the records and so on).
Empty == [at |-> "none", state |-> None, records |-> {}, copied |-> {},
          tombstones |-> [id \in Ids |-> None], damaged |-> {}]
Files == {"manifest", "state", "record", "tombstone"} \cup Contents

\* What has been restored: records that were read altered are kept apart, with
\* the body they name, and so is where it all came from.
EmptyTarget == [state |-> None, objects |-> {}, records |-> {}, altered |-> {},
                tombstones |-> [id \in Ids |-> None], sources |-> {}]

\* The bodies and the records of the export that this restore has imported.
NoRestore == [at |-> "none", from |-> None, bodies |-> {}, refs |-> {}]

BackupInit ==
    /\ Init
    /\ backup = [b \in Backups |-> Empty]
    /\ target = EmptyTarget
    /\ restore = NoRestore

-----------------------------------------------------------------------------
(* createOperationsBackup and exportWorkspace *)

Write(b, dir) ==
    /\ backup' = [backup EXCEPT ![b] = dir]
    /\ UNCHANGED <<storeVars, target, restore>>

\* The state is read and written down first.
SaveState(b) ==
    /\ backup[b].at = "none"
    /\ Write(b, [backup[b] EXCEPT !.at = "saved", !.state = b])

\* One listing of the active records decides what is exported.
ExportRecords(b) ==
    /\ backup[b].at = "saved"
    /\ Write(b, [backup[b] EXCEPT !.at = "copying", !.records = records])

\* Bodies that the exported records need.
Needed(dir) == {Body(id) : id \in dir.records}

\* A body that is gone by now ends the backup.
CopyObject(b) ==
    /\ backup[b].at = "copying"
    /\ \E c \in Needed(backup[b]) \ backup[b].copied :
          Write(b, IF c \in objects THEN [backup[b] EXCEPT !.copied = @ \cup {c}]
                   ELSE [backup[b] EXCEPT !.at = "failed"])

ExportTombstones_NoAwait(b) ==
    /\ backup[b].at = "copying"
    /\ Write(b, [backup[b] EXCEPT !.at = "exported", !.tombstones = tombstones])

\* All bodies are copied: the tombstones are listed, and the export has its
\* manifest.
ExportTombstones(b) ==
    /\ backup[b].at = "copying"
    /\ Needed(backup[b]) \subseteq backup[b].copied
    /\ Write(b, [backup[b] EXCEPT !.at = "exported", !.tombstones = tombstones])

\* The manifest of the backup, and then the checksum file without which no
\* manifest verifies.
Seal(b) ==
    /\ backup[b].at = "exported"
    /\ Write(b, [backup[b] EXCEPT !.at = "sealed"])

\* The process dies; its directory stays as it is and is never gone on with.
Abandon(b) ==
    /\ backup[b].at \in {"saved", "copying", "exported"}
    /\ stops < MaxStops
    /\ stops' = stops + 1
    /\ backup' = [backup EXCEPT ![b].at = "failed"]
    /\ UNCHANGED <<objects, records, tombstones, expired, op, begun, raced>>
    /\ UNCHANGED <<target, restore>>

\* A file of a finished backup is lost or changed.
Damage(b, file) ==
    /\ backup[b].at = "sealed"
    /\ stops < MaxStops
    /\ stops' = stops + 1
    /\ backup' = [backup EXCEPT ![b].damaged = @ \cup {file}]
    /\ UNCHANGED <<objects, records, tombstones, expired, op, begun, raced>>
    /\ UNCHANGED <<target, restore>>

-----------------------------------------------------------------------------
(* verifyOperationsBackup, restoreOperationsBackup, importWorkspaceExport *)

\* Manifests, checksum, state and bodies are looked at; the files of records
\* and tombstones are not.
Verifies(dir) ==
    /\ dir.at = "sealed"
    /\ dir.damaged \cap ({"manifest", "state"} \cup Needed(dir)) = {}

Underway == restore.at \notin {"none", "done", "failed", "died"}
Restoring(place) == restore.at = place
Source == backup[restore.from]

Restored(t, r) ==
    /\ target' = t
    /\ restore' = r
    /\ UNCHANGED <<storeVars, backup>>
Goes(place) == [restore EXCEPT !.at = place]
Fails == Restored(target, Goes("failed"))

\* A restore begins with the verification.
RestoreBegin(b) ==
    /\ ~Underway
    /\ Verifies(backup[b])
    /\ Restored([target EXCEPT !.sources = @ \cup {b}],
                [NoRestore EXCEPT !.at = "verified", !.from = b])

\* The state is read once more and replaced, before the artifacts are imported:
\* its shape is looked at, its checksum is not.
RestoreState ==
    /\ Restoring("verified")
    /\ \/ Restored([target EXCEPT !.state = Source.state], Goes("importing"))
       \/ /\ "state" \in Source.damaged
          /\ Fails \/ Restored([target EXCEPT !.state = Altered], Goes("importing"))

\* Of the manifests, that of the export is read once more, with its fingerprint.
ReadExport ==
    /\ Restoring("importing")
    /\ \/ Restored(target, Goes("objects"))
       \/ "manifest" \in Source.damaged /\ Fails

\* Every body is read once more, and imported if its file still has its hash.
ImportObject ==
    /\ Restoring("objects")
    /\ \E c \in Needed(Source) \ restore.bodies :
          IF c \in Source.damaged THEN Fails
          ELSE Restored([target EXCEPT !.objects = @ \cup {c}],
                        [restore EXCEPT !.bodies = @ \cup {c}])

\* The target holds a record of that id that was read altered.
HeldAltered(id) == \E x \in target.altered : x[1] = id

\* The record in a file is the one that was exported.  It must not differ from
\* one of its id in the target: another backup may have brought one that was
\* put again, at another time, in between.
ImportGenuine(id) ==
    \/ /\ ~HeldAltered(id)
       /\ Restored([target EXCEPT !.records = @ \cup {id}],
                   [restore EXCEPT !.refs = @ \cup {id}])
    \/ /\ \/ HeldAltered(id)
          \/ target.sources # {restore.from} /\ tombstones[id] # None
       /\ Fails

\* The file is lost or malformed, or holds a well-formed record of this or
\* another id whose body is among those imported: nothing tells that it is
\* not the one that was exported, but one of its id in the target.
ImportAltered(id) ==
    \/ Fails
    \/ \E x \in Ids \X restore.bodies :
          /\ x[1] \notin target.records
          /\ HeldAltered(x[1]) => x \in target.altered
          /\ Cardinality(target.altered \cup {x}) <= MaxAltered
          /\ Restored([target EXCEPT !.altered = @ \cup {x}],
                      [restore EXCEPT !.refs = @ \cup {id}])

ImportRecord ==
    /\ Restoring("objects")
    /\ restore.bodies = Needed(Source)
    /\ \E id \in Source.records \ restore.refs :
          \/ ImportGenuine(id)
          \/ "record" \in Source.damaged /\ ImportAltered(id)

RecordsImported ==
    /\ Restoring("objects")
    /\ restore.bodies = Needed(Source)
    /\ restore.refs = Source.records
    /\ Restored(target, Goes("tombstones"))

\* What the files of the tombstones may read as: a changed one still names its
\* record.
TombstonesRead(dir) ==
    {read \in [Ids -> BOOLEAN \cup {None}] :
        IF "tombstone" \in dir.damaged
        THEN \A id \in Ids : read[id] = None <=> dir.tombstones[id] = None
        ELSE read = dir.tombstones}

\* The tombstones; one that differs from the one already there ends it.
ImportTombstones ==
    LET old == target.tombstones IN
    /\ Restoring("tombstones")
    /\ \/ "tombstone" \in Source.damaged /\ Fails
       \/ \E new \in TombstonesRead(Source) :
             IF \E id \in Ids : old[id] # None /\ new[id] # None /\ old[id] # new[id]
             THEN Fails
             ELSE Restored([target EXCEPT !.tombstones =
                               [id \in Ids |-> IF new[id] # None THEN new[id] ELSE old[id]]],
                           Goes("integrity"))

NamedBodies(t) == {Body(id) : id \in t.records} \cup {x[2] : x \in t.altered}

Integrity_NotDeleted(t) ==
    /\ t.objects = NamedBodies(t)
    /\ \A id \in t.records : t.tombstones[id] = None

\* verifyIntegrity of the target: no body missing, none unexpected; a record
\* may have a tombstone (includeDeleted).
Integrity(t) == t.objects = NamedBodies(t)

\* The size that an altered record gives of its body may be wrong.
RestoreEnd ==
    /\ Restoring("integrity")
    /\ \/ Restored(target, Goes(IF Integrity(target) THEN "done" ELSE "failed"))
       \/ target.altered # {} /\ Fails

\* The process dies; what it has restored stays.
RestoreDies ==
    /\ Underway
    /\ stops < MaxStops
    /\ stops' = stops + 1
    /\ restore' = [restore EXCEPT !.at = "died"]
    /\ UNCHANGED <<objects, records, tombstones, expired, op, begun, raced>>
    /\ UNCHANGED <<backup, target>>

-----------------------------------------------------------------------------
Next ==
    \/ StoreNext /\ UNCHANGED <<backup, target, restore>>
    \/ \E b \in Backups :
          \/ SaveState(b) \/ ExportRecords(b) \/ CopyObject(b)
          \/ ExportTombstones(b) \/ Seal(b) \/ Abandon(b)
          \/ RestoreBegin(b)
          \/ \E file \in Files : Damage(b, file)
    \/ RestoreState \/ ReadExport \/ ImportObject \/ ImportRecord \/ RecordsImported
    \/ ImportTombstones \/ RestoreEnd \/ RestoreDies

Spec == BackupInit /\ [][Next]_vars

-----------------------------------------------------------------------------
(* Properties. *)

\* A backup that verifies is whole, whatever was put and removed while it was
\* written and wherever its writer died: it has a state, and the body of
\* every record it lists.
VerifiedIsWhole ==
    \A b \in Backups :
       Verifies(backup[b]) =>
          /\ backup[b].state # None
          /\ \A id \in backup[b].records :
                Body(id) \in backup[b].copied \ backup[b].damaged

\* A restore that reports success has brought back the bodies of its backup,
\* the state, and the records and tombstones, in a target without missing or
\* stray bodies -- each of the last three as far as its files were not damaged,
\* the state's after it was verified: those are installed as they read.  One
\* into a target that holds nothing, or what an earlier restore of the same
\* backup left, fails only because of damaged files, however the store was
\* used while the backup was written.
RestoreSound ==
    /\ restore.at = "done" =>
          /\ Needed(Source) \subseteq target.objects
          /\ "state" \notin Source.damaged => target.state = Source.state
          /\ "record" \notin Source.damaged => Source.records \subseteq target.records
          /\ "tombstone" \notin Source.damaged =>
                \A id \in Ids : Source.tombstones[id] \in {None, target.tombstones[id]}
          /\ Integrity(target)
    /\ restore.at = "failed" /\ target.sources = {restore.from} =>
          Source.damaged # {}
=============================================================================
