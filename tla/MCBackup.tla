------------------------------- MODULE MCBackup -------------------------------
(***************************************************************************)
(* A small instance of Backup: two logical records of one body, of which   *)
(* one expires.                                                            *)
(***************************************************************************)
EXTENDS Backup, TLC

CONSTANTS a1, a2, c, w1, w2, b1, b2

OneBody == (a1 :> c) @@ (a2 :> c)
Modes == (a1 :> "retain") @@ (a2 :> "expire-at")

Alike == Permutations(Workers) \cup Permutations(Backups)

\* A restore reads a sealed backup and writes to a directory of its own: its
\* steps, and damage to a sealed backup, commute with those of the store and of
\* the writers of other backups.  They are taken when these have come to rest.
AtRest ==
    /\ \A w \in Workers : At(w, "idle")
    /\ \A b \in Backups : backup[b].at \in {"none", "sealed", "failed"}

RestoresApart ==
    IF restore' # restore \/ \E b \in Backups : backup'[b].damaged # backup[b].damaged
    THEN AtRest
    ELSE ~Underway
=============================================================================
