--------------------------- MODULE BackupRestore ---------------------------
(***************************************************************************)
(* `gbounce run`, `gbounce backup` and `gbounce restore` over one database *)
(* (internal/store/backup.go, restore.go, internal/cli/backup_restore.go): *)
(* three processes, each of which may fail or be killed between two steps. *)
(* All backups are written to one path; a restore reads that file, or one  *)
(* that is no backup of this version.                                      *)
(***************************************************************************)
EXTENDS Store

VARIABLES
    listening,  \* the ports `gbounce run` has bound
    backup,     \* the step of the backup, and its --include-audit
    tmp,        \* the backup's temporary file
    out,        \* the backup file
    window,     \* history: the decisions the database held during the backup
    restore,    \* the step of the restore, its options and its source
    copy,       \* the restore's temporary file
    restored,   \* history: what a restore left at the path, until it changes
    mispaired   \* history: what the last rename of a restore found at the path

backupVars  == <<backup, tmp, out, window>>
restoreVars == <<restore, copy, restored, mispaired>>
vars == <<storeVars, listening, backupVars, restoreVars>>

Commands == {"run", "backup", "restore"}

NoFile == [kind |-> "no file"]

Meta(audit, version) == [kind |-> "meta", audit |-> audit, version |-> version]

\* A database of the first release, and what can be given to restore.
FirstRelease == [schema |-> [version |-> 1, cols |-> {}, meta |-> NoMeta], rows |-> {}]
OldBackup    == [FirstRelease EXCEPT !.schema.meta = Meta(FALSE, 1)]

NoBackup  == [step |-> "idle", audit |-> FALSE]
NoRestore == [step |-> "idle", force |-> FALSE, probes |-> FALSE, from |-> NoFile]

Source(kind) == CASE kind = "backup" -> out
                  [] kind = "old"    -> OldBackup
                  [] kind = "other"  -> FirstRelease

Init ==
    /\ image \in {<<>>, <<FirstRelease>>}
    /\ db = Len(image)
    /\ wal = NoLog
    /\ conn = [p \in Processes |-> 0]
    /\ pc = [p \in Processes |-> "closed"]
    /\ col = [p \in Processes |-> 1]
    /\ issued = 0
    /\ truth = IF db = 0 THEN Fresh ELSE FirstRelease
    /\ listening = "none"
    /\ backup = NoBackup
    /\ tmp = NoFile /\ out = NoFile
    /\ window = {}
    /\ restore = NoRestore
    /\ copy = NoFile
    /\ restored = NoFile
    /\ mispaired = "nothing"

BackupGoes(step)  == backup' = [backup EXCEPT !.step = step]
RestoreGoes(step) == restore' = [restore EXCEPT !.step = step]
BackupEnds        == backup' = NoBackup
RestoreEnds       == restore' = NoRestore

(***************************************************************************)
(* gbounce run                                                             *)
(***************************************************************************)

StartRun == OpenStore("run") /\ UNCHANGED <<listening, backupVars, restoreVars>>

\* The ports are bound after the store is open, and may not be the defaults.
Listen ==
    /\ pc["run"] = "open" /\ listening = "none"
    /\ listening' \in {"default", "other"}
    /\ UNCHANGED <<storeVars, backupVars, restoreVars>>

Serve ==
    /\ listening # "none"
    /\ RecordDecision("run")
    /\ window' = IF conn["backup"] = conn["run"]
                   THEN window \cup {Content("run").rows \cup {issued'}} ELSE window
    /\ restored' = NoFile
    /\ UNCHANGED <<listening, backup, tmp, out, restore, copy, mispaired>>

StopRun ==
    /\ CloseStore("run")
    /\ listening' = "none"
    /\ UNCHANGED <<backupVars, restoreVars>>

KillRun ==
    /\ pc["run"] # "closed"
    /\ Die("run")
    /\ listening' = "none"
    /\ UNCHANGED <<backupVars, restoreVars>>

(***************************************************************************)
(* gbounce backup                                                          *)
(***************************************************************************)

StartBackup ==
    /\ backup.step = "idle"
    /\ OpenStore("backup")
    /\ backup' \in [step : {"stat"}, audit : BOOLEAN]
    /\ UNCHANGED <<listening, tmp, out, window, restoreVars>>

\* An existing backup is never overwritten.
StatBackup ==
    /\ pc["backup"] = "open" /\ backup.step = "stat"
    /\ BackupGoes(IF out = NoFile THEN "vacuum" ELSE "close")
    /\ window' = IF out = NoFile THEN {Content("backup").rows} ELSE window
    /\ UNCHANGED <<storeVars, listening, tmp, out, restoreVars>>

\* A mutant: the backup copies the file of the database, and not its log.
VacuumIntoFileOnly ==
    /\ backup.step = "vacuum"
    /\ tmp' = image[conn["backup"]]
    /\ BackupGoes("prune")
    /\ UNCHANGED <<storeVars, listening, out, window, restoreVars>>

\* VACUUM INTO copies what one transaction reads.
VacuumInto ==
    /\ backup.step = "vacuum"
    /\ tmp' = Content("backup")
    /\ BackupGoes("prune")
    /\ UNCHANGED <<storeVars, listening, out, window, restoreVars>>

Prune ==
    /\ backup.step = "prune"
    /\ tmp' = IF backup.audit THEN tmp ELSE [tmp EXCEPT !.rows = {}]
    /\ BackupGoes("metadata")
    /\ UNCHANGED <<storeVars, listening, out, window, restoreVars>>

WriteMetadata ==
    /\ backup.step = "metadata"
    /\ tmp' = [tmp EXCEPT !.schema.meta = Meta(backup.audit, SchemaVersion)]
    /\ BackupGoes("rename")
    /\ UNCHANGED <<storeVars, listening, out, window, restoreVars>>

RenameBackup ==
    /\ backup.step = "rename"
    /\ out' = tmp
    /\ tmp' = NoFile
    /\ BackupGoes("close")
    /\ UNCHANGED <<storeVars, listening, window, restoreVars>>

BackupFails ==
    /\ backup.step \in {"vacuum", "prune", "metadata", "rename"}
    /\ tmp' = NoFile
    /\ BackupGoes("close")
    /\ UNCHANGED <<storeVars, listening, out, window, restoreVars>>

EndBackup ==
    /\ backup.step = "close"
    /\ CloseStore("backup")
    /\ BackupEnds
    /\ UNCHANGED <<listening, tmp, out, window, restoreVars>>

KillBackup ==
    /\ backup.step # "idle"
    /\ Die("backup")
    /\ BackupEnds
    /\ UNCHANGED <<listening, tmp, out, window, restoreVars>>

(***************************************************************************)
(* gbounce restore                                                         *)
(***************************************************************************)

\* The metadata gates: a backup, of this schema, and of this release or forced.
StartRestore(kind, force, probes, sameRelease) ==
    LET from == Source(kind) IN
    /\ restore.step = "idle"
    /\ from # NoFile
    /\ from.schema.meta # NoMeta
    /\ from.schema.meta.version = SchemaVersion
    /\ sameRelease \/ force
    /\ restore' = [step |-> "destination", force |-> force, probes |-> probes, from |-> from]
    /\ UNCHANGED <<storeVars, listening, backupVars, copy, restored, mispaired>>

DestinationHasData == db # 0 /\ Reads(db).schema.version # 0

GateDestination ==
    /\ restore.step = "destination"
    /\ IF DestinationHasData /\ ~restore.force THEN RestoreEnds ELSE RestoreGoes("probe")
    /\ UNCHANGED <<storeVars, listening, backupVars, copy, restored, mispaired>>

GateRunning ==
    /\ restore.step = "probe"
    /\ IF restore.probes /\ listening = "default" THEN RestoreEnds ELSE RestoreGoes("copy")
    /\ UNCHANGED <<storeVars, listening, backupVars, copy, restored, mispaired>>

\* A mutant: the copy is made in place.
CopySourceInPlace ==
    /\ restore.step = "copy"
    /\ image' = IF db = 0 THEN image ELSE [image EXCEPT ![db] = restore.from]
    /\ copy' = restore.from
    /\ RestoreGoes("rename")
    /\ UNCHANGED <<db, wal, conn, pc, col, issued, truth, listening, backupVars, restored, mispaired>>

CopySource ==
    /\ restore.step = "copy"
    /\ copy' = restore.from
    /\ RestoreGoes("rename")
    /\ UNCHANGED <<storeVars, listening, backupVars, restored, mispaired>>

\* The log and the connections of the file that loses the path are left alone.
RenameRestored ==
    /\ restore.step = "rename"
    /\ Replace(copy)
    /\ truth' = copy
    /\ restored' = copy
    /\ mispaired' = CASE mispaired = "connection" \/ (\E p \in Processes : conn[p] # 0) -> "connection"
                       [] mispaired = "log" \/ wal # NoLog -> "log"
                       [] OTHER -> "nothing"
    /\ copy' = NoFile
    /\ RestoreGoes("stamp")
    /\ UNCHANGED <<pc, col, issued, listening, backupVars>>

RestoreFails ==
    /\ restore.step \in {"copy", "rename"}
    /\ copy' = NoFile
    /\ RestoreEnds
    /\ UNCHANGED <<storeVars, listening, backupVars, restored, mispaired>>

StampRestored ==
    /\ restore.step = "stamp"
    /\ OpenStore("restore")
    /\ RestoreGoes("close")
    /\ UNCHANGED <<listening, backupVars, copy, restored, mispaired>>

\* The restore returns its summary.
EndRestore ==
    /\ restore.step = "close"
    /\ CloseStore("restore")
    /\ RestoreGoes("done")
    /\ UNCHANGED <<listening, backupVars, copy, restored, mispaired>>

KillRestore ==
    /\ restore.step # "idle"
    /\ Die("restore")
    /\ RestoreEnds
    /\ UNCHANGED <<listening, backupVars, copy, restored, mispaired>>

(***************************************************************************)

\* An Open that fails ends its command.
Opening(p) ==
    /\ Migrate(p)
    /\ backup' = IF p = "backup" /\ pc'[p] = "closed" THEN NoBackup ELSE backup
    /\ restore' = IF p = "restore" /\ pc'[p] = "closed" THEN NoRestore ELSE restore
    /\ UNCHANGED <<listening, tmp, out, window, copy, restored, mispaired>>

Checkpoints ==
    /\ \E p \in Processes : Checkpoint(p)
    /\ UNCHANGED <<pc, col, issued, truth, listening, backupVars, restoreVars>>

Next ==
    \/ StartRun \/ Listen \/ Serve \/ StopRun \/ KillRun
    \/ StartBackup \/ StatBackup \/ VacuumInto \/ Prune \/ WriteMetadata
    \/ RenameBackup \/ BackupFails \/ EndBackup \/ KillBackup
    \/ \E kind \in {"backup", "old", "other"}, force, probes, sameRelease \in BOOLEAN :
          StartRestore(kind, force, probes, sameRelease)
    \/ GateDestination \/ GateRunning \/ CopySource \/ RenameRestored
    \/ RestoreFails \/ StampRestored \/ EndRestore \/ KillRestore
    \/ \E p \in Processes : Opening(p)
    \/ Checkpoints

Spec == Init /\ [][Next]_vars

(***************************************************************************)
(* Properties                                                              *)
(***************************************************************************)

Images == [schema : [version : 0..SchemaVersion, cols : SUBSET {Columns[i] : i \in DOMAIN Columns},
                     meta : {NoMeta} \cup {Meta(a, v) : a \in BOOLEAN, v \in 1..SchemaVersion}],
           rows : SUBSET (1..MaxDecisions)]

\* Type correctness; and a process reads the database exactly while it is
\* between Open and Close.
TypeOK ==
    /\ image \in Seq(Images) /\ db \in 0..Len(image)
    /\ DOMAIN wal \subseteq {"schema", "rows"}
    /\ conn \in [Processes -> 0..Len(image)]
    /\ \A p \in Processes : pc[p] = "closed" <=> conn[p] = 0
    /\ issued \in 0..MaxDecisions /\ truth \in Images
    /\ tmp \in Images \cup {NoFile} /\ out \in Images \cup {NoFile}
    /\ copy \in Images \cup {NoFile} /\ restored \in Images \cup {NoFile}
    /\ backup.step \in {"idle", "stat"} \/ pc["backup"] = "open"
    /\ listening # "none" => pc["run"] = "open"

\* The file at the path, and its log and its readers, belong together.
WellPaired == mispaired = "nothing"

\* store.go:132: an Open that returned left a migrated database, whichever
\* processes migrated it at the same time or died while they did.
OpenIsMigrated ==
    WellPaired => \A p \in Processes : pc[p] = "open" =>
        /\ Content(p).schema.version = SchemaVersion
        /\ \A i \in DOMAIN Columns : Columns[i] \in Content(p).schema.cols

\* backup.go:151-155: a file at the path of a backup is complete: a migrated
\* schema, metadata that tell what it holds, and the decisions the database
\* held at one moment between the start of the backup and its end, or none.
BackupIsSnapshot ==
    WellPaired /\ out # NoFile =>
        /\ out.schema.version = SchemaVersion
        /\ out.schema.meta # NoMeta
        /\ IF out.schema.meta.audit THEN out.rows \in window ELSE out.rows = {}

\* What the path of the database reads is what its transactions and the last
\* restore made it, through closes, checkpoints, backups and crashes: neither
\* a backup nor a restore that stops half-way changes it.
ReadsItsHistory == WellPaired /\ db # 0 => Reads(db) = truth

\* restore.go:16-19: "the operator ... wants the backup file's state, period":
\* when restore returns, and until a decision is recorded, that is what the
\* path reads, if no other process had the database open.
RestoreReplaces ==
    restore.step = "done" /\ restored # NoFile /\ mispaired # "connection" =>
        Reads(db).rows = restored.rows /\ Reads(db).schema.meta = restored.schema.meta
=============================================================================
