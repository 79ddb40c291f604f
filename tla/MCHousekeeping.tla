--------------------------- MODULE MCHousekeeping ---------------------------
(***************************************************************************)
(* What is kept beside the proxy, for TLC: the directory of the audit log  *)
(* and its verifier (AuditDirectory, which this module extends), the       *)
(* retention of its archives, and the database with its backup and restore.*)
(* They share no state: a behaviour is a behaviour of one part, the others *)
(* stay in one of their initial states.                                    *)
(***************************************************************************)
EXTENDS AuditDirectory

VARIABLES
    part,                                                       \* which one
    image, db, wal, conn, pc, col, issued, truth, listening, backup, tmp, out,
    window, restore, copy, restored, mispaired,
    policy, day, files, batches, now, todo, scrubbing, bundle, born, expunged, cut, applied

CONSTANTS
    Processes, MaxDatabases, MaxDecisions,
    PolicyDays, MaxDay, MaxBatches

Database == INSTANCE BackupRestore WITH MaxFiles <- MaxDatabases
Tiering == INSTANCE Retention WITH purged <- expunged

AllCommands == {"run", "backup", "restore"}

\* The three commands are there, and the bounds are numbers.
ASSUME DatabaseAssumption ==
    AllCommands \subseteq Processes /\ MaxDatabases \in Nat /\ MaxDecisions \in Nat

ASSUME TieringAssumption ==
    PolicyDays \subseteq Nat /\ MaxDay \in Nat /\ MaxBatches \in Nat

databaseVars == <<image, db, wal, conn, pc, col, issued, truth, listening, backup, tmp, out,
                  window, restore, copy, restored, mispaired>>
tierVars == <<policy, day, files, batches, now, todo, scrubbing, bundle, born, expunged, cut,
              applied>>
allVars == <<part, vars, databaseVars, tierVars>>

HousekeepingInit ==
    /\ part \in {"directory", "database", "tiers"}
    /\ Init /\ Database!Init /\ Tiering!RetentionInit
    /\ part # "database" => image = <<>>
    /\ part # "tiers" => policy = [hot |-> 1, warm |-> 1, cold |-> 1, purge |-> -1, gdpr |-> FALSE]

HousekeepingNext ==
    /\ UNCHANGED part
    /\ \/ part = "directory" /\ Next /\ UNCHANGED <<databaseVars, tierVars>>
       \/ part = "database" /\ Database!Next /\ UNCHANGED <<vars, tierVars>>
       \/ part = "tiers" /\ Tiering!RetentionNext
             /\ UNCHANGED <<vars, databaseVars>>

HousekeepingSpec == HousekeepingInit /\ [][HousekeepingNext]_allVars

\* The database is not followed past a restore that found another connection
\* or a log at the path.
WellPaired == Database!WellPaired

\* The part that runs keeps its types: no ranges of manifests beyond the chain,
\* no process that holds a connection it should have closed.
HousekeepingTypeOK ==
    CASE part = "directory" -> TypeOK
      [] part = "database"  -> Database!TypeOK
      [] part = "tiers"     -> Tiering!RetentionTypeOK

\* Whoever has the database open finds every column and one version in it.
OpenIsMigrated == part = "database" => Database!OpenIsMigrated

\* A file at a backup's path holds exactly what the database held at one moment.
BackupIsSnapshot == part = "database" => Database!BackupIsSnapshot

\* What the path reads changes by transactions and finished restores alone.
ReadsItsHistory == part = "database" => Database!ReadsItsHistory

\* Archives are kept whole until their time, in the tier of their age, without
\* personal data where the policy says so, and a bundle without an error has them
\* all.
RetentionHolds == part = "tiers" => Tiering!RetentionHolds
=============================================================================
