-------------------------- MODULE MCBackupRestore --------------------------
(* Instances of BackupRestore for TLC. *)
EXTENDS BackupRestore

AllCommands == Commands
=============================================================================
