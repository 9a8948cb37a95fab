-------------------------------- MODULE Backup --------------------------------
(***************************************************************************)
(* postgres_backup of definitions.py, with the Azure credentials set: the  *)
(* nightly run, and a night that is run again.                             *)
(***************************************************************************)
EXTENDS Naturals

CONSTANT
    MaxNights           \* bound: the nights that are watched

ASSUME BackupAssumption == MaxNights \in Nat \ {0}

VARIABLES
    night,          \* the UTC day
    backup,         \* "idle", "dump", "upload"
    blob_name,      \* the day of the blob the run makes
    dump,           \* the temporary file: "none", or how much of a dump it is
    backups         \* the container: per day "none", or how much of a dump it is

backupVars == <<night, backup, blob_name, dump, backups>>

Nights == 1..MaxNights
Sizes  == {"none", "empty", "part", "whole"}

BackupInit ==
    /\ night = 1 /\ backup = "idle" /\ blob_name = 1 /\ dump = "none"
    /\ backups = [n \in Nights |-> "none"]

Night ==
    /\ night < MaxNights /\ night' = night + 1
    /\ UNCHANGED <<backup, blob_name, dump, backups>>

StartBackup ==
    /\ backup = "idle" /\ backup' = "dump"
    /\ blob_name' = night /\ dump' = "empty"
    /\ UNCHANGED <<night, backups>>

-----------------------------------------------------------------------------
(* A bug form, for the mutation runs.                                      *)
UploadAnyway == backup' = "upload" /\ UNCHANGED dump
-----------------------------------------------------------------------------

(* The finally clause.                                                     *)
Unlink == backup' = "idle" /\ dump' = "none"

(* pg_dump: a return code that is not 0 raises.                            *)
DumpRaises == Unlink

PgDump ==
    /\ backup = "dump" /\ dump = "empty"
    /\ dump' = "whole" /\ backup' = "upload"
    /\ UNCHANGED <<night, blob_name, backups>>

PgDumpBreaks ==
    /\ backup = "dump" /\ dump = "empty" /\ dump' = "part"
    /\ UNCHANGED <<night, backup, blob_name, backups>>

PgDumpFails ==
    /\ backup = "dump" /\ dump = "part" /\ DumpRaises
    /\ UNCHANGED <<night, blob_name, backups>>

(* upload_blob, overwrite=True; a failing upload leaves the blob alone.    *)
Upload ==
    /\ backup = "upload" /\ Unlink
    /\ \/ backups' = [backups EXCEPT ![blob_name] = dump]
       \/ UNCHANGED backups
    /\ UNCHANGED <<night, blob_name>>

BackupNext == Night \/ StartBackup \/ PgDump \/ PgDumpBreaks \/ PgDumpFails \/ Upload

BackupSpec == BackupInit /\ [][BackupNext]_backupVars

-----------------------------------------------------------------------------
BackupTypeOK ==
    /\ night \in Nights /\ backup \in {"idle", "dump", "upload"} /\ blob_name \in 1..night
    /\ dump \in Sizes /\ backups \in [Nights -> Sizes]

(* A night run again may fail at any step: the dump the day has stays a    *)
(* whole one, and no file is left behind.                                  *)
BackupStaysWhole ==
    /\ \A n \in Nights : backups[n] \in {"none", "whole"}
    /\ backup = "idle" => dump = "none"

=============================================================================
