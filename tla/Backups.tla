------------------------------- MODULE Backups -------------------------------
(***************************************************************************)
(* backup.py and backup_scheduler.py: the archives, the loop that makes them   *)
(* while the process runs, and the restore of one while it does not.           *)
(*                                                                         *)
(* Time passes in units; a backup takes less than one. The file system keeps  *)
(* what was written when the process dies. The database is a file and a        *)
(* write-ahead log (init_db sets journal_mode=WAL): commits are numbered.      *)
(* Uploads, checksums and unsafe paths are left out: a "whole" archive is one  *)
(* that verify_backup accepts.                                                *)
(***************************************************************************)
EXTENDS Rows, Integers, FiniteSets

CONSTANTS Interval,      \* BACKUP_INTERVAL_HOURS, in units
          Retention,     \* BACKUP_RETENTION_DAYS, in units
          MaxCommits

ASSUME BackupsAssumption ==
    /\ Interval \in Nat \ {0}
    /\ Retention \in Nat /\ Retention > Interval
    /\ MaxCommits \in Nat
    /\ None \notin 0..MaxCommits

VARIABLES
    archives,    \* zamzam-*.tar.gz: [age, content], content None when it is not whole
    loop,        \* backup_loop: where it is, and how long it still sleeps
    file, wal,   \* the database: the last commit in the file, and in the log
    copied,      \* the commit in the temporary copy that is being archived
    restoring,   \* the archive a restore has verified, or None
    whole        \* history: a backup has been completed

backupVars == <<archives, loop, file, wal, copied, restoring, whole>>

Oldest == Retention + 1              \* ages are not told apart beyond it
Archive == [age : 0..Oldest, content : 0..MaxCommits \cup {None}]
Phases == {"down", "check", "copy", "write", "prune", "sleep"}
Asleep == [phase |-> "sleep", left |-> Interval]
At(phase) == [phase |-> phase, left |-> 0]

\* SQLite reads the log over the file, whatever file it was written for: over
\* another one the result is neither of the two.
Mixed == -1
Present == IF wal = None THEN file ELSE IF wal.for = file THEN wal.upto ELSE Mixed

BackupsInit ==
    /\ archives = {}
    /\ loop = At("down")
    /\ file = 0 /\ wal = None
    /\ copied = None
    /\ restoring = None
    /\ whole = FALSE

databaseVars == <<file, wal, restoring>>
Up == loop.phase # "down"
Partial == [age |-> 0, content |-> None]
LatestAge == IF archives = {} THEN Interval
             ELSE CHOOSE x \in 0..Oldest : \E a \in archives :
                      a.age = x /\ \A b \in archives : x <= b.age

-----------------------------------------------------------------------------
(* The loop.                                                                 *)

StartUp ==
    /\ ~Up /\ restoring = None
    /\ loop' = At("check")
    /\ UNCHANGED <<archives, file, wal, copied, restoring, whole>>

\* The age of the latest archive decides; any file that is there counts.
Check ==
    /\ loop.phase = "check"
    /\ loop' = IF LatestAge >= Interval THEN At("copy") ELSE Asleep
    /\ UNCHANGED <<archives, copied, whole, databaseVars>>

\* source.backup(target), then integrity_check.
CopyDatabase ==
    /\ loop.phase = "copy"
    /\ Present # Mixed
    /\ copied' = Present
    /\ archives' = archives \cup {Partial}
    /\ loop' = At("write")
    /\ UNCHANGED <<whole, databaseVars>>

CloseArchive ==
    /\ loop.phase = "write"
    /\ archives' = (archives \ {Partial}) \cup {[age |-> 0, content |-> copied]}
    /\ copied' = None
    /\ whole' = TRUE
    /\ loop' = At("prune")
    /\ UNCHANGED <<databaseVars>>

\* An exception is logged; the loop sleeps, and what was written stays.
PruneAnyway == At("prune")
AfterFailure == Asleep
BackupFails ==
    /\ loop.phase \in {"copy", "write"}
    /\ copied' = None
    /\ loop' = AfterFailure
    /\ UNCHANGED <<archives, whole, databaseVars>>

Expired == {a \in archives : a.age > Retention}
PruneBackups ==
    /\ loop.phase = "prune"
    /\ archives' = archives \ Expired
    /\ loop' = Asleep
    /\ UNCHANGED <<copied, whole, databaseVars>>

\* The process stops or dies: the task is gone, and a half-written archive stays.
\* The last connection that is closed empties the log; a process that dies, or
\* exits with connections open, leaves it.
GoDown ==
    /\ Up
    /\ loop' = At("down")
    /\ copied' = None
    /\ \/ UNCHANGED <<file, wal>>
       \/ Present # Mixed /\ file' = Present /\ wal' = None
    /\ UNCHANGED <<archives, restoring, whole>>

Tick ==
    /\ loop.phase \in {"down", "sleep"}
    /\ archives' = {[a EXCEPT !.age = IF @ < Oldest THEN @ + 1 ELSE @] : a \in archives}
    /\ loop' = IF ~Up THEN loop
               ELSE IF loop.left = 1 THEN At("check")
               ELSE [loop EXCEPT !.left = @ - 1]
    /\ UNCHANGED <<copied, whole, databaseVars>>

\* python -m app.backup create.
ManualBackup ==
    /\ loop.phase \in {"down", "sleep"} /\ restoring = None
    /\ Present # Mixed
    /\ archives' = (archives \ Expired) \cup {[age |-> 0, content |-> Present]}
    /\ whole' = TRUE
    /\ UNCHANGED <<loop, copied, databaseVars>>

-----------------------------------------------------------------------------
(* The database.                                                             *)

\* A commit goes to the log; a checkpoint brings the log into the file.
Commit ==
    /\ Up
    /\ Present \in 0..MaxCommits - 1
    /\ wal' = [for |-> file, upto |-> Present + 1]
    /\ UNCHANGED <<archives, loop, file, copied, restoring, whole>>
Checkpoint ==
    /\ Up
    /\ wal # None /\ Present # Mixed
    /\ file' = Present /\ wal' = None
    /\ UNCHANGED <<archives, loop, copied, restoring, whole>>

\* python -m app.backup restore, with the process stopped: verify, keep a copy of
\* the file, write the archive's database over it.
VerifyBackup(a) ==
    /\ ~Up /\ restoring = None
    /\ a.content # None
    /\ restoring' = a.content
    /\ UNCHANGED <<archives, loop, file, wal, copied, whole>>
OverwriteDatabase ==
    /\ restoring # None
    /\ file' = restoring
    /\ restoring' = None
    /\ UNCHANGED <<archives, loop, wal, copied, whole>>

BackupsNext ==
    \/ StartUp \/ Check \/ CopyDatabase \/ CloseArchive \/ BackupFails \/ PruneBackups
    \/ GoDown \/ Tick \/ ManualBackup \/ Commit \/ Checkpoint
    \/ \E a \in archives : VerifyBackup(a)
    \/ OverwriteDatabase

BackupsSpec == BackupsInit /\ [][BackupsNext]_backupVars

-----------------------------------------------------------------------------
(* Properties.                                                               *)

\* Once a backup has been completed there is always one that can be restored,
\* however often the loop is interrupted or fails afterwards, and however long.
WholeBackupKept == whole => \E a \in archives : a.content # None
=============================================================================
