------------------------------- MODULE HotExit -------------------------------
(***************************************************************************)
(* Backups of a dirty text file, and what they are for: the end of the     *)
(* process, by a crash or by a shutdown with hot exit                      *)
(* (workbench/services/workingCopy/common/workingCopyBackupTracker.ts and  *)
(* workingCopyBackupService.ts, electron-sandbox/                          *)
(* workingCopyBackupTracker.ts).                                           *)
(*                                                                         *)
(* The tracker hears when the text or the dirty flag changes, and has at   *)
(* most one operation for the file: it waits for a timer, asks for the     *)
(* text, and writes a backup; or it deletes the backup.  Operations run    *)
(* one after the other in the queue of the backup; one that runs already   *)
(* cannot be cancelled.  The content version of the tracker is versionId:  *)
(* both count the changes of the text since the process started.           *)
(***************************************************************************)
EXTENDS TextFile

CONSTANT MaxRestarts    \* bound: starts of the process after the first

ASSUME MaxRestartsAssumption == MaxRestarts \in Nat

VARIABLES
    operation,      \* the entry of pendingBackupOperations
    io,             \* what the queue of the backup runs
    cache,          \* the entry of WorkingCopyBackupsModel
    backupFile,     \* the backup on disk
    suspended,
    shutdown,       \* how far a shutdown is
    finalVersion,   \* history: versionId when the shutdown began, if dirty then
    untold,         \* history: dirty, and the tracker has dropped or missed it
    restarts

backupVars == <<operation, io, cache, backupFile>>
shutdownVars == <<suspended, shutdown, finalVersion>>
vars == <<textVars, backupVars, shutdownVars, untold, restarts>>

Truncated == -2     \* the text of a backup without preamble

NoVersion == -1
NoBackup == [text |-> NoText, stat |-> NoStat, version |-> 0]
NoOperation == [kind |-> "none", backup |-> NoBackup]
NoIO == NoOperation
Backups == [text : Texts \cup {NoText, Truncated}, stat : Stats \cup {NoStat}, version : Nat]

HotTypeOK ==
    /\ TypeOK
    /\ operation \in [kind : {"none", "timer", "encode", "store", "storing",
                              "discard", "discarding"}, backup : Backups]
    /\ io \in [kind : {"none", "store", "discard"}, backup : Backups]
    /\ cache \in Backups /\ backupFile \in Backups
    /\ suspended \in BOOLEAN /\ untold \in BOOLEAN
    /\ shutdown \in {"no", "backup", "backing", "confirm", "discarding", "wiping", "closing"}
    /\ finalVersion \in Nat \cup {NoVersion} /\ restarts \in 0..MaxRestarts

Init ==
    /\ TextInit
    /\ operation = NoOperation /\ io = NoIO /\ cache = NoBackup /\ backupFile = NoBackup
    /\ suspended = FALSE /\ shutdown = "no" /\ finalVersion = NoVersion
    /\ untold = FALSE /\ restarts = 0

-----------------------------------------------------------------------------
(* The tracker. *)

\* Defect: a change does not replace an operation that is under way.
TrackedOnce(contentChanged, dirtyFired) ==
    LET schedules == /\ ~suspended /\ dirty' /\ (contentChanged \/ dirtyFired)
                     /\ operation = NoOperation
        discards == ~suspended /\ ~dirty' /\ dirtyFired
    IN  /\ operation' = IF schedules THEN [NoOperation EXCEPT !.kind = "timer"]
                        ELSE IF discards THEN [NoOperation EXCEPT !.kind = "discard"]
                        ELSE operation
        /\ untold' = IF schedules THEN FALSE
                     ELSE untold \/ (suspended /\ (contentChanged \/ dirtyFired))
        /\ UNCHANGED <<io, cache, backupFile, shutdownVars, restarts>>

\* onDidChangeDirty and onDidChangeContent: a dirty text is backed up anew, the
\* backup of a clean one is discarded.  Either cancels the operation before.
Tracked(contentChanged, dirtyFired) ==
    LET schedules == ~suspended /\ dirty' /\ (contentChanged \/ dirtyFired)
        discards == ~suspended /\ ~dirty' /\ dirtyFired
    IN  /\ operation' = IF schedules THEN [NoOperation EXCEPT !.kind = "timer"]
                        ELSE IF discards THEN [NoOperation EXCEPT !.kind = "discard"]
                        ELSE operation
        /\ untold' = IF schedules THEN FALSE
                     ELSE untold \/ (suspended /\ (contentChanged \/ dirtyFired))
        /\ UNCHANGED <<io, cache, backupFile, shutdownVars, restarts>>

Changed == Tracked(versionId' # versionId, dirty' # dirty)

\* The event of a revert comes at its end, if the text was dirty before.
RevertEnded == Tracked(versionId' # versionId, dirty' # dirty \/ reverting.wasDirty)

EditOrSave ==
    /\ \/ Edit \/ UndoRedo
       \/ \E why \in Whys : Save(why)
       \/ \E n \in SaveSlots : SaveRuns(n)
    /\ Changed

ReadsForReload ==
    /\ Reload \/ (resolving.by = "reload" /\ (ReadFile \/ Resolve \/ ReadFails))
    /\ Changed

RevertRuns ==
    \/ /\ Revert
       /\ Tracked(FALSE, dirty /\ resolving' = NoRead)
    \/ /\ RevertResolves /\ resolving' = NoRead /\ RevertEnded
    \/ /\ \/ RevertResolves /\ resolving' # NoRead
          \/ resolving.by = "revert" /\ ReadFile
       /\ UNCHANGED <<backupVars, shutdownVars, untold, restarts>>
    \/ /\ resolving.by = "revert" /\ Resolve /\ RevertEnded

\* A revert that failed makes the text dirty again without telling anybody.
RevertFails ==
    /\ resolving.by = "revert" /\ ReadFails
    /\ untold' = TRUE
    /\ UNCHANGED <<backupVars, shutdownVars, restarts>>

Outside ==
    /\ OtherWrites \/ OnDidFilesChange
    /\ UNCHANGED <<backupVars, shutdownVars, untold, restarts>>

\* The timer of scheduleBackup: the text of now is encoded.
BackupTimer ==
    /\ operation.kind = "timer"
    /\ operation' = IF dirty
          THEN [kind |-> "encode", backup |->
                  [text |-> text, stat |-> lastResolvedFileStat, version |-> versionId]]
          ELSE NoOperation
    /\ UNCHANGED <<textVars, io, cache, backupFile, shutdownVars, untold, restarts>>

\* Defect: any backup of the file will do.
HasAny(b) == cache.text # NoText

\* model.has(resource, versionId, meta)
Has(b) == cache.text # NoText /\ cache.version = b.version /\ cache.stat = b.stat

\* The text is encoded: it is queued unless it is clean by now, or backed up.
\* A shutdown does not look at the flag again, and knows the version it had.
BackupEncoded ==
    /\ operation.kind = "encode"
    /\ LET b == [operation.backup EXCEPT
                    !.version = IF shutdown = "backing" THEN @ ELSE versionId]
       IN  operation' = IF (dirty \/ shutdown = "backing") /\ ~Has(b)
                        THEN [kind |-> "store", backup |-> b] ELSE NoOperation
    /\ UNCHANGED <<textVars, io, cache, backupFile, shutdownVars, untold, restarts>>

-----------------------------------------------------------------------------
(* The queue of the backup. *)

QueueRuns ==
    /\ io = NoIO
    /\ \/ /\ operation.kind = "store" /\ Has(operation.backup)
          /\ operation' = NoOperation /\ UNCHANGED io
       \/ /\ operation.kind = "store" /\ ~Has(operation.backup)
          /\ io' = operation /\ operation' = [operation EXCEPT !.kind = "storing"]
       \/ /\ operation.kind = "discard"
          /\ io' = operation /\ operation' = [operation EXCEPT !.kind = "discarding"]
    /\ UNCHANGED <<textVars, cache, backupFile, shutdownVars, untold, restarts>>

\* The file is written or gone, and the cache knows it.  Only an operation that
\* was not cancelled meanwhile is over with this.
QueueEnds ==
    /\ io # NoIO /\ io' = NoIO
    /\ backupFile' = io.backup /\ cache' = io.backup
    /\ operation' = IF operation.kind \in {"storing", "discarding"}
                    THEN NoOperation ELSE operation
    /\ UNCHANGED <<textVars, shutdownVars, untold, restarts>>

-----------------------------------------------------------------------------
(* Shutdown. *)

\* onFinalBeforeShutdown.  Hot exit may be off for this kind of shutdown.
ShutdownBegins ==
    /\ shutdown = "no"
    /\ restarts < MaxRestarts       \* bound: the last process does not exit
    /\ suspended' = TRUE
    /\ operation' = NoOperation
    /\ \/ dirty /\ finalVersion' = versionId /\ shutdown' \in {"backup", "confirm"}
       \/ ~dirty /\ finalVersion' = NoVersion /\ shutdown' = "wiping"
    /\ untold' = dirty
    /\ UNCHANGED <<textVars, io, cache, backupFile, restarts>>

\* discardBackups: without a dirty text all backups are deleted, past the queue,
\* which may write one that ran already after this.
DiscardBackups ==
    /\ shutdown = "wiping"
    /\ backupFile' = NoBackup /\ cache' = NoBackup
    /\ shutdown' = "closing" /\ suspended' = FALSE
    /\ UNCHANGED <<textVars, operation, io, finalVersion, untold, restarts>>

\* Defect: any backup of the file will do.
BackupBeforeShutdownAny ==
    /\ shutdown = "backup"
    /\ IF cache.text # NoText
       THEN /\ shutdown' = "closing" /\ suspended' = FALSE
            /\ UNCHANGED operation
       ELSE /\ shutdown' = "backing" /\ UNCHANGED suspended
            /\ operation' = [kind |-> "encode", backup |->
                  [text |-> text, stat |-> lastResolvedFileStat, version |-> versionId]]
    /\ UNCHANGED <<textVars, io, cache, backupFile, finalVersion, untold, restarts>>

\* backupBeforeShutdown: only what has no backup of its version yet.
BackupBeforeShutdown ==
    /\ shutdown = "backup"
    /\ IF cache.text # NoText /\ cache.version = versionId
       THEN /\ shutdown' = "closing" /\ suspended' = FALSE
            /\ UNCHANGED operation
       ELSE /\ shutdown' = "backing" /\ UNCHANGED suspended
            /\ operation' = [kind |-> "encode", backup |->
                  [text |-> text, stat |-> lastResolvedFileStat, version |-> versionId]]
    /\ UNCHANGED <<textVars, io, cache, backupFile, finalVersion, untold, restarts>>

BackedUpBeforeShutdown ==
    /\ shutdown \in {"backing", "discarding"} /\ operation = NoOperation
    /\ shutdown' = "closing" /\ suspended' = FALSE
    /\ UNCHANGED <<textVars, backupVars, finalVersion, untold, restarts>>

\* The user does not wait for the backup.
StopBackingUp ==
    /\ shutdown = "backing" /\ operation # NoOperation
    /\ operation' = NoOperation /\ shutdown' = "confirm"
    /\ UNCHANGED <<textVars, io, cache, backupFile, suspended, finalVersion, untold,
                   restarts>>

\* confirmBeforeShutdown: cancel, which resumes the tracker, or do not save,
\* which takes the text for saved and discards the backup.
ConfirmCancel ==
    /\ shutdown = "confirm"
    /\ shutdown' = "no" /\ suspended' = FALSE
    /\ UNCHANGED <<textVars, backupVars, finalVersion, untold, restarts>>

ConfirmDontSave ==
    /\ shutdown = "confirm" /\ shutdown' = "discarding"
    /\ SetDirty(FALSE, text) /\ reverted' = reverted \cup {text}
    /\ operation' = [NoOperation EXCEPT !.kind = "discard"]
    /\ UNCHANGED <<modelVars, lastResolvedFileStat, saveVars, readVars, fileVars,
                   mislaid, io, cache, backupFile, suspended, finalVersion, untold,
                   restarts>>

-----------------------------------------------------------------------------
(* The end of the process, and its next start. *)

\* Defect: a backup that was cut off is restored.
RestorableAny(b) == b.text # NoText

\* A backup without the end of its preamble is not one.
Restorable(b) == b.text \in Texts

\* The model resolves from the backup, as a dirty text with the stat the backup
\* was made with, or from the file.  A backup found on disk has version 0, which
\* is that of a text just restored from it.
Restart(f, b) ==
    LET restored == Restorable(b)
    IN  /\ restarts < MaxRestarts /\ restarts' = restarts + 1
        /\ file' = f /\ fileChanged' = FALSE /\ onDisk' = {f.text}
        /\ text' = (IF restored THEN b.text ELSE f.text)
        /\ versionId' = 0 /\ held' = {text'}
        /\ dirty' = restored /\ inConflictMode' = FALSE /\ inErrorMode' = FALSE
        /\ bufferSavedVersionId' = IF restored THEN NoText ELSE f.text
        /\ lastResolvedFileStat' = IF restored THEN b.stat ELSE StatOf(f)
        /\ pending' = NoTask /\ next' = NoWhy /\ saves' = [n \in SaveSlots |-> NoSave]
        /\ resolving' = NoRead /\ reverting' = NoRevert /\ reloads' = 0
        /\ backupFile' = b /\ cache' = [b EXCEPT !.version = 0] /\ io' = NoIO
        /\ operation' = [NoOperation EXCEPT !.kind = IF restored THEN "timer" ELSE "none"]
        /\ suspended' = FALSE /\ shutdown' = "no"
        /\ finalVersion' = NoVersion /\ untold' = FALSE
        /\ mislaid' = {} /\ UNCHANGED <<failedReverts, reverted>>

\* What is being written to the file, or to the backup, may be cut off.
Crash ==
    \E b \in {backupFile} \cup
             (IF io.kind = "store" THEN {io.backup, [NoBackup EXCEPT !.text = Truncated]}
              ELSE IF io.kind = "discard" THEN {NoBackup} ELSE {}) :
        \/ Restart(file, b) /\ UNCHANGED lastText
        \/ /\ \E n \in SaveSlots : saves[n].phase = "write"
           /\ lastText < MaxText /\ lastText' = lastText + 1
           /\ Restart([text |-> lastText + 1, mtime |-> file.mtime + 1], b)

\* onWillShutdown: the tracker stops, and the queue of the backup is awaited.
Exit ==
    /\ shutdown = "closing" /\ io = NoIO
    /\ Restart(file, backupFile) /\ UNCHANGED lastText

ShutdownRuns ==
    \/ ShutdownBegins \/ DiscardBackups \/ BackupBeforeShutdown \/ BackedUpBeforeShutdown
    \/ StopBackingUp \/ ConfirmCancel \/ ConfirmDontSave \/ Exit

HotNext ==
    \/ EditOrSave \/ ReadsForReload \/ RevertRuns \/ RevertFails \/ Outside
    \/ BackupTimer \/ BackupEncoded \/ QueueRuns \/ QueueEnds
    \/ ShutdownRuns \/ Crash

HotSpec == Init /\ [][HotNext]_vars

-----------------------------------------------------------------------------
(* Properties. *)

BackupOnTheWay == operation.kind \in {"timer", "encode", "store", "storing"}

BackedUp == backupFile.text = text /\ io.kind # "discard"

\* The text is nowhere but in the model, and nobody asked to discard it.
Unsaved == dirty /\ text \notin onDisk \cup reverted

\* "creating backups for dirty working copies" (workingCopyBackupTracker.ts:23):
\* an unsaved text is backed up, or will be soon.
DirtyIsBackedUp == Unsaved /\ ~suspended => BackupOnTheWay \/ BackedUp

\* The same, but for what a failed revert or a shutdown left untold.
DirtyIsBackedUpWhenTold == Unsaved /\ ~untold => BackupOnTheWay \/ BackedUp

\* The version by which a backup is taken for up to date is that of its text.
\* A reload during a revert that fails may give the version of a text just read
\* to the backup of the one before; what was read is in the file at least.
BackupOfVersion ==
    cache.text \in Texts /\ cache.version = versionId =>
        cache.text = text \/ text \in onDisk

\* When the process is about to exit, the text the shutdown began with is in
\* the backup, unless it was saved or the user did not want it.
ExitKeepsText ==
    shutdown = "closing" /\ Unsaved /\ versionId = finalVersion => BackedUp
=============================================================================
