------------------------------- MODULE TextFile -------------------------------
(***************************************************************************)
(* The model of one text file, its saves, reverts and reloads              *)
(* (workbench/services/textfile/common/textFileEditorModel.ts and          *)
(* textFileEditorModelManager.ts, with the TaskSequentializer of           *)
(* base/common/async.ts and the check before a write of                    *)
(* platform/files/common/fileService.ts).                                  *)
(*                                                                         *)
(* A text is a number that stands for an alternative version id of the     *)
(* text model too: an edit makes a text nobody had before, undo and redo   *)
(* go back to one the model had.  The file has a text and the time of its  *)
(* last modification; Size says how long a text is, which is all that the  *)
(* check for a conflict compares.                                          *)
(*                                                                         *)
(* Between two awaits the code runs alone: a step is such a stretch.  What *)
(* follows the end of a write (the save is done, the next one starts) is   *)
(* one step, as only the continuations of promises run there.              *)
(***************************************************************************)
EXTENDS Integers, FiniteSets

CONSTANTS
    Size,           \* the length of each text
    Whys,           \* why files are saved: "auto" when auto save is on
    SaveSlots,      \* bound: saves that could run at once
    MaxText,        \* bound: texts made by edits and by other programs
    MaxVersion,     \* bound: changes of the text model
    MaxTime,        \* bound: modifications of the file
    MaxReverts      \* bound: texts that are discarded, and reverts that fail

Texts == 0..MaxText

ASSUME SizeAssumption == Size \in [Texts -> Nat]
ASSUME WhysAssumption == Whys \subseteq {"explicit", "auto", "overwrite"}
ASSUME BoundsAssumption ==
    {MaxText, MaxVersion, MaxTime, MaxReverts} \subseteq Nat

VARIABLES
    text,                   \* of the text model, with its alternative version id
    versionId,              \* changes of the text model so far
    held,                   \* texts that undo and redo can bring back
    lastText,               \* the last text that was made
    dirty, inConflictMode, inErrorMode,
    bufferSavedVersionId,   \* the text believed to be that of the file
    lastResolvedFileStat,   \* time and size of the file when last read or written
    pending,                \* _pending of saveSequentializer
    next,                   \* _next of saveSequentializer: why to save once more
    saves,                  \* the saves that run
    resolving,              \* the read of the file that runs, and what it has read
    reverting,              \* a revert that is not over, with what it took away
    reloads,                \* size of modelResolveQueue
    file, fileChanged,      \* the file, and a change of it yet to be reported
    failedReverts,          \* reverts that could not read the file
    onDisk,                 \* history: texts the file has had
    reverted,               \* history: texts that the user had discarded
    mislaid                 \* history: texts that a failed revert left clean

flags == <<dirty, inConflictMode, inErrorMode, bufferSavedVersionId>>
modelVars == <<text, versionId, held, lastText>>
saveVars == <<pending, next, saves>>
readVars == <<resolving, reverting, reloads, failedReverts>>
fileVars == <<file, fileChanged, onDisk>>
history == <<reverted, mislaid>>
textVars == <<modelVars, flags, lastResolvedFileStat, saveVars, readVars, fileVars, history>>

Stats == [mtime : 0..MaxTime, size : Nat]
StatOf(f) == [mtime |-> f.mtime, size |-> Size[f.text]]

NoText == -1
NoTask == [id |-> -1, cancels |-> "nobody"]
NoWhy == "none"
NoStat == [mtime |-> -1, size |-> 0]
NoRead == [by |-> "nobody", version |-> -1, etag |-> NoStat, stat |-> NoStat,
           content |-> NoText]
NoRevert == [waits |-> FALSE, wasDirty |-> FALSE, wasInConflictMode |-> FALSE,
             wasInErrorMode |-> FALSE, oldBufferSavedVersionId |-> 0,
             discards |-> NoText]
NoSave == [phase |-> "idle", why |-> NoWhy, start |-> 0, version |-> 0,
           cancelled |-> FALSE, text |-> 0, stat |-> [mtime |-> 0, size |-> 0]]

\* The model has just read the file.
TextInit ==
    /\ text = 0 /\ versionId = 0 /\ held = {0} /\ lastText = 0
    /\ dirty = FALSE /\ inConflictMode = FALSE /\ inErrorMode = FALSE
    /\ bufferSavedVersionId = 0
    /\ file = [text |-> 0, mtime |-> 0] /\ fileChanged = FALSE /\ onDisk = {0}
    /\ lastResolvedFileStat = StatOf(file)
    /\ pending = NoTask /\ next = NoWhy /\ saves = [n \in SaveSlots |-> NoSave]
    /\ resolving = NoRead /\ reverting = NoRevert /\ reloads = 0 /\ failedReverts = 0
    /\ reverted = {} /\ mislaid = {}

-----------------------------------------------------------------------------
(* The flags. *)

\* doSetDirty: a clean model takes its text for that of the file.
SetDirty(isDirty, of) ==
    /\ dirty' = isDirty
    /\ inConflictMode' = (isDirty /\ inConflictMode)
    /\ inErrorMode' = (isDirty /\ inErrorMode)
    /\ bufferSavedVersionId' = IF isDirty THEN bufferSavedVersionId ELSE of

\* A stat that is older than the one known is not taken.
UpdateLastResolvedFileStat(stat) ==
    lastResolvedFileStat' =
        IF lastResolvedFileStat.mtime <= stat.mtime THEN stat ELSE lastResolvedFileStat

SaveStates ==
    [phase : {"idle", "delay", "participants", "check", "write", "stat"},
     why : Whys \cup {NoWhy}, start : Nat, version : Nat, cancelled : BOOLEAN,
     text : Texts, stat : Stats]

ReadStates ==
    [by : {"reload", "revert"}, version : Nat, etag : Stats \cup {NoStat},
     stat : Stats \cup {NoStat}, content : Texts \cup {NoText}] \cup {NoRead}

RevertStates ==
    [waits : BOOLEAN, wasDirty : BOOLEAN, wasInConflictMode : BOOLEAN,
     wasInErrorMode : BOOLEAN, oldBufferSavedVersionId : Texts \cup {NoText},
     discards : Texts \cup {NoText}]

TypeOK ==
    /\ text \in Texts /\ lastText \in Texts /\ held \subseteq Texts
    /\ bufferSavedVersionId \in Texts \cup {NoText}
    /\ versionId \in Nat
    /\ dirty \in BOOLEAN /\ inConflictMode \in BOOLEAN /\ inErrorMode \in BOOLEAN
    /\ lastResolvedFileStat \in Stats
    /\ pending \in [id : Nat, cancels : SaveSlots \cup {"nobody"}] \cup {NoTask}
    /\ next \in Whys \cup {NoWhy}
    /\ saves \in [SaveSlots -> SaveStates]
    /\ resolving \in ReadStates /\ reverting \in RevertStates
    /\ reloads \in 0..2 /\ failedReverts \in Nat
    /\ file \in [text : Texts, mtime : 0..MaxTime] /\ fileChanged \in BOOLEAN
    /\ onDisk \cup reverted \cup mislaid \subseteq Texts

-----------------------------------------------------------------------------
(* Edits: by the user, by extensions, and by save participants. *)

\* Back at the saved text the model is clean, otherwise it is dirty.
OnModelContentChanged(t) ==
    /\ versionId < MaxVersion
    /\ text' = t /\ versionId' = versionId + 1 /\ held' = held \cup {t}
    /\ SetDirty(t # bufferSavedVersionId, t)

Edit ==
    /\ lastText < MaxText /\ lastText' = lastText + 1
    /\ OnModelContentChanged(lastText + 1)
    /\ UNCHANGED <<lastResolvedFileStat, saveVars, readVars, fileVars, history>>

UndoRedo ==
    /\ \E t \in held \ {text} : OnModelContentChanged(t)
    /\ UNCHANGED <<lastText, lastResolvedFileStat, saveVars, readVars, fileVars, history>>

-----------------------------------------------------------------------------
(* Saves. *)

Idle(n) == saves[n].phase = "idle"
Running == {n \in SaveSlots : ~Idle(n)}

\* Each save that was asked for may yet modify the file.
RoomToModify == file.mtime + (IF Running = {} THEN 0 ELSE 1)
                    + (IF next = NoWhy THEN 0 ELSE 1) < MaxTime

\* The first stretch of doSave: participants may still change the text.  After
\* a recent undo an automatic save waits a while before it.
Begun(why) ==
    {[NoSave EXCEPT !.phase = p, !.why = why, !.start = versionId, !.version = versionId] :
        p \in IF why = "auto" THEN {"delay", "participants"} ELSE {"participants"}}

Forced(why) == why = "explicit"

\* save and doSave.  A model in conflict or error is not saved automatically;
\* during the participants of a save all others are refused; a save of this
\* version that runs already is joined; one of another version is cancelled,
\* if it still can be, and this save runs after it.
Save(why) ==
    /\ RoomToModify
    /\ why = "auto" => ~inConflictMode /\ ~inErrorMode
    /\ why = "overwrite" => inConflictMode  \* the editor of conflicts offers it
    /\ \A n \in SaveSlots : saves[n].phase # "participants"
    /\ pending.id # versionId
    /\ Forced(why) \/ dirty
    /\ \/ /\ pending = NoTask
          /\ \E n \in SaveSlots : /\ Idle(n)
                                  /\ \E s \in Begun(why) : saves' = [saves EXCEPT ![n] = s]
                                  /\ pending' = [id |-> versionId, cancels |-> n]
          /\ UNCHANGED next
       \/ /\ pending # NoTask
          /\ saves' = [n \in SaveSlots |->
                          IF n = pending.cancels THEN [saves[n] EXCEPT !.cancelled = TRUE]
                                                 ELSE saves[n]]
          /\ next' = why
          /\ UNCHANGED pending
    /\ UNCHANGED <<modelVars, flags, lastResolvedFileStat, readVars, fileVars, history>>

\* Defect: the end of any task is taken for that of the pending one.
DonePendingAny(p, id) == NoTask

\* donePending(id)
DonePending(p, id) == IF p.id = id THEN NoTask ELSE p

\* Defect: only the end of the task a save was begun with counts.
ReleasesOuter(p, s) == p # NoTask /\ p.id = s.start

\* Two tasks were pending for a save, the write and the whole of it; the end of
\* either lets the next save run.
Releases(p, s) == p # NoTask /\ p.id \in {s.version, s.start}

\* The save of slot n has ended.  The next one runs unless the text is clean by
\* then.
SaveEnds(n) ==
    LET released == Releases(pending, saves[n])
        runs == released /\ next # NoWhy /\ (Forced(next) \/ dirty')
    IN  /\ next' = IF released THEN NoWhy ELSE next
        /\ \/ /\ ~runs
              /\ pending' = IF released THEN NoTask ELSE pending
              /\ saves' = [saves EXCEPT ![n] = NoSave]
           \/ /\ runs
              /\ \E m \in SaveSlots \ {n} :
                    /\ Idle(m)
                    /\ \E s \in Begun(next) :
                          saves' = [saves EXCEPT ![n] = NoSave, ![m] = s]
                    /\ pending' = DonePending([id |-> versionId, cancels |-> m],
                                              saves[n].start)

DelayEnds(n) ==
    /\ saves[n].phase = "delay" /\ ~saves[n].cancelled
    /\ saves' = [saves EXCEPT ![n].phase = "participants"]
    /\ UNCHANGED <<modelVars, flags, lastResolvedFileStat, pending, next, readVars,
                   fileVars, history>>

\* A save that was cancelled returns before it writes.
GiveUpSave(n) ==
    /\ saves[n].phase = "delay" /\ saves[n].cancelled
    /\ UNCHANGED flags
    /\ SaveEnds(n)
    /\ UNCHANGED <<modelVars, lastResolvedFileStat, readVars, fileVars, history>>

\* The participants are done: what is written is the text of now, and the
\* pending task is now the write, which cannot be cancelled.
BeginWrite(n) ==
    /\ saves[n].phase = "participants"
    /\ saves' = [saves EXCEPT ![n].phase = "check", ![n].version = versionId,
                              ![n].text = text, ![n].stat = lastResolvedFileStat]
    /\ pending' = [id |-> versionId, cancels |-> "nobody"]
    /\ inErrorMode' = FALSE
    /\ UNCHANGED <<modelVars, dirty, inConflictMode, bufferSavedVersionId,
                   lastResolvedFileStat, next, readVars, fileVars, history>>

\* validateWriteFile: the file is newer than what the model knew, and of
\* another length.
ModifiedSince(s) ==
    /\ s.why # "overwrite"
    /\ s.stat.mtime < file.mtime /\ s.stat.size # Size[file.text]

CheckPasses(n) ==
    /\ saves[n].phase = "check" /\ ~ModifiedSince(saves[n])
    /\ saves' = [saves EXCEPT ![n].phase = "write"]
    /\ UNCHANGED <<modelVars, flags, lastResolvedFileStat, pending, next, readVars,
                   fileVars, history>>

Modify(t) ==
    /\ file' = [text |-> t, mtime |-> file.mtime + 1]
    /\ fileChanged' = TRUE /\ onDisk' = onDisk \cup {t}

WriteFile(n) ==
    /\ saves[n].phase = "write"
    /\ Modify(saves[n].text)
    /\ saves' = [saves EXCEPT ![n].phase = "stat"]
    /\ UNCHANGED <<modelVars, flags, lastResolvedFileStat, pending, next, readVars, history>>

\* Defect: the version that was written is not compared.
SaveSucceedsAnyway(n) ==
    /\ saves[n].phase = "stat"
    /\ UpdateLastResolvedFileStat(StatOf(file))
    /\ SetDirty(FALSE, text)
    /\ SaveEnds(n)
    /\ UNCHANGED <<modelVars, readVars, fileVars, history>>

\* handleSaveSuccess, with the stat of the file after the write.  A text that
\* changed meanwhile stays dirty.
SaveSucceeds(n) ==
    /\ saves[n].phase = "stat"
    /\ UpdateLastResolvedFileStat(StatOf(file))
    /\ IF saves[n].version = versionId THEN SetDirty(FALSE, text) ELSE UNCHANGED flags
    /\ SaveEnds(n)
    /\ UNCHANGED <<modelVars, readVars, fileVars, history>>

\* handleSaveError: a conflict, or any other error before the file is written.
SaveFails(n) ==
    /\ saves[n].phase \in {"check", "write"}
    /\ dirty' = TRUE /\ inErrorMode' = TRUE
    /\ inConflictMode' = (\/ inConflictMode
                          \/ (saves[n].phase = "check" /\ ModifiedSince(saves[n])))
    /\ UNCHANGED bufferSavedVersionId
    /\ SaveEnds(n)
    /\ UNCHANGED <<modelVars, lastResolvedFileStat, readVars, fileVars, history>>

-----------------------------------------------------------------------------
(* Reading the file: reverts, and reloads after it changed. *)

\* model.resolve: nothing is read for a model that is dirty or being saved.
MayResolve(isDirty) == ~isDirty /\ pending = NoTask

\* Another program writes the file.
OtherWrites ==
    /\ RoomToModify
    /\ lastText < MaxText /\ lastText' = lastText + 1
    /\ Modify(lastText + 1)
    /\ UNCHANGED <<text, versionId, held, flags, lastResolvedFileStat, saveVars,
                   readVars, history>>

\* onDidFilesChange and queueModelReload: one reload runs and one waits.
OnDidFilesChange ==
    /\ fileChanged /\ fileChanged' = FALSE
    /\ reloads' = IF ~dirty /\ reloads <= 1 THEN reloads + 1 ELSE reloads
    /\ UNCHANGED <<modelVars, flags, lastResolvedFileStat, saveVars, resolving,
                   reverting, failedReverts, file, onDisk, history>>

\* What resolveFromFile remembers before it reads.  A reload is content to hear
\* that the file is as the model knows it; a revert is not.
ReadBy(who) ==
    [NoRead EXCEPT !.by = who, !.version = versionId,
                   !.etag = IF who = "reload" THEN lastResolvedFileStat ELSE NoStat]

\* reload: it waits for a read that runs.
Reload ==
    /\ reloads > 0 /\ resolving = NoRead
    /\ IF MayResolve(dirty)
       THEN resolving' = ReadBy("reload") /\ UNCHANGED reloads
       ELSE reloads' = reloads - 1 /\ UNCHANGED resolving
    /\ UNCHANGED <<modelVars, flags, lastResolvedFileStat, saveVars, reverting,
                   failedReverts, fileVars, history>>

NotReverting == ~reverting.waits /\ resolving.by # "revert"

\* revert takes the flags away, and reads the file at once, after the read
\* that runs, or, when the model is being saved, not at all: that ends it.
Revert ==
    /\ NotReverting                         \* bound: one revert at a time
    /\ Cardinality(reverted \cup {text}) + failedReverts <= MaxReverts
    /\ SetDirty(FALSE, text)
    /\ LET taken == [waits |-> resolving # NoRead, wasDirty |-> dirty,
                     wasInConflictMode |-> inConflictMode, wasInErrorMode |-> inErrorMode,
                     oldBufferSavedVersionId |-> bufferSavedVersionId,
                     discards |-> text]
       IN  \/ /\ resolving = NoRead /\ ~MayResolve(FALSE)
              /\ reverted' = reverted \cup {text}
              /\ UNCHANGED <<resolving, reverting>>
           \/ /\ resolving # NoRead \/ MayResolve(FALSE)
              /\ reverting' = taken
              /\ resolving' = IF resolving = NoRead THEN ReadBy("revert") ELSE resolving
              /\ UNCHANGED reverted
    /\ UNCHANGED <<modelVars, lastResolvedFileStat, saveVars, reloads, failedReverts,
                   fileVars, mislaid>>

\* A revert is over, and what it was to discard has been.
Discarded == reverted' = reverted \cup ({reverting.discards} \ {NoText})

\* A revert that waited: it does not read when the user typed meanwhile.
RevertResolves ==
    /\ reverting.waits /\ resolving = NoRead
    /\ IF MayResolve(dirty)
       THEN /\ resolving' = ReadBy("revert")
            /\ reverting' = [reverting EXCEPT !.waits = FALSE]
            /\ UNCHANGED reverted
       ELSE reverting' = NoRevert /\ Discarded /\ UNCHANGED resolving
    /\ UNCHANGED <<modelVars, flags, lastResolvedFileStat, saveVars, reloads,
                   failedReverts, fileVars, mislaid>>

\* readStream: the stat and the content of the file, which may be old by the
\* time they are used.
ReadFile ==
    /\ resolving # NoRead /\ resolving.stat = NoStat
    /\ resolving' = [resolving EXCEPT !.stat = StatOf(file), !.content = file.text]
    /\ UNCHANGED <<modelVars, flags, lastResolvedFileStat, saveVars, reverting, reloads,
                   failedReverts, fileVars, history>>

\* Defect: the end of a revert's read is counted as that of a reload.
ReadEndsAny ==
    /\ resolving # NoRead /\ resolving' = NoRead
    /\ reloads' = reloads - 1
    /\ reverting' = IF resolving.by = "revert" THEN NoRevert ELSE reverting

ReadEnds ==
    /\ resolving # NoRead /\ resolving' = NoRead
    /\ reloads' = IF resolving.by = "reload" THEN reloads - 1 ELSE reloads
    /\ reverting' = IF resolving.by = "revert" THEN NoRevert ELSE reverting

\* Defect: a text that changed while the file was read is not looked for.
ChangedNever == FALSE

\* The text changed while the file was read.
ChangedMeanwhile == resolving.version # versionId

\* A reload finds the file as the model knew it when the reload began.
NotModified == resolving.by = "reload" /\ resolving.stat = resolving.etag

\* resolveFromFile: what was read replaces the text, unless that changed
\* meanwhile.  Of a file that was not modified only the stat is taken.
Resolve ==
    /\ resolving.stat # NoStat
    /\ ReadEnds
    /\ IF ~NotModified /\ ChangedMeanwhile
       THEN UNCHANGED lastResolvedFileStat
       ELSE UpdateLastResolvedFileStat(resolving.stat)
    /\ IF NotModified \/ ChangedMeanwhile
       THEN UNCHANGED <<modelVars, flags>>
       ELSE /\ text' = resolving.content /\ held' = held \cup {resolving.content}
            /\ versionId' = IF resolving.content = text THEN versionId ELSE versionId + 1
            /\ SetDirty(FALSE, resolving.content)
            /\ UNCHANGED lastText
    /\ IF resolving.by = "revert" THEN Discarded ELSE UNCHANGED reverted
    /\ UNCHANGED <<saveVars, failedReverts, fileVars, mislaid>>

\* The file cannot be read: a revert gives the flags back as they were, and has
\* discarded nothing.
ReadFails ==
    /\ ReadEnds
    /\ IF resolving.by = "revert"
       THEN /\ failedReverts' = failedReverts + 1
            /\ dirty' = reverting.wasDirty
            /\ inConflictMode' = reverting.wasInConflictMode
            /\ inErrorMode' = reverting.wasInErrorMode
            /\ bufferSavedVersionId' = reverting.oldBufferSavedVersionId
            /\ mislaid' = IF dirty' THEN mislaid ELSE mislaid \cup {text}
       ELSE UNCHANGED <<failedReverts, flags, mislaid>>
    /\ UNCHANGED <<modelVars, lastResolvedFileStat, saveVars, fileVars, reverted>>

-----------------------------------------------------------------------------
UserActs == Edit \/ UndoRedo \/ Revert \/ \E why \in Whys : Save(why)

SaveRuns(n) ==
    \/ DelayEnds(n) \/ GiveUpSave(n) \/ BeginWrite(n) \/ CheckPasses(n)
    \/ WriteFile(n) \/ SaveSucceeds(n) \/ SaveFails(n)

Reads == Reload \/ RevertResolves \/ ReadFile \/ Resolve \/ ReadFails

Next == UserActs \/ (\E n \in SaveSlots : SaveRuns(n)) \/ Reads \/ OtherWrites
            \/ OnDidFilesChange

Spec == TextInit /\ [][Next]_textVars

\* What was begun goes on: timers, participants and the disk all answer.
Fairness ==
    /\ \A n \in SaveSlots : WF_textVars(SaveRuns(n))
    /\ WF_textVars(Reads)

FairSpec == Spec /\ Fairness

-----------------------------------------------------------------------------
(* Properties. *)

\* No two saves are between the start of their write and its end ("Never ever
\* must 2 saves execute at the same time", textFileEditorModel.ts:777), though
\* each save is known by two tasks, and the end of one starts the next.
OneSaveWrites ==
    \A m, n \in SaveSlots :
        {saves[m].phase, saves[n].phase} \subseteq {"check", "write", "stat"} => m = n

\* The texts that nobody need miss: they were in the file, were or are being
\* discarded, or a revert that failed has declared them clean.
Dispensable == onDisk \cup reverted \cup mislaid \cup {reverting.discards}

\* A clean text has been that of the file, unless the user asked to discard it
\* or a failed revert made it clean: what is typed during a save is not marked
\* saved.
CleanWasSaved == ~dirty => text \in Dispensable

\* "Models in conflict mode are always dirty", and so are those in error mode
\* (textfiles.ts:223 and 234): else nobody would offer to resolve it.
ConflictIsDirty == inConflictMode \/ inErrorMode => dirty

\* The flags tell the truth about the text, whatever saves, reverts and reads
\* end in between.
FlagsTrue == CleanWasSaved /\ ConflictIsDirty

\* "Return early if the model content has changed meanwhile to prevent loosing
\* any changes" (textFileEditorModel.ts:444): a read that ends replaces no text
\* that was not saved before, however the text and its flags, other saves and
\* reverts have changed since the read began.
ReadsLoseNothing ==
    [][resolving # NoRead /\ resolving' = NoRead /\ text' # text
            => text \in Dispensable]_textVars

\* A save that waits for another ("Register this as the next upcoming save",
\* textFileEditorModel.ts:794) has its turn, whichever of the two tasks of that
\* one ends first and whatever its version is by then, and a revert ends.
NobodyWaitsForever ==
    /\ next # NoWhy ~> next = NoWhy
    /\ ~NotReverting ~> NotReverting
=============================================================================
