---------------------------- MODULE TextFileProofs ----------------------------
(***************************************************************************)
(* The saves of a text file never write two at a time, and its flags tell  *)
(* the truth, for any lengths of texts and any number of edits, saves,     *)
(* reverts and reloads; and its backup keeps what is unsaved, across       *)
(* crashes, shutdowns and restarts.                                        *)
(***************************************************************************)
EXTENDS HotExit, TLAPS

-----------------------------------------------------------------------------
(* The invariant. *)

\* At most one save is under way at all.
OneRuns == \A m, n \in SaveSlots : ~Idle(m) /\ ~Idle(n) => m = n

\* The save that runs is the pending task, by the version it has by now, and a
\* save that waits for it was asked for at a later version than it began with:
\* else the end of its outer task would be taken for that of the next one.
PendingRuns ==
    \A n \in SaveSlots : ~Idle(n) =>
        /\ pending # NoTask /\ pending.id = saves[n].version
        /\ saves[n].start <= saves[n].version /\ saves[n].version <= versionId
        /\ next # NoWhy => saves[n].start < versionId

NextWaits == next # NoWhy => pending # NoTask

\* What is written is the text of the version of the save.
WritesVersion ==
    \A n \in SaveSlots :
        /\ saves[n].phase \in {"check", "write", "stat"} /\ saves[n].version = versionId
             => saves[n].text = text
        /\ saves[n].phase = "stat" => saves[n].text \in onDisk

\* The saves that were asked for may modify the file within the bound.
HasToWrite(n) == saves[n].phase \in {"delay", "participants", "check", "write"}

TimeLeft ==
    \A n \in SaveSlots :
        file.mtime + (IF HasToWrite(n) THEN 1 ELSE 0)
                   + (IF next = NoWhy THEN 0 ELSE 1) <= MaxTime

ReloadCounted == resolving # NoRead /\ resolving.by = "reload" => reloads > 0

\* Only a revert that is not over has a text to discard, and only a read that has
\* read something has a text.
ReadHolds ==
    /\ NotReverting => reverting.discards = NoText
    /\ resolving.stat # NoStat => resolving.content \in Texts

\* The texts that a clean model may have, with or without those of a revert that
\* may yet fail.
Settled == onDisk \cup reverted \cup mislaid

Known == Settled \cup ({reverting.discards} \ {NoText})

\* What was read has been in the file, and replaces no text that is missed.
ReadIsKnown ==
    /\ resolving.version <= versionId
    /\ resolving.stat # NoStat => resolving.content \in onDisk
    /\ resolving # NoRead /\ resolving.version = versionId => text \in Known

SavedIsKnown ==
    /\ file.text \in onDisk /\ 0 \in onDisk
    /\ bufferSavedVersionId \in Known
    /\ reverting.oldBufferSavedVersionId \in Settled
    /\ reverting.wasInConflictMode \/ reverting.wasInErrorMode => reverting.wasDirty

SavesInv == OneRuns /\ PendingRuns /\ NextWaits

TInv == TypeOK /\ SavesInv /\ WritesVersion /\ TimeLeft /\ ReloadCounted /\ ReadHolds

IInv == TInv /\ SavedIsKnown /\ ReadIsKnown /\ FlagsTrue

-----------------------------------------------------------------------------
(* Types of what the actions put together. *)

\* A bound is a number, and so is a text.
LEMMA Numbers ==
    /\ MaxText \in Nat /\ MaxTime \in Nat
    /\ Texts \subseteq Int /\ 0 \in Texts /\ NoText \notin Texts
    /\ \A t \in Texts : Size[t] \in Nat
BY SizeAssumption, BoundsAssumption DEF Texts, NoText

\* The stat of a file is one.
LEMMA StatType ==
    ASSUME NEW f \in [text : Texts, mtime : 0..MaxTime]
    PROVE  StatOf(f) \in Stats
BY Numbers DEF StatOf, Stats

\* A slot without a save has a record of a save.
LEMMA NoSaveType == NoSave \in SaveStates
BY Numbers DEF NoSave, SaveStates, Stats, NoWhy

\* Without a revert there is a record of one.
LEMMA NoRevertType == NoRevert \in RevertStates
BY Numbers DEF NoRevert, RevertStates

\* A revert takes flags, and has them.
LEMMA RevertTypes ==
    /\ \A w \in BOOLEAN, d \in BOOLEAN, c \in BOOLEAN, e \in BOOLEAN,
          t \in Texts \cup {NoText}, u \in Texts \cup {NoText} :
          [waits |-> w, wasDirty |-> d, wasInConflictMode |-> c, wasInErrorMode |-> e,
           oldBufferSavedVersionId |-> t, discards |-> u] \in RevertStates
    /\ \A r \in RevertStates :
          /\ r.wasDirty \in BOOLEAN /\ r.wasInConflictMode \in BOOLEAN
          /\ r.wasInErrorMode \in BOOLEAN
          /\ r.oldBufferSavedVersionId \in Texts \cup {NoText}
          /\ r.discards \in Texts \cup {NoText}
BY DEF RevertStates

FlagsTaken(w) ==
    [waits |-> w, wasDirty |-> dirty, wasInConflictMode |-> inConflictMode,
     wasInErrorMode |-> inErrorMode, oldBufferSavedVersionId |-> bufferSavedVersionId,
     discards |-> text]

\* A read that begins has read nothing yet.
LEMMA ReadByFacts ==
    ASSUME versionId \in Nat, lastResolvedFileStat \in Stats, NEW who \in {"reload", "revert"}
    PROVE  /\ ReadBy(who) \in ReadStates /\ ReadBy(who).by = who
           /\ ReadBy(who).version = versionId /\ ReadBy(who).stat = NoStat
BY DEF ReadBy, ReadStates, NoRead

\* A read that has read something is still the same read.
LEMMA ReadFileFacts ==
    ASSUME resolving \in ReadStates, StatOf(file) \in Stats, file.text \in Texts, ReadFile
    PROVE  /\ resolving' \in ReadStates /\ resolving' # NoRead
           /\ resolving'.by = resolving.by /\ resolving'.version = resolving.version
           /\ resolving'.content = file.text
BY DEF ReadFile, ReadStates, NoRead, NoStat, Stats

\* The revert that begins to read has the flags of the model, or none is begun.
LEMMA RevertTakes ==
    ASSUME Revert
    PROVE  reverting' = reverting \/ \E w \in BOOLEAN : reverting' = FlagsTaken(w)
BY (resolving # NoRead) \in BOOLEAN DEF Revert, FlagsTaken

\* A save that begins has one.
LEMMA BegunType ==
    ASSUME versionId \in Nat, NEW why \in Whys, NEW s \in Begun(why)
    PROVE  /\ s \in SaveStates /\ s.phase \in {"delay", "participants"}
           /\ s.start = versionId /\ s.version = versionId
<1>1. PICK p \in {"delay", "participants"} :
          s = [NoSave EXCEPT !.phase = p, !.why = why, !.start = versionId,
                             !.version = versionId]
  BY Zenon DEF Begun
<1> QED BY <1>1, NoSaveType DEF SaveStates, NoSave

\* A save that goes on.
LEMMA SaveGoesOn ==
    ASSUME NEW s \in SaveStates
    PROVE  /\ \A p \in {"participants", "write", "stat"} :
                  [s EXCEPT !.phase = p] \in SaveStates
           /\ [s EXCEPT !.cancelled = TRUE] \in SaveStates
           /\ \A v \in Nat, t \in Texts, st \in Stats :
                  [s EXCEPT !.phase = "check", !.version = v, !.text = t, !.stat = st]
                      \in SaveStates
BY DEF SaveStates

-----------------------------------------------------------------------------
(* What the end of a save does to the others. *)

SaveTypes ==
    /\ pending \in [id : Nat, cancels : SaveSlots \cup {"nobody"}] \cup {NoTask}
    /\ next \in Whys \cup {NoWhy}
    /\ saves \in [SaveSlots -> SaveStates]

\* No save waits any more.  Either none runs, or the one that waited does.
LEMMA SaveEndsFacts ==
    ASSUME TypeOK, SavesInv, NEW n \in SaveSlots, ~Idle(n), SaveEnds(n)
    PROVE  /\ next' = NoWhy
           /\ \/ /\ pending' = NoTask
                 /\ saves' = [saves EXCEPT ![n] = NoSave]
              \/ \E m \in SaveSlots \ {n} : \E s \in Begun(next) :
                    /\ next \in Whys
                    /\ pending' = [id |-> versionId, cancels |-> m]
                    /\ saves' = [saves EXCEPT ![n] = NoSave, ![m] = s]
<1> DEFINE released == Releases(pending, saves[n])
<1>1. released
  BY DEF SavesInv, PendingRuns, Releases, Idle
<1>2. next' = NoWhy
  BY <1>1 DEF SaveEnds
<1>3. CASE ~(released /\ next # NoWhy /\ (Forced(next) \/ dirty'))
  BY <1>1, <1>2, <1>3 DEF SaveEnds
<1>4. CASE released /\ next # NoWhy /\ (Forced(next) \/ dirty')
  <2>1. PICK m \in SaveSlots \ {n}, s \in Begun(next) :
           /\ saves' = [saves EXCEPT ![n] = NoSave, ![m] = s]
           /\ pending' = DonePending([id |-> versionId, cancels |-> m], saves[n].start)
    BY <1>4 DEF SaveEnds
  <2>2. saves[n].start # versionId
    BY <1>4 DEF SavesInv, PendingRuns, TypeOK, SaveStates
  <2>3. pending' = [id |-> versionId, cancels |-> m]
    BY <2>1, <2>2 DEF DonePending
  <2>4. next \in Whys
    BY <1>4 DEF TypeOK
  <2> QED BY <1>2, <2>1, <2>3, <2>4
<1> QED BY <1>3, <1>4

\* The types of the saves stay.
LEMMA SaveEndsTypes ==
    ASSUME TypeOK, SavesInv, NEW n \in SaveSlots, ~Idle(n), SaveEnds(n)
    PROVE  SaveTypes'
<1>1. next' \in Whys \cup {NoWhy}
  BY SaveEndsFacts
<1>2. saves \in [SaveSlots -> SaveStates] /\ versionId \in Nat
  BY DEF TypeOK
<1>3. CASE pending' = NoTask /\ saves' = [saves EXCEPT ![n] = NoSave]
  BY <1>1, <1>2, <1>3, NoSaveType DEF SaveTypes
<1>4. ASSUME NEW m \in SaveSlots \ {n}, NEW s \in Begun(next), next \in Whys,
             pending' = [id |-> versionId, cancels |-> m],
             saves' = [saves EXCEPT ![n] = NoSave, ![m] = s]
      PROVE  SaveTypes'
  <2>1. s \in SaveStates
    BY <1>2, <1>4, BegunType
  <2>2. saves' \in [SaveSlots -> SaveStates]
    BY <1>2, <1>4, <2>1, NoSaveType
  <2>3. pending' \in [id : Nat, cancels : SaveSlots \cup {"nobody"}]
    BY <1>2, <1>4
  <2> QED BY <1>1, <2>2, <2>3 DEF SaveTypes
<1> QED BY <1>3, <1>4, SaveEndsFacts

\* If a save runs then, it is new, and of the version of now.
LEMMA SaveEndsRuns ==
    ASSUME TypeOK, SavesInv, NEW n \in SaveSlots, ~Idle(n), SaveEnds(n)
    PROVE  /\ OneRuns' /\ NextWaits'
           /\ \A k \in SaveSlots : ~Idle(k)' =>
                 /\ next # NoWhy
                 /\ pending' # NoTask /\ pending'.id = saves'[k].version
                 /\ saves'[k].phase \in {"delay", "participants"}
                 /\ saves'[k].start = versionId /\ saves'[k].version = versionId
<1>1. next' = NoWhy
  BY SaveEndsFacts
<1>2. saves \in [SaveSlots -> SaveStates] /\ versionId \in Nat
  BY DEF TypeOK
<1>3. \A k \in SaveSlots : k # n => saves[k].phase = "idle"
  BY DEF SavesInv, OneRuns, Idle
<1>4. CASE pending' = NoTask /\ saves' = [saves EXCEPT ![n] = NoSave]
  <2>1. \A k \in SaveSlots : Idle(k)'
    BY <1>2, <1>3, <1>4 DEF Idle, NoSave
  <2> QED BY <1>1, <2>1 DEF OneRuns, NextWaits
<1>5. ASSUME NEW m \in SaveSlots \ {n}, NEW s \in Begun(next), next \in Whys,
             pending' = [id |-> versionId, cancels |-> m],
             saves' = [saves EXCEPT ![n] = NoSave, ![m] = s]
      PROVE  /\ OneRuns'
             /\ \A k \in SaveSlots : ~Idle(k)' =>
                 /\ next # NoWhy
                 /\ pending' # NoTask /\ pending'.id = saves'[k].version
                 /\ saves'[k].phase \in {"delay", "participants"}
                 /\ saves'[k].start = versionId /\ saves'[k].version = versionId
  <2>1. /\ s.phase \in {"delay", "participants"}
        /\ s.start = versionId /\ s.version = versionId
    BY <1>2, <1>5, BegunType
  <2>2. \A k \in SaveSlots : k # m => Idle(k)'
    BY <1>2, <1>3, <1>5 DEF Idle, NoSave
  <2>3. saves'[m] = s
    BY <1>2, <1>5
  <2>4. pending' # NoTask /\ pending'.id = versionId
    BY <1>2, <1>5 DEF NoTask
  <2>5. next # NoWhy
    BY <1>5, WhysAssumption DEF NoWhy
  <2> QED BY <2>1, <2>2, <2>3, <2>4, <2>5 DEF OneRuns
<1> QED BY <1>1, <1>4, <1>5, SaveEndsFacts DEF NextWaits

-----------------------------------------------------------------------------
(* The types in parts, and the initial states. *)

ModelTypes ==
    /\ text \in Texts /\ lastText \in Texts /\ held \subseteq Texts /\ versionId \in Nat
    /\ reverted \subseteq Texts /\ mislaid \subseteq Texts

FlagTypes ==
    /\ bufferSavedVersionId \in Texts \cup {NoText}
    /\ dirty \in BOOLEAN /\ inConflictMode \in BOOLEAN /\ inErrorMode \in BOOLEAN

ReadTypes ==
    /\ resolving \in ReadStates /\ reverting \in RevertStates
    /\ reloads \in 0..2 /\ failedReverts \in Nat

FileTypes ==
    /\ file \in [text : Texts, mtime : 0..MaxTime] /\ fileChanged \in BOOLEAN
    /\ onDisk \subseteq Texts

\* The parts of the types.
LEMMA TypeParts ==
    TypeOK <=> /\ ModelTypes /\ FlagTypes /\ lastResolvedFileStat \in Stats
               /\ SaveTypes /\ ReadTypes /\ FileTypes
BY DEF TypeOK, ModelTypes, FlagTypes, SaveTypes, ReadTypes, FileTypes

\* A model that has just read its file.
LEMMA InitHolds == TextInit => IInv
<1> SUFFICES ASSUME TextInit PROVE IInv
  OBVIOUS
<1> USE DEF TextInit
<1>1. \A n \in SaveSlots : Idle(n) /\ saves[n].phase = "idle"
  BY DEF Idle, NoSave
<1>2. TypeOK
  <2>1. file \in [text : Texts, mtime : 0..MaxTime]
    BY Numbers
  <2>2. lastResolvedFileStat \in Stats
    BY <2>1, StatType
  <2>3. saves \in [SaveSlots -> SaveStates]
    BY NoSaveType
  <2>4. ModelTypes /\ FlagTypes /\ FileTypes
    BY <2>1, Numbers DEF ModelTypes, FlagTypes, FileTypes
  <2>5. SaveTypes
    BY <2>3 DEF SaveTypes
  <2>6. ReadTypes
    BY NoRevertType DEF ReadTypes, ReadStates
  <2> QED BY <2>2, <2>4, <2>5, <2>6, TypeParts
<1>3. SavesInv /\ WritesVersion
  BY <1>1 DEF SavesInv, OneRuns, PendingRuns, NextWaits, WritesVersion
<1>4. TimeLeft
  BY <1>1, Numbers DEF TimeLeft, HasToWrite
<1>5. ReloadCounted /\ ReadHolds
  BY DEF ReloadCounted, ReadHolds, NoRevert, NoRead
<1>6. SavedIsKnown /\ ReadIsKnown /\ FlagsTrue
  BY DEF SavedIsKnown, ReadIsKnown, FlagsTrue, CleanWasSaved, ConflictIsDirty, Dispensable,
         Known, Settled, NoRevert, NoRead
<1> QED BY <1>2, <1>3, <1>4, <1>5, <1>6 DEF IInv, TInv

-----------------------------------------------------------------------------
(* Every step keeps the saves in order. *)

\* What no save or edit does.
LEMMA SavesStutter ==
    ASSUME SavesInv, UNCHANGED saveVars, UNCHANGED versionId
    PROVE  SavesInv'
BY DEF SavesInv, OneRuns, PendingRuns, NextWaits, Idle, saveVars

\* A change of the text leaves the saves behind.
LEMMA SavesAge ==
    ASSUME TypeOK, SavesInv, UNCHANGED saveVars, versionId' = versionId + 1
    PROVE  SavesInv'
<1>1. OneRuns' /\ NextWaits'
  BY DEF SavesInv, OneRuns, NextWaits, Idle, saveVars
<1>2. PendingRuns'
  BY DEF SavesInv, PendingRuns, Idle, saveVars, TypeOK, SaveStates
<1> QED BY <1>1, <1>2 DEF SavesInv

\* The end of a save.
LEMMA SavesEnd ==
    ASSUME TypeOK, SavesInv, NEW n \in SaveSlots, ~Idle(n), SaveEnds(n),
           UNCHANGED versionId
    PROVE  SavesInv'
<1>1. OneRuns' /\ NextWaits' /\ next' = NoWhy
  BY SaveEndsRuns, SaveEndsFacts
<1>2. versionId \in Nat
  BY DEF TypeOK
<1>3. PendingRuns'
  BY <1>1, <1>2, SaveEndsRuns DEF PendingRuns
<1> QED BY <1>1, <1>3 DEF SavesInv

\* A save that is asked for: it begins, or it waits for the one that runs.
LEMMA SavesBegin ==
    ASSUME TypeOK, SavesInv, NEW why \in Whys, Save(why)
    PROVE  SavesInv'
<1>1. versionId' = versionId /\ versionId \in Nat /\ saves \in [SaveSlots -> SaveStates]
  BY DEF Save, modelVars, TypeOK
<1>2. CASE pending = NoTask
  <2>1. PICK n \in SaveSlots, s \in Begun(why) :
           /\ saves' = [saves EXCEPT ![n] = s]
           /\ pending' = [id |-> versionId, cancels |-> n]
    BY <1>2 DEF Save
  <2>2. next' = next /\ next = NoWhy
    BY <1>2 DEF Save, SavesInv, NextWaits
  <2>3. \A k \in SaveSlots : k # n => Idle(k)'
    BY <1>1, <1>2, <2>1 DEF SavesInv, PendingRuns, Idle
  <2>4. saves'[n] = s /\ s.start = versionId /\ s.version = versionId
    BY <1>1, <2>1, BegunType
  <2>5. pending' # NoTask /\ pending'.id = versionId
    BY <1>1, <2>1 DEF NoTask
  <2> QED BY <1>1, <2>2, <2>3, <2>4, <2>5 DEF SavesInv, OneRuns, PendingRuns, NextWaits
<1>3. CASE pending # NoTask
  <2>1. /\ saves' = [n \in SaveSlots |->
                         IF n = pending.cancels THEN [saves[n] EXCEPT !.cancelled = TRUE]
                                                ELSE saves[n]]
        /\ next' = why /\ pending' = pending /\ pending.id # versionId
    BY <1>3 DEF Save
  <2>2. \A k \in SaveSlots : /\ saves'[k].phase = saves[k].phase
                             /\ saves'[k].start = saves[k].start
                             /\ saves'[k].version = saves[k].version
    BY <1>1, <2>1 DEF SaveStates
  <2>3. OneRuns' /\ NextWaits'
    BY <1>3, <2>1, <2>2 DEF SavesInv, OneRuns, NextWaits, Idle
  <2>4. PendingRuns'
    BY <1>1, <2>1, <2>2 DEF SavesInv, PendingRuns, Idle, SaveStates
  <2> QED BY <2>3, <2>4 DEF SavesInv
<1> QED BY <1>2, <1>3

\* A save that goes on with the next phase.
LEMMA SavesGoOn ==
    ASSUME TypeOK, SavesInv, NEW n \in SaveSlots,
           DelayEnds(n) \/ CheckPasses(n) \/ WriteFile(n)
    PROVE  SavesInv'
<1>1. /\ versionId' = versionId /\ pending' = pending /\ next' = next
      /\ ~Idle(n)
      /\ \E p \in {"participants", "write", "stat"} :
            saves' = [saves EXCEPT ![n].phase = p]
  BY DEF DelayEnds, CheckPasses, WriteFile, modelVars, Idle
<1>2. \A k \in SaveSlots : /\ Idle(k)' = Idle(k)
                           /\ saves'[k].start = saves[k].start
                           /\ saves'[k].version = saves[k].version
  BY <1>1 DEF TypeOK, SaveStates, Idle
<1> QED BY <1>1, <1>2 DEF SavesInv, OneRuns, PendingRuns, NextWaits

\* The write begins with the version of now.
LEMMA SavesWrite ==
    ASSUME TypeOK, SavesInv, NEW n \in SaveSlots, BeginWrite(n)
    PROVE  SavesInv'
<1>1. /\ versionId' = versionId /\ next' = next /\ ~Idle(n) /\ versionId \in Nat
      /\ pending' = [id |-> versionId, cancels |-> "nobody"]
  BY DEF BeginWrite, modelVars, Idle, TypeOK
<1>2. /\ saves'[n].start = saves[n].start /\ saves'[n].version = versionId
      /\ ~Idle(n)'
      /\ \A k \in SaveSlots : k # n => saves'[k] = saves[k]
  BY DEF BeginWrite, TypeOK, SaveStates, Idle
<1>3. \A k \in SaveSlots : k # n => Idle(k) /\ Idle(k)'
  BY <1>1, <1>2 DEF SavesInv, OneRuns, Idle
<1>4. pending' # NoTask /\ pending'.id = versionId
  BY <1>1 DEF NoTask
<1>5. saves[n].start <= versionId
  BY <1>1 DEF SavesInv, PendingRuns, TypeOK, SaveStates
<1>6. OneRuns' /\ NextWaits'
  BY <1>3, <1>4 DEF OneRuns, NextWaits
<1>7. PendingRuns'
  BY <1>1, <1>2, <1>3, <1>4, <1>5 DEF SavesInv, PendingRuns
<1> QED BY <1>6, <1>7 DEF SavesInv

\* A read of the file may change the text.
LEMMA SavesRead ==
    ASSUME TypeOK, SavesInv, Resolve
    PROVE  SavesInv'
<1>1. UNCHANGED saveVars /\ (versionId' = versionId \/ versionId' = versionId + 1)
  BY DEF Resolve, modelVars
<1> QED BY <1>1, SavesStutter, SavesAge

\* Any step: only an edit, the begin or the end of a save matters.
LEMMA SavesStep ==
    ASSUME TypeOK, SavesInv, [Next]_textVars
    PROVE  SavesInv'
<1>1. CASE Edit \/ UndoRedo
  BY <1>1, SavesAge DEF Edit, UndoRedo, OnModelContentChanged
<1>2. CASE Revert \/ Reload \/ RevertResolves \/ ReadFile \/ ReadFails \/ OtherWrites
              \/ OnDidFilesChange
  BY <1>2, SavesStutter
     DEF Revert, Reload, RevertResolves, ReadFile, ReadFails, OtherWrites, OnDidFilesChange,
         modelVars
<1>3. CASE \E why \in Whys : Save(why)
  BY <1>3, SavesBegin
<1>4. ASSUME NEW n \in SaveSlots, SaveRuns(n)
      PROVE  SavesInv'
  <2>1. CASE DelayEnds(n) \/ CheckPasses(n) \/ WriteFile(n)
    BY <2>1, SavesGoOn
  <2>2. CASE BeginWrite(n)
    BY <2>2, SavesWrite
  <2>3. CASE GiveUpSave(n) \/ SaveSucceeds(n) \/ SaveFails(n)
    BY <2>3, SavesEnd DEF GiveUpSave, SaveSucceeds, SaveFails, Idle, modelVars
  <2> QED BY <1>4, <2>1, <2>2, <2>3 DEF SaveRuns
<1>5. CASE Resolve
  BY <1>5, SavesRead
<1>6. CASE UNCHANGED textVars
  BY <1>6, SavesStutter DEF textVars, modelVars
<1> QED BY <1>1, <1>2, <1>3, <1>4, <1>5, <1>6 DEF Next, UserActs, Reads

-----------------------------------------------------------------------------
(* Every step keeps the types, with the time that is left. *)

\* Only a change of the text or a revert makes a text.
LEMMA ModelTypesStep ==
    ASSUME TInv, [Next]_textVars
    PROVE  ModelTypes'
<1> USE DEF ModelTypes
<1>1. /\ ModelTypes /\ file.text \in Texts /\ MaxText \in Nat
      /\ reverting.discards \in Texts \cup {NoText}
      /\ resolving.stat # NoStat => resolving.content \in Texts
  BY TypeParts, Numbers, RevertTypes DEF TInv, FileTypes, ReadTypes, ReadHolds
<1>2. CASE Edit
  BY <1>1, <1>2, Numbers DEF Edit, OnModelContentChanged, Texts, history
<1>3. CASE UndoRedo
  BY <1>1, <1>3 DEF UndoRedo, OnModelContentChanged, history
<1>4. CASE Revert
  BY <1>1, <1>4 DEF Revert, modelVars
<1>5. CASE Resolve
  <2>1. reverted' \subseteq Texts /\ mislaid' = mislaid
    BY <1>1, <1>5 DEF Resolve, Discarded
  <2>2. \/ UNCHANGED modelVars
        \/ /\ text' = resolving.content /\ held' = held \cup {resolving.content}
           /\ lastText' = lastText
           /\ versionId' = versionId \/ versionId' = versionId + 1
    BY <1>5 DEF Resolve
  <2>3. resolving.content \in Texts
    BY <1>1, <1>5 DEF Resolve
  <2> QED BY <1>1, <2>1, <2>2, <2>3 DEF modelVars
<1>6. CASE ReadFails
  BY <1>1, <1>6 DEF ReadFails, modelVars
<1>10. CASE RevertResolves
  BY <1>1, <1>10 DEF RevertResolves, Discarded, modelVars
<1>7. CASE OtherWrites
  BY <1>1, <1>7, Numbers DEF OtherWrites, Texts, history
<1>8. CASE UNCHANGED <<modelVars, history>>
  BY <1>1, <1>8 DEF modelVars, history
<1>9. ASSUME NEW n \in SaveSlots, SaveRuns(n)
      PROVE  UNCHANGED <<modelVars, history>>
  BY <1>9 DEF SaveRuns, DelayEnds, GiveUpSave, BeginWrite, CheckPasses, WriteFile,
              SaveSucceeds, SaveFails
<1> QED
  BY <1>2, <1>3, <1>4, <1>5, <1>6, <1>7, <1>8, <1>9, <1>10
  DEF Next, UserActs, Reads, Save, Reload, ReadFile, OnDidFilesChange, textVars

\* The flags are only set by way of doSetDirty, by errors, and by a failed revert.
LEMMA FlagTypesStep ==
    ASSUME TInv, [Next]_textVars
    PROVE  FlagTypes'
<1> USE DEF FlagTypes
<1>1. /\ FlagTypes /\ ReadTypes /\ text \in Texts /\ text' \in Texts
      /\ resolving.stat # NoStat => resolving.content \in Texts
  BY ModelTypesStep, TypeParts DEF TInv, ModelTypes, ReadHolds
<1>2. \A d \in BOOLEAN, t \in Texts : SetDirty(d, t) => FlagTypes'
  BY <1>1 DEF SetDirty
<1>3. CASE Edit \/ UndoRedo
  BY <1>1, <1>2, <1>3 DEF Edit, UndoRedo, OnModelContentChanged
<1>4. CASE Revert
  BY <1>1, <1>2, <1>4 DEF Revert
<1>5. CASE Resolve
  BY <1>1, <1>2, <1>5 DEF Resolve, flags
<1>6. CASE ReadFails
  BY <1>1, <1>6, RevertTypes DEF ReadFails, flags, ReadTypes
<1>7. ASSUME NEW n \in SaveSlots, SaveRuns(n)
      PROVE  FlagTypes'
  <2>1. CASE DelayEnds(n) \/ GiveUpSave(n) \/ CheckPasses(n) \/ WriteFile(n)
    BY <1>1, <2>1 DEF DelayEnds, GiveUpSave, CheckPasses, WriteFile, flags
  <2>2. CASE BeginWrite(n)
    BY <1>1, <2>2 DEF BeginWrite
  <2>3. CASE SaveSucceeds(n)
    BY <1>1, <1>2, <2>3 DEF SaveSucceeds, flags
  <2>4. CASE SaveFails(n)
    BY <1>1, <2>4 DEF SaveFails
  <2> QED BY <1>7, <2>1, <2>2, <2>3, <2>4 DEF SaveRuns
<1>8. CASE UNCHANGED flags
  BY <1>1, <1>8 DEF flags
<1> QED
  BY <1>3, <1>4, <1>5, <1>6, <1>7, <1>8
  DEF Next, UserActs, Reads, Save, Reload, RevertResolves, ReadFile, OnDidFilesChange,
      OtherWrites, textVars

\* The stat is that of the file, or of the file as it was.
LEMMA StatStep ==
    ASSUME TInv, [Next]_textVars
    PROVE  lastResolvedFileStat' \in Stats
<1>1. /\ lastResolvedFileStat \in Stats /\ StatOf(file) \in Stats
      /\ resolving.stat # NoStat => resolving.stat \in Stats
  BY TypeParts, StatType DEF TInv, FileTypes, ReadTypes, ReadStates, NoRead
<1>2. ASSUME NEW n \in SaveSlots, SaveRuns(n)
      PROVE  lastResolvedFileStat' \in {lastResolvedFileStat, StatOf(file)}
  BY <1>2 DEF SaveRuns, DelayEnds, GiveUpSave, BeginWrite, CheckPasses, WriteFile,
              SaveSucceeds, SaveFails, UpdateLastResolvedFileStat
<1>3. CASE Resolve
  BY <1>1, <1>3 DEF Resolve, UpdateLastResolvedFileStat
<1>4. CASE UNCHANGED lastResolvedFileStat
  BY <1>1, <1>4
<1> QED
  BY <1>1, <1>2, <1>3, <1>4
  DEF Next, UserActs, Reads, Edit, UndoRedo, Save, Reload, Revert, RevertResolves,
      ReadFile, ReadFails, OnDidFilesChange, OtherWrites, textVars

\* Reads are counted, and what they hold is what they have read.
LEMMA ReadTypesStep ==
    ASSUME TInv, [Next]_textVars
    PROVE  ReadTypes' /\ ReloadCounted' /\ ReadHolds'
<1> USE DEF ReadTypes, ReloadCounted, ReadHolds, NotReverting
<1>1. /\ ReadTypes /\ ReloadCounted /\ ReadHolds /\ FlagTypes /\ text \in Texts
      /\ versionId \in Nat /\ lastResolvedFileStat \in Stats
      /\ StatOf(file) \in Stats /\ file.text \in Texts
  BY TypeParts, StatType DEF TInv, ModelTypes, FileTypes
<1>2. /\ NoRead \in ReadStates /\ NoRead.stat = NoStat /\ NoRead.by = "nobody"
      /\ NoRevert \in RevertStates /\ NoRevert.discards = NoText /\ ~NoRevert.waits
      /\ \A r \in RevertStates : LET w == [r EXCEPT !.waits = FALSE]
                                 IN  w \in RevertStates /\ w.discards = r.discards
  BY <1>1, NoRevertType DEF ReadStates, RevertStates, NoRead, NoRevert
<1>3. CASE OnDidFilesChange
  BY <1>1, <1>3 DEF OnDidFilesChange
<1>4. CASE Reload
  <2>1. /\ resolving = NoRead /\ reloads > 0 /\ UNCHANGED <<reverting, failedReverts>>
        /\ \/ resolving' = ReadBy("reload") /\ reloads' = reloads
           \/ resolving' = resolving /\ reloads' = reloads - 1
    BY <1>4 DEF Reload
  <2> QED BY <1>1, <1>2, <2>1, ReadByFacts
<1>5. CASE Revert
  <2>1. reloads' = reloads /\ failedReverts' = failedReverts
    BY <1>5 DEF Revert
  <2>2. \/ resolving' = resolving /\ reverting' = reverting
        \/ /\ resolving' = ReadBy("revert") /\ \E w \in BOOLEAN : reverting' = FlagsTaken(w)
        \/ /\ resolving' = resolving /\ reverting' = FlagsTaken(TRUE)
    BY <1>5, (resolving # NoRead) \in BOOLEAN DEF Revert, FlagsTaken
  <2>3. \A w \in BOOLEAN : FlagsTaken(w) \in RevertStates
    BY <1>1, RevertTypes DEF FlagTypes, FlagsTaken
  <2>4. FlagsTaken(TRUE).waits
    BY DEF FlagsTaken
  <2> QED BY <1>1, <2>1, <2>2, <2>3, <2>4, ReadByFacts
<1>6. CASE RevertResolves
  <2>1. reloads' = reloads /\ failedReverts' = failedReverts /\ resolving = NoRead
    BY <1>6 DEF RevertResolves
  <2>2. \/ resolving' = ReadBy("revert") /\ reverting' = [reverting EXCEPT !.waits = FALSE]
        \/ resolving' = resolving /\ reverting' = NoRevert
    BY <1>6 DEF RevertResolves
  <2> QED BY <1>1, <1>2, <2>1, <2>2, ReadByFacts
<1>7. CASE ReadFile
  <2>1. UNCHANGED <<reloads, reverting, failedReverts>> /\ resolving # NoRead
    BY <1>7 DEF ReadFile
  <2> QED BY <1>1, <1>7, <2>1, ReadFileFacts
<1>8. CASE ReadEnds /\ failedReverts' \in Nat
  <2>1. resolving' = NoRead /\ reloads' \in 0..2
    BY <1>1, <1>8 DEF ReadEnds
  <2>2. reverting' = IF resolving.by = "revert" THEN NoRevert ELSE reverting
    BY <1>8 DEF ReadEnds
  <2>3. reverting' \in RevertStates /\ (NotReverting' => reverting'.discards = NoText)
    BY <1>1, <1>2, <2>2
  <2> QED BY <1>1, <1>2, <1>8, <2>1, <2>3
<1>9. CASE Resolve
  BY <1>1, <1>8, <1>9 DEF Resolve
<1>10. CASE ReadFails
  BY <1>1, <1>8, <1>10 DEF ReadFails
<1>11. ASSUME NEW n \in SaveSlots, SaveRuns(n)
       PROVE  UNCHANGED readVars
  BY <1>11 DEF SaveRuns, DelayEnds, GiveUpSave, BeginWrite, CheckPasses, WriteFile,
               SaveSucceeds, SaveFails
<1>12. CASE UNCHANGED readVars
  BY <1>1, <1>12 DEF readVars
<1> QED
  BY <1>3, <1>4, <1>5, <1>6, <1>7, <1>9, <1>10, <1>11, <1>12
  DEF Next, UserActs, Reads, Edit, UndoRedo, Save, OtherWrites, textVars

\* Saves have the types of saves.
LEMMA SaveTypesStep ==
    ASSUME TInv, [Next]_textVars
    PROVE  SaveTypes'
<1>1. /\ SaveTypes /\ versionId \in Nat /\ text \in Texts
      /\ lastResolvedFileStat \in Stats /\ TypeOK /\ SavesInv
  BY TypeParts DEF TInv, ModelTypes
<1>2. ASSUME NEW why \in Whys, Save(why)
      PROVE  SaveTypes'
  <2>1. CASE pending = NoTask
    <3>1. PICK n \in SaveSlots, s \in Begun(why) :
             /\ saves' = [saves EXCEPT ![n] = s]
             /\ pending' = [id |-> versionId, cancels |-> n]
      BY <1>2, <2>1 DEF Save
    <3>2. next' = next
      BY <1>2, <2>1 DEF Save
    <3>3. s \in SaveStates
      BY <1>1, BegunType
    <3> QED BY <1>1, <3>1, <3>2, <3>3 DEF SaveTypes
  <2>2. CASE pending # NoTask
    <3>1. saves' = [n \in SaveSlots |->
                       IF n = pending.cancels THEN [saves[n] EXCEPT !.cancelled = TRUE]
                                              ELSE saves[n]]
          /\ next' = why /\ pending' = pending
      BY <1>2, <2>2 DEF Save
    <3> QED BY <1>1, <3>1, SaveGoesOn DEF SaveTypes
  <2> QED BY <2>1, <2>2
<1>3. ASSUME NEW n \in SaveSlots, SaveRuns(n)
      PROVE  SaveTypes'
  <2>1. CASE DelayEnds(n) \/ CheckPasses(n) \/ WriteFile(n)
    <3>1. pending' = pending /\ next' = next
      BY <2>1 DEF DelayEnds, CheckPasses, WriteFile
    <3>2. PICK p \in {"participants", "write", "stat"} :
             saves' = [saves EXCEPT ![n] = [saves[n] EXCEPT !.phase = p]]
      BY <2>1 DEF DelayEnds, CheckPasses, WriteFile
    <3>3. [saves[n] EXCEPT !.phase = p] \in SaveStates
      BY <1>1, SaveGoesOn DEF SaveTypes
    <3> QED BY <1>1, <3>1, <3>2, <3>3 DEF SaveTypes
  <2>2. CASE BeginWrite(n)
    <3>1. /\ next' = next /\ pending' = [id |-> versionId, cancels |-> "nobody"]
          /\ saves' = [saves EXCEPT ![n] =
                [saves[n] EXCEPT !.phase = "check", !.version = versionId,
                                 !.text = text, !.stat = lastResolvedFileStat]]
      BY <2>2 DEF BeginWrite
    <3> QED BY <1>1, <3>1, SaveGoesOn DEF SaveTypes
  <2>3. CASE GiveUpSave(n) \/ SaveSucceeds(n) \/ SaveFails(n)
    BY <1>1, <2>3, SaveEndsTypes DEF GiveUpSave, SaveSucceeds, SaveFails, Idle
  <2> QED BY <1>3, <2>1, <2>2, <2>3 DEF SaveRuns
<1>4. CASE UNCHANGED saveVars
  BY <1>1, <1>4 DEF SaveTypes, saveVars
<1> QED
  BY <1>2, <1>3, <1>4
  DEF Next, UserActs, Reads, Edit, UndoRedo, Revert, Reload, RevertResolves, ReadFile,
      Resolve, ReadFails, OtherWrites, OnDidFilesChange, textVars

\* A file that is modified has a text and a time.
LEMMA ModifyType ==
    ASSUME FileTypes, NEW t \in Texts, Modify(t), file.mtime + 1 <= MaxTime
    PROVE  FileTypes'
<1>1. file.mtime + 1 \in 0..MaxTime
  BY Numbers DEF FileTypes
<1> QED BY <1>1 DEF FileTypes, Modify

\* What is yet to be written has its time.
LEMMA FileStep ==
    ASSUME TInv, [Next]_textVars
    PROVE  FileTypes' /\ TimeLeft'
<1>1. /\ FileTypes /\ TimeLeft /\ TypeOK /\ SavesInv /\ lastText \in Texts
      /\ saves \in [SaveSlots -> SaveStates] /\ file.mtime \in Nat /\ MaxTime \in Nat
  BY TypeParts, Numbers DEF TInv, ModelTypes, SaveTypes, FileTypes
<1>2. \A n \in SaveSlots : HasToWrite(n) => ~Idle(n)
  BY DEF HasToWrite, Idle
<1>3. ASSUME NEW why \in Whys, Save(why)
      PROVE  FileTypes' /\ TimeLeft'
  <2>1. UNCHANGED fileVars
    BY <1>3 DEF Save
  <2>3. CASE next' = next /\ Running = {}
    BY <1>1, <1>3, <2>1, <2>3
    DEF Save, RoomToModify, TimeLeft, FileTypes, fileVars, HasToWrite
  <2>4. CASE next' # NoWhy /\ pending # NoTask
    <3>1. \A n \in SaveSlots : saves'[n].phase = saves[n].phase
      BY <1>1, <1>3, <2>4 DEF Save, SaveStates
    <3>2. \A n \in SaveSlots : HasToWrite(n) => Running # {}
      BY <1>2 DEF Running
    <3>3. /\ Running # {} => file.mtime + 2 <= MaxTime
          /\ file.mtime + 1 <= MaxTime
      BY <1>1, <1>3 DEF Save, RoomToModify
    <3> QED BY <1>1, <2>1, <2>4, <3>1, <3>2, <3>3
            DEF TimeLeft, FileTypes, fileVars, HasToWrite
  <2> QED BY <1>3, <2>3, <2>4, <1>1, WhysAssumption
          DEF Save, SavesInv, PendingRuns, Running, NoWhy
<1>4. ASSUME NEW n \in SaveSlots, SaveRuns(n)
      PROVE  FileTypes' /\ TimeLeft'
  <2>1. CASE DelayEnds(n) \/ CheckPasses(n) \/ BeginWrite(n)
    <3>1. UNCHANGED fileVars /\ next' = next
      BY <2>1 DEF DelayEnds, CheckPasses, BeginWrite
    <3>2. \A k \in SaveSlots : HasToWrite(k)' => HasToWrite(k)
      BY <1>1, <2>1 DEF DelayEnds, CheckPasses, BeginWrite, HasToWrite, SaveStates
    <3> QED BY <1>1, <3>1, <3>2 DEF TimeLeft, FileTypes, fileVars
  <2>2. CASE WriteFile(n)
    <3>1. /\ Modify(saves[n].text) /\ next' = next /\ HasToWrite(n)
          /\ saves[n].text \in Texts
      BY <1>1, <2>2 DEF WriteFile, HasToWrite, SaveStates
    <3>2. file.mtime + 1 + (IF next = NoWhy THEN 0 ELSE 1) <= MaxTime
      BY <1>1, <3>1 DEF TimeLeft
    <3>3. file.mtime + 1 <= MaxTime
      BY <1>1, <3>2
    <3>4. FileTypes'
      BY <1>1, <3>1, <3>3, ModifyType
    <3>5. \A k \in SaveSlots : ~HasToWrite(k)'
      BY <1>1, <2>2 DEF WriteFile, HasToWrite, SaveStates, SavesInv, OneRuns, Idle
    <3> QED BY <1>1, <3>1, <3>2, <3>4, <3>5 DEF TimeLeft, Modify
  <2>3. CASE GiveUpSave(n) \/ SaveSucceeds(n) \/ SaveFails(n)
    <3>1. UNCHANGED fileVars /\ SaveEnds(n) /\ ~Idle(n)
      BY <2>3 DEF GiveUpSave, SaveSucceeds, SaveFails, Idle
    <3>2. /\ next' = NoWhy
          /\ \A k \in SaveSlots : HasToWrite(k)' => next # NoWhy
      BY <1>1, <3>1, SaveEndsFacts, SaveEndsRuns DEF HasToWrite, Idle
    <3>3. next # NoWhy => file.mtime + 1 <= MaxTime
      BY <1>1 DEF TimeLeft
    <3> QED BY <1>1, <3>1, <3>2, <3>3 DEF TimeLeft, FileTypes, fileVars
  <2> QED BY <1>4, <2>1, <2>2, <2>3 DEF SaveRuns
<1>5. CASE OtherWrites
  <2>1. /\ Modify(lastText + 1) /\ UNCHANGED saveVars /\ lastText + 1 \in Texts
    BY <1>1, <1>5, Numbers DEF OtherWrites, Texts
  <2>2. file.mtime + (IF Running = {} THEN 0 ELSE 1)
             + (IF next = NoWhy THEN 0 ELSE 1) < MaxTime
    BY <1>5 DEF OtherWrites, RoomToModify
  <2>3. FileTypes'
    BY <1>1, <2>1, <2>2, ModifyType
  <2>4. \A k \in SaveSlots : HasToWrite(k)' => HasToWrite(k) /\ Running # {}
    BY <1>2, <2>1 DEF HasToWrite, Running, saveVars
  <2> QED BY <1>1, <2>1, <2>2, <2>3, <2>4 DEF TimeLeft, Modify, saveVars
<1>6. CASE UNCHANGED <<saveVars, file, onDisk>> /\ fileChanged' \in BOOLEAN
  BY <1>1, <1>6 DEF TimeLeft, FileTypes, saveVars, HasToWrite
<1>7. CASE UNCHANGED <<saveVars, fileVars>>
  BY <1>1, <1>7 DEF TimeLeft, FileTypes, saveVars, fileVars, HasToWrite
<1> QED
  BY <1>3, <1>4, <1>5, <1>6, <1>7
  DEF Next, UserActs, Reads, Edit, UndoRedo, Revert, Reload, RevertResolves, ReadFile,
      Resolve, ReadFails, OnDidFilesChange, textVars

-----------------------------------------------------------------------------
(* Every step keeps the flags true. *)

\* A save of the version of now has the text of now.
LEMMA WritesVersionStep ==
    ASSUME TInv, [Next]_textVars
    PROVE  WritesVersion'
<1>1. /\ WritesVersion /\ TypeOK /\ SavesInv /\ saves \in [SaveSlots -> SaveStates]
      /\ versionId \in Nat
      /\ \A n \in SaveSlots : ~Idle(n) => saves[n].version \in Nat
                                            /\ saves[n].version <= versionId
  BY DEF TInv, TypeOK, SavesInv, PendingRuns, SaveStates
<1>2. ASSUME UNCHANGED saves, onDisk \subseteq onDisk',
             \/ UNCHANGED <<text, versionId>>
             \/ versionId' = versionId + 1
      PROVE  WritesVersion'
  BY <1>1, <1>2 DEF WritesVersion, Idle
<1>3. ASSUME NEW why \in Whys, Save(why)
      PROVE  WritesVersion'
  <2>1. UNCHANGED <<text, versionId, onDisk>>
    BY <1>3 DEF Save, modelVars, fileVars
  <2>2. CASE pending = NoTask
    <3>1. PICK n \in SaveSlots, s \in Begun(why) : saves' = [saves EXCEPT ![n] = s]
      BY <1>3, <2>2 DEF Save
    <3>2. s.phase \in {"delay", "participants"}
      BY <1>1, BegunType
    <3> QED BY <1>1, <2>1, <3>1, <3>2 DEF WritesVersion
  <2>3. CASE pending # NoTask
    <3>1. \A k \in SaveSlots : /\ saves'[k].phase = saves[k].phase
                               /\ saves'[k].version = saves[k].version
                               /\ saves'[k].text = saves[k].text
      BY <1>1, <1>3, <2>3 DEF Save, SaveStates
    <3> QED BY <1>1, <2>1, <3>1 DEF WritesVersion
  <2> QED BY <2>2, <2>3
<1>4. ASSUME NEW n \in SaveSlots, SaveRuns(n)
      PROVE  WritesVersion'
  <2>1. CASE DelayEnds(n) \/ CheckPasses(n) \/ BeginWrite(n) \/ WriteFile(n)
    <3>1. UNCHANGED <<text, versionId>> /\ onDisk \subseteq onDisk'
      BY <2>1 DEF DelayEnds, CheckPasses, BeginWrite, WriteFile, Modify, modelVars, fileVars
    <3>2. \A k \in SaveSlots \ {n} : saves'[k] = saves[k]
      BY <1>1, <2>1 DEF DelayEnds, CheckPasses, BeginWrite, WriteFile
    <3>3. /\ saves'[n].phase \in {"check", "write", "stat"}
                /\ saves'[n].version = versionId => saves'[n].text = text
          /\ saves'[n].phase = "stat" => saves'[n].text \in onDisk'
      <4>1. CASE DelayEnds(n)
        BY <1>1, <4>1 DEF DelayEnds, SaveStates
      <4>2. CASE BeginWrite(n)
        BY <1>1, <4>2 DEF BeginWrite, SaveStates
      <4>3. CASE CheckPasses(n)
        BY <1>1, <4>3 DEF CheckPasses, SaveStates, WritesVersion
      <4>4. CASE WriteFile(n)
        BY <1>1, <4>4 DEF WriteFile, Modify, SaveStates, WritesVersion
      <4> QED BY <2>1, <4>1, <4>2, <4>3, <4>4
    <3> QED BY <1>1, <3>1, <3>2, <3>3 DEF WritesVersion
  <2>2. CASE GiveUpSave(n) \/ SaveSucceeds(n) \/ SaveFails(n)
    <3>1. SaveEnds(n) /\ ~Idle(n)
      BY <2>2 DEF GiveUpSave, SaveSucceeds, SaveFails, Idle
    <3>2. \A k \in SaveSlots : saves'[k].phase \in {"idle", "delay", "participants"}
      BY <1>1, <3>1, SaveEndsRuns DEF Idle
    <3> QED BY <3>2 DEF WritesVersion
  <2> QED BY <1>4, <2>1, <2>2 DEF SaveRuns
<1>5. CASE Edit \/ UndoRedo
  BY <1>2, <1>5 DEF Edit, UndoRedo, OnModelContentChanged, saveVars, fileVars
<1>6. CASE Resolve
  <2>1. UNCHANGED <<saves, onDisk>>
    BY <1>6 DEF Resolve, saveVars, fileVars
  <2>2. UNCHANGED <<text, versionId>> \/ versionId' = versionId + 1
    BY <1>6 DEF Resolve, modelVars
  <2> QED BY <1>2, <2>1, <2>2
<1>7. CASE OtherWrites
  BY <1>2, <1>7 DEF OtherWrites, Modify, saveVars
<1>8. CASE Revert \/ Reload \/ RevertResolves \/ ReadFile \/ ReadFails \/ OnDidFilesChange
  BY <1>2, <1>8 DEF Revert, Reload, RevertResolves, ReadFile, ReadFails, OnDidFilesChange,
                    saveVars, fileVars, modelVars
<1>9. CASE UNCHANGED textVars
  BY <1>2, <1>9 DEF textVars, saveVars, fileVars, modelVars
<1> QED
  BY <1>3, <1>4, <1>5, <1>6, <1>7, <1>8, <1>9 DEF Next, UserActs, Reads

\* What is on disk, discarded or mislaid stays so.
LEMMA SettledGrows ==
    ASSUME [Next]_textVars
    PROVE  /\ onDisk \subseteq onDisk' /\ reverted \subseteq reverted'
           /\ mislaid \subseteq mislaid'
<1>1. ASSUME NEW n \in SaveSlots, SaveRuns(n)
      PROVE  onDisk \subseteq onDisk' /\ UNCHANGED history
  BY <1>1 DEF SaveRuns, DelayEnds, GiveUpSave, BeginWrite, CheckPasses, WriteFile,
              SaveSucceeds, SaveFails, Modify, fileVars
<1>2. CASE Revert \/ ReadFails
  BY <1>2 DEF Revert, ReadFails, fileVars
<1>3. CASE OtherWrites
  BY <1>3 DEF OtherWrites, Modify, history
<1>4. CASE RevertResolves \/ Resolve
  BY <1>4 DEF RevertResolves, Resolve, Discarded, fileVars
<1> QED
  BY <1>1, <1>2, <1>3, <1>4
  DEF Next, UserActs, Reads, Edit, UndoRedo, Save, Reload, ReadFile, OnDidFilesChange,
      history, fileVars, textVars

\* Unless a revert fails, its text stays one that is, or will be, discarded.
LEMMA DiscardsGrow ==
    ASSUME TInv, [Next]_textVars, ~(resolving.by = "revert" /\ ReadFails)
    PROVE  {reverting.discards} \ {NoText}
              \subseteq reverted' \cup ({reverting'.discards} \ {NoText})
<1> DEFINE D == {reverting.discards} \ {NoText}
<1> SUFFICES D \subseteq reverted' \cup ({reverting'.discards} \ {NoText})
  OBVIOUS
<1>1. CASE UNCHANGED reverting
  BY <1>1
<1>2. CASE Revert
  BY <1>2 DEF Revert, TInv, ReadHolds
<1>3. CASE RevertResolves
  <2>1. \/ reverting' = [reverting EXCEPT !.waits = FALSE]
        \/ reverted' = reverted \cup D
    BY <1>3 DEF RevertResolves, Discarded
  <2> QED BY <2>1 DEF TInv, TypeOK, RevertStates
<1>4. CASE Resolve
  BY <1>4 DEF Resolve, ReadEnds, Discarded
<1>5. CASE ReadFails
  BY <1>5 DEF ReadFails, ReadEnds
<1>6. ASSUME NEW n \in SaveSlots, SaveRuns(n)
      PROVE  UNCHANGED reverting
  BY <1>6 DEF SaveRuns, DelayEnds, GiveUpSave, BeginWrite, CheckPasses, WriteFile,
              SaveSucceeds, SaveFails, readVars
<1> QED
  BY <1>1, <1>2, <1>3, <1>4, <1>5, <1>6
  DEF Next, UserActs, Reads, Edit, UndoRedo, Save, Reload, ReadFile, OtherWrites,
      OnDidFilesChange, readVars, textVars

LEMMA KnownGrows ==
    ASSUME TInv, [Next]_textVars, ~(resolving.by = "revert" /\ ReadFails)
    PROVE  Known \subseteq Known'
BY SettledGrows, DiscardsGrow DEF Known, Settled

\* A text that a clean model has is known.
LEMMA CleanIsKnown ==
    ASSUME text \in Texts
    PROVE  CleanWasSaved <=> (~dirty => text \in Known)
BY Numbers DEF CleanWasSaved, Dispensable, Known, Settled

\* A model that becomes clean has a known text, which it takes for that of the
\* file; one that is dirty keeps the text it takes for that.
LEMMA SetDirtyTrue ==
    ASSUME NEW d \in BOOLEAN, NEW t, SetDirty(d, t), bufferSavedVersionId \in Known,
           Known \subseteq Known', FlagsTrue, ~d => text' = t /\ t \in Known'
    PROVE  FlagsTrue' /\ bufferSavedVersionId' \in Known'
<1>1. Known' \subseteq Dispensable'
  BY DEF Known, Settled, Dispensable
<1> QED BY <1>1 DEF SetDirty, FlagsTrue, CleanWasSaved, ConflictIsDirty

\* What is in the file has been there.
LEMMA FileOnDisk ==
    ASSUME file.text \in onDisk, [Next]_textVars
    PROVE  file'.text \in onDisk'
<1>1. ASSUME NEW n \in SaveSlots, SaveRuns(n)
      PROVE  UNCHANGED <<file, onDisk>> \/ file'.text \in onDisk'
  <2>1. CASE WriteFile(n)
    BY <2>1 DEF WriteFile, Modify
  <2>2. CASE ~WriteFile(n)
    BY <1>1, <2>2 DEF SaveRuns, DelayEnds, GiveUpSave, BeginWrite, CheckPasses,
                      SaveSucceeds, SaveFails, fileVars
  <2> QED BY <2>1, <2>2
<1>2. CASE OtherWrites
  BY <1>2 DEF OtherWrites, Modify
<1>3. CASE Edit \/ UndoRedo \/ (\E why \in Whys : Save(why)) \/ UNCHANGED textVars
  BY <1>3 DEF Edit, UndoRedo, Save, fileVars, textVars
<1>4. CASE Revert
  BY <1>4 DEF Revert, fileVars
<1>5. CASE Reads
  <2>1. UNCHANGED fileVars
    BY <1>5 DEF Reads, Reload, RevertResolves, ReadFile, Resolve, ReadFails
  <2> QED BY <2>1 DEF fileVars
<1>6. CASE OnDidFilesChange
  BY <1>6 DEF OnDidFilesChange
<1> QED BY <1>1, <1>2, <1>3, <1>4, <1>5, <1>6 DEF Next, UserActs

\* The flags that a revert took, and the text it discards.
LEMMA RevertingStep ==
    ASSUME IInv, [Next]_textVars
    PROVE  /\ reverting'.oldBufferSavedVersionId \in Settled'
           /\ reverting'.wasInConflictMode \/ reverting'.wasInErrorMode
                 => reverting'.wasDirty
<1>1. /\ SavedIsKnown /\ FlagsTrue /\ ReadHolds /\ Settled \subseteq Settled'
      /\ reverting \in RevertStates /\ 0 \in Settled'
  BY SettledGrows DEF IInv, TInv, TypeOK, SavedIsKnown, Settled
<1>2. CASE reverting' = reverting \/ reverting' = NoRevert
  BY <1>1, <1>2 DEF NoRevert, SavedIsKnown
<1>3. CASE RevertResolves
  BY <1>1, <1>2, <1>3 DEF RevertResolves, SavedIsKnown, RevertStates
<1>4. CASE Revert
  <2>1. \/ reverting' = reverting
        \/ /\ reverting'.wasDirty = dirty
           /\ reverting'.wasInConflictMode = inConflictMode
           /\ reverting'.wasInErrorMode = inErrorMode
           /\ reverting'.oldBufferSavedVersionId = bufferSavedVersionId
    BY <1>4, RevertTakes DEF FlagsTaken
  <2>2. bufferSavedVersionId \in Settled
    BY <1>1, <1>4 DEF Revert, ReadHolds, SavedIsKnown, Known
  <2> QED BY <1>1, <1>2, <2>1, <2>2 DEF FlagsTrue, ConflictIsDirty
<1>5. ASSUME NEW n \in SaveSlots, SaveRuns(n)
      PROVE  reverting' = reverting
  BY <1>5 DEF SaveRuns, DelayEnds, GiveUpSave, BeginWrite, CheckPasses, WriteFile,
              SaveSucceeds, SaveFails, readVars
<1>6. CASE Resolve \/ ReadFails
  BY <1>2, <1>6 DEF Resolve, ReadFails, ReadEnds
<1> QED
  BY <1>2, <1>3, <1>4, <1>5, <1>6
  DEF Next, UserActs, Reads, Edit, UndoRedo, Save, Reload, ReadFile, OtherWrites,
      OnDidFilesChange, readVars, textVars

\* The text that a revert takes is the one it discards.
LEMMA RevertKnows ==
    ASSUME Revert, text \in Texts
    PROVE  text \in reverted' \cup ({reverting'.discards} \ {NoText})
<1>1. reverted' = reverted \cup {text} \/ reverting'.discards = text
  <2>1. \A w \in BOOLEAN : FlagsTaken(w).discards = text
    BY DEF FlagsTaken
  <2>2. reverted' = reverted \cup {text} \/ \E w \in BOOLEAN : reverting' = FlagsTaken(w)
    BY (resolving # NoRead) \in BOOLEAN DEF Revert, FlagsTaken
  <2> QED BY <2>1, <2>2
<1>2. text # NoText
  BY Numbers
<1> QED BY <1>1, <1>2

\* A revert that fails gives the flags back.
LEMMA FlagsGivenBack ==
    ASSUME IInv, [Next]_textVars, resolving.by = "revert", ReadFails
    PROVE  FlagsTrue' /\ bufferSavedVersionId' \in Known'
<1>1. SavedIsKnown /\ Settled \subseteq Settled'
  BY SettledGrows DEF IInv, Settled
<1>2. bufferSavedVersionId' \in Known'
  BY <1>1 DEF ReadFails, SavedIsKnown, Known
<1>3. dirty' \/ text' \in mislaid'
  BY DEF ReadFails, modelVars
<1> QED BY <1>1, <1>2, <1>3 DEF ReadFails, SavedIsKnown, FlagsTrue, CleanWasSaved,
                                ConflictIsDirty, Dispensable

\* The file and the flags.
LEMMA FlagsStep ==
    ASSUME IInv, [Next]_textVars
    PROVE  SavedIsKnown' /\ FlagsTrue'
<1>1. /\ SavedIsKnown /\ FlagsTrue /\ WritesVersion /\ ReadIsKnown /\ text \in Texts
      /\ onDisk \subseteq onDisk' /\ onDisk' \subseteq Known' /\ FlagTypes
  BY SettledGrows, TypeParts DEF IInv, TInv, Known, Settled, ModelTypes
<1>2. file'.text \in onDisk' /\ 0 \in onDisk'
  BY <1>1, FileOnDisk DEF SavedIsKnown
<1>3. ASSUME Known \subseteq Known'
      PROVE  FlagsTrue' /\ bufferSavedVersionId' \in Known'
  <2>0. bufferSavedVersionId \in Known
    BY <1>1 DEF SavedIsKnown
  <2>1. ASSUME UNCHANGED <<flags, text>>
        PROVE  FlagsTrue' /\ bufferSavedVersionId' \in Known'
    <3>1. ~dirty => text \in Known
      BY <1>1, CleanIsKnown DEF FlagsTrue
    <3>2. Known' \subseteq Dispensable'
      BY DEF Known, Settled, Dispensable
    <3> QED BY <1>1, <1>3, <2>0, <2>1, <3>1, <3>2
            DEF flags, FlagsTrue, CleanWasSaved, ConflictIsDirty
  <2>2. CASE Edit \/ UndoRedo
    <3>1. PICK t : text' = t /\ SetDirty(t # bufferSavedVersionId, t)
      BY <2>2 DEF Edit, UndoRedo, OnModelContentChanged
    <3>2. t = bufferSavedVersionId => t \in Known'
      BY <1>3, <2>0
    <3> QED BY <1>1, <1>3, <2>0, <3>1, <3>2, SetDirtyTrue
  <2>3. CASE Revert
    <3>1. text' = text /\ SetDirty(FALSE, text) /\ text \in Known'
      BY <1>1, <2>3, RevertKnows DEF Revert, modelVars, Known, Settled
    <3> QED BY <1>1, <1>3, <2>0, <3>1, SetDirtyTrue
  <2>4. CASE Resolve
    <3>1. \/ UNCHANGED <<flags, text>>
          \/ text' = resolving.content /\ SetDirty(FALSE, resolving.content)
      BY <2>4 DEF Resolve, modelVars
    <3>2. resolving.content \in Known'
      BY <1>1, <2>4 DEF Resolve, ReadIsKnown
    <3> QED BY <1>1, <1>3, <2>0, <2>1, <3>1, <3>2, SetDirtyTrue
  <2>5. CASE ReadFails
    <3>1. CASE resolving.by = "revert"
      BY <2>5, <3>1, FlagsGivenBack
    <3>2. CASE resolving.by # "revert"
      BY <2>1, <2>5, <3>2 DEF ReadFails, modelVars
    <3> QED BY <3>1, <3>2
  <2>6. ASSUME NEW n \in SaveSlots, SaveRuns(n)
        PROVE  FlagsTrue' /\ bufferSavedVersionId' \in Known'
    <3>1. CASE DelayEnds(n) \/ GiveUpSave(n) \/ CheckPasses(n) \/ WriteFile(n)
      BY <2>1, <3>1 DEF DelayEnds, GiveUpSave, CheckPasses, WriteFile, modelVars
    <3>2. CASE BeginWrite(n)
      <4>1. Known' \subseteq Dispensable' /\ (~dirty => text \in Known)
        BY <1>1, CleanIsKnown DEF FlagsTrue, Known, Settled, Dispensable
      <4>2. /\ text' = text /\ bufferSavedVersionId' = bufferSavedVersionId
            /\ dirty' = dirty /\ inConflictMode' = inConflictMode /\ inErrorMode' = FALSE
        BY <3>2 DEF BeginWrite, modelVars
      <4> QED BY <1>1, <1>3, <2>0, <4>1, <4>2 DEF FlagsTrue, CleanWasSaved, ConflictIsDirty
    <3>3. CASE SaveSucceeds(n)
      <4>1. CASE saves[n].version = versionId
        <5>1. text \in onDisk
          BY <1>1, <3>3, <4>1 DEF SaveSucceeds, WritesVersion
        <5> QED BY <1>1, <1>3, <2>0, <3>3, <4>1, <5>1, SetDirtyTrue
                DEF SaveSucceeds, modelVars
      <4>2. CASE saves[n].version # versionId
        BY <2>1, <3>3, <4>2 DEF SaveSucceeds, modelVars
      <4> QED BY <4>1, <4>2
    <3>4. CASE SaveFails(n)
      <4>1. dirty' /\ bufferSavedVersionId' = bufferSavedVersionId
        BY <3>4 DEF SaveFails
      <4> QED BY <1>3, <2>0, <4>1 DEF FlagsTrue, CleanWasSaved, ConflictIsDirty
    <3> QED BY <2>6, <3>1, <3>2, <3>3, <3>4 DEF SaveRuns
  <2> QED
    BY <2>1, <2>2, <2>3, <2>4, <2>5, <2>6
    DEF Next, UserActs, Reads, Save, Reload, RevertResolves, ReadFile, OtherWrites,
        OnDidFilesChange, modelVars, textVars
<1>4. FlagsTrue' /\ bufferSavedVersionId' \in Known'
  <2>1. CASE resolving.by = "revert" /\ ReadFails
    BY <2>1, FlagsGivenBack
  <2>2. CASE ~(resolving.by = "revert" /\ ReadFails)
    BY <1>3, <2>2, KnownGrows DEF IInv
  <2> QED BY <2>1, <2>2
<1> QED BY <1>2, <1>4, RevertingStep DEF SavedIsKnown

\* A read begins with a text that is known, and so does a revert of any text.
LEMMA ReadIsKnownStep ==
    ASSUME IInv, [Next]_textVars
    PROVE  ReadIsKnown'
<1>1. /\ ReadIsKnown /\ TypeOK /\ text \in Texts /\ versionId \in Nat /\ file.text \in onDisk
      /\ resolving.version \in Int /\ onDisk \subseteq onDisk'
      /\ lastResolvedFileStat \in Stats /\ resolving \in ReadStates
      /\ StatOf(file) \in Stats /\ file.text \in Texts
  BY SettledGrows, StatType DEF IInv, TInv, TypeOK, SavedIsKnown, ReadStates, NoRead
<1>2. ~dirty => text \in Known
  BY <1>1, CleanIsKnown DEF IInv, FlagsTrue
<1>3. ASSUME resolving' = NoRead, versionId' \in Nat
      PROVE  ReadIsKnown'
  BY <1>3 DEF ReadIsKnown, NoRead
<1>4. ASSUME resolving' = resolving, Known \subseteq Known',
             \/ UNCHANGED <<text, versionId>>
             \/ versionId' = versionId + 1
      PROVE  ReadIsKnown'
  BY <1>1, <1>4 DEF ReadIsKnown
<1>5. ASSUME resolving' \in {ReadBy("reload"), ReadBy("revert")},
             UNCHANGED <<text, versionId>>, text \in Known'
      PROVE  ReadIsKnown'
  BY <1>1, <1>5, ReadByFacts DEF ReadIsKnown
<1>6. ASSUME ~(resolving.by = "revert" /\ ReadFails)
      PROVE  Known \subseteq Known'
  BY <1>6, KnownGrows DEF IInv
<1>7. CASE Edit \/ UndoRedo
  BY <1>4, <1>6, <1>7
  DEF Edit, UndoRedo, OnModelContentChanged, readVars, ReadFails, ReadEnds
<1>8. CASE Reload \/ RevertResolves
  <2>1. UNCHANGED <<text, versionId>> /\ resolving = NoRead
    BY <1>8 DEF Reload, RevertResolves, modelVars
  <2>2. Known \subseteq Known'
    BY <1>6, <2>1 DEF NoRead
  <2>3. \/ ~dirty /\ resolving' \in {ReadBy("reload"), ReadBy("revert")}
        \/ resolving' = resolving
    BY <1>8 DEF Reload, RevertResolves, MayResolve
  <2> QED BY <1>2, <1>4, <1>5, <2>1, <2>2, <2>3
<1>9. CASE Revert
  <2>1. UNCHANGED <<text, versionId>> /\ text \in Known' /\ resolving.by # "revert"
    BY <1>1, <1>9, RevertKnows DEF Revert, modelVars, NotReverting, Known, Settled
  <2>2. resolving' = ReadBy("revert") \/ resolving' = resolving
    BY <1>9 DEF Revert
  <2> QED BY <1>4, <1>5, <1>6, <2>1, <2>2
<1>10. CASE ReadFile
  <2>1. UNCHANGED <<text, versionId, reverting>> /\ Settled \subseteq Settled'
    BY <1>10, SettledGrows DEF ReadFile, modelVars, Settled
  <2>2. Known \subseteq Known' /\ resolving # NoRead
    BY <1>10, <2>1 DEF Known, ReadFile
  <2> QED BY <1>1, <1>10, <2>1, <2>2, ReadFileFacts DEF ReadIsKnown
<1>11. CASE Resolve \/ ReadFails
  <2>1. resolving' = NoRead
    BY <1>11 DEF Resolve, ReadFails, ReadEnds
  <2>2. versionId' \in {versionId, versionId + 1}
    BY <1>11 DEF Resolve, ReadFails, modelVars
  <2> QED BY <1>1, <1>3, <2>1, <2>2
<1>12. ASSUME NEW n \in SaveSlots, SaveRuns(n)
       PROVE  UNCHANGED <<modelVars, readVars>>
  BY <1>12 DEF SaveRuns, DelayEnds, GiveUpSave, BeginWrite, CheckPasses, WriteFile,
               SaveSucceeds, SaveFails
<1>13. CASE UNCHANGED <<modelVars, readVars>>
  <2>1. UNCHANGED <<text, versionId, reverting, resolving>> /\ Settled \subseteq Settled'
    BY <1>13, SettledGrows DEF modelVars, readVars, Settled
  <2> QED BY <1>4, <2>1 DEF Known
<1>14. CASE OtherWrites \/ OnDidFilesChange
  <2>1. UNCHANGED <<text, versionId, reverting, resolving>> /\ Settled \subseteq Settled'
    BY <1>14, SettledGrows DEF OtherWrites, OnDidFilesChange, modelVars, readVars, Settled
  <2> QED BY <1>4, <2>1 DEF Known
<1> QED
  BY <1>7, <1>8, <1>9, <1>10, <1>11, <1>12, <1>13, <1>14
  DEF Next, UserActs, Reads, Save, textVars

-----------------------------------------------------------------------------
(* The theorems. *)

\* The parts put together.
LEMMA TInvStep ==
    ASSUME TInv, [Next]_textVars
    PROVE  TInv'
<1>1. TypeOK'
  <2>1. /\ ModelTypes' /\ FlagTypes' /\ lastResolvedFileStat' \in Stats
        /\ SaveTypes' /\ ReadTypes' /\ FileTypes'
    BY ModelTypesStep, FlagTypesStep, StatStep, SaveTypesStep, ReadTypesStep, FileStep
  <2> QED
    BY <2>1 DEF TypeOK, ModelTypes, FlagTypes, SaveTypes, ReadTypes, FileTypes
<1>2. SavesInv'
  BY SavesStep DEF TInv
<1> QED BY <1>1, <1>2, WritesVersionStep, FileStep, ReadTypesStep DEF TInv

\* The invariant of the text file.
LEMMA Inductive == Spec => []IInv
<1>1. IInv /\ [Next]_textVars => IInv'
  BY TInvStep, FlagsStep, ReadIsKnownStep DEF IInv
<1> QED BY <1>1, InitHolds, PTL DEF Spec

\* What the model of a text file remembers has its types: in particular the
\* reloads that are counted are those that run or wait, never fewer.
THEOREM TypeCorrect == Spec => []TypeOK
BY Inductive, PTL DEF IInv, TInv

\* No two saves write at once (saveSequentializer in doSave).
THEOREM OnlyOneWrites == Spec => []OneSaveWrites
<1>1. IInv => OneSaveWrites
  BY DEF IInv, TInv, SavesInv, OneRuns, OneSaveWrites, Idle
<1> QED BY <1>1, Inductive, PTL

\* A clean text was saved or discarded, and a conflict keeps the text dirty
\* (handleSaveSuccess, revert and resolveFromFile).
THEOREM FlagsAreTrue == Spec => []FlagsTrue
BY Inductive, PTL DEF IInv

\* A read replaces no text that was not saved before: it returns early if the
\* text changed while the file was read, however many edits, undos, saves, reverts
\* and writes of other programs came between its begin and its end
\* (resolveFromFile).
THEOREM ReadsKeepTexts == Spec => ReadsLoseNothing
<1>1. ASSUME IInv, [Next]_textVars, resolving # NoRead, resolving' = NoRead, text' # text
      PROVE  text \in Dispensable
  <2>1. CASE Resolve
    <3>1. resolving.version = versionId
      BY <1>1, <2>1 DEF Resolve, ChangedMeanwhile, modelVars
    <3> QED BY <1>1, <3>1 DEF IInv, ReadIsKnown, Known, Settled, Dispensable
  <2>2. CASE ReadFile
    BY <1>1, <2>2 DEF ReadFile, modelVars
  <2>3. ASSUME NEW n \in SaveSlots, SaveRuns(n)
        PROVE  UNCHANGED modelVars
    BY <2>3 DEF SaveRuns, DelayEnds, GiveUpSave, BeginWrite, CheckPasses, WriteFile,
                SaveSucceeds, SaveFails
  <2> QED
    BY <1>1, <2>1, <2>2, <2>3
    DEF Next, UserActs, Reads, Edit, UndoRedo, Save, Revert, Reload, RevertResolves,
        ReadFails, OtherWrites, OnDidFilesChange, modelVars, readVars, textVars
<1>2. IInv /\ [Next]_textVars =>
        [resolving # NoRead /\ resolving' = NoRead /\ text' # text
            => text \in Dispensable]_textVars
  BY <1>1
<1> QED BY <1>2, Inductive, PTL DEF Spec, ReadsLoseNothing

-----------------------------------------------------------------------------
(* What waits. *)

\* A task that is pending has a save that runs.
PendingHasRun == pending # NoTask => \E n \in SaveSlots : ~Idle(n)

WaitsForARun == next # NoWhy => \E n \in SaveSlots : ~Idle(n)

\* A save that ends lets none wait; it takes its pending task with it, or hands
\* it to the save that begins.
LEMMA EndHandsOn ==
    ASSUME TypeOK, SavesInv, NEW n \in SaveSlots,
           GiveUpSave(n) \/ SaveSucceeds(n) \/ SaveFails(n)
    PROVE  next' = NoWhy /\ PendingHasRun'
<1>1. ~Idle(n) /\ SaveEnds(n)
  BY DEF GiveUpSave, SaveSucceeds, SaveFails, Idle
<1>2. saves \in [SaveSlots -> SaveStates] /\ versionId \in Nat
  BY DEF TypeOK
<1>3. CASE pending' = NoTask
  BY <1>1, <1>3, SaveEndsFacts DEF PendingHasRun
<1>4. ASSUME NEW m \in SaveSlots \ {n}, NEW s \in Begun(next), next \in Whys,
             saves' = [saves EXCEPT ![n] = NoSave, ![m] = s]
      PROVE  ~Idle(m)'
  <2>1. s.phase \in {"delay", "participants"}
    BY <1>2, <1>4, BegunType
  <2> QED BY <1>2, <1>4, <2>1 DEF Idle
<1> QED BY <1>1, <1>3, <1>4, SaveEndsFacts DEF PendingHasRun

\* Any other step of a save leaves it running.
LEMMA GoesOnRunning ==
    ASSUME TypeOK, NEW n \in SaveSlots,
           DelayEnds(n) \/ BeginWrite(n) \/ CheckPasses(n) \/ WriteFile(n)
    PROVE  \A k \in SaveSlots : Idle(k)' <=> Idle(k)
<1>1. saves \in [SaveSlots -> SaveStates] /\ ~Idle(n)
  BY DEF TypeOK, DelayEnds, BeginWrite, CheckPasses, WriteFile, Idle
<1>2. /\ \A k \in SaveSlots : k # n => saves'[k] = saves[k]
      /\ saves'[n].phase \in {"participants", "check", "write", "stat"}
  BY <1>1 DEF DelayEnds, BeginWrite, CheckPasses, WriteFile, SaveStates
<1> QED BY <1>1, <1>2 DEF Idle

\* A save that is asked for runs, or waits for one.
LEMMA AskedRuns ==
    ASSUME TypeOK, PendingHasRun, NEW why \in Whys, Save(why)
    PROVE  /\ PendingHasRun'
           /\ \A k \in SaveSlots : ~Idle(k) => ~Idle(k)'
<1>1. versionId \in Nat /\ saves \in [SaveSlots -> SaveStates]
  BY DEF TypeOK
<1>2. CASE pending = NoTask
  <2>1. PICK n \in SaveSlots, s \in Begun(why) :
           Idle(n) /\ saves' = [saves EXCEPT ![n] = s]
    BY <1>2 DEF Save
  <2>2. s.phase \in {"delay", "participants"}
    BY <1>1, <2>1, BegunType
  <2> QED BY <1>1, <2>1, <2>2 DEF PendingHasRun, Idle
<1>3. CASE pending # NoTask
  <2>1. saves' = [n \in SaveSlots |->
                     IF n = pending.cancels THEN [saves[n] EXCEPT !.cancelled = TRUE]
                                            ELSE saves[n]]
    BY <1>3 DEF Save
  <2>2. \A k \in SaveSlots : saves'[k].phase = saves[k].phase
    BY <1>1, <2>1 DEF SaveStates
  <2> QED BY <1>3, <2>2 DEF PendingHasRun, Idle
<1> QED BY <1>2, <1>3

\* Only the end of a save makes a slot idle, and it lets no save wait.
LEMMA WaitStep ==
    ASSUME TypeOK, SavesInv, PendingHasRun, [Next]_textVars
    PROVE  /\ PendingHasRun'
           /\ \A k \in SaveSlots : ~Idle(k) /\ Idle(k)' => next' = NoWhy
<1>1. CASE UNCHANGED saveVars
  BY <1>1 DEF saveVars, PendingHasRun, Idle
<1>2. CASE \E why \in Whys : Save(why)
  BY <1>2, AskedRuns
<1>3. ASSUME NEW n \in SaveSlots, SaveRuns(n)
      PROVE  /\ PendingHasRun'
             /\ \A k \in SaveSlots : ~Idle(k) /\ Idle(k)' => next' = NoWhy
  <2>1. CASE GiveUpSave(n) \/ SaveSucceeds(n) \/ SaveFails(n)
    BY <2>1, EndHandsOn
  <2>2. CASE DelayEnds(n) \/ BeginWrite(n) \/ CheckPasses(n) \/ WriteFile(n)
    <3>1. \A k \in SaveSlots : Idle(k)' <=> Idle(k)
      BY <2>2, GoesOnRunning
    <3>2. ~Idle(n)
      BY <2>2 DEF DelayEnds, BeginWrite, CheckPasses, WriteFile, Idle
    <3> QED BY <3>1, <3>2 DEF PendingHasRun
  <2> QED BY <1>3, <2>1, <2>2 DEF SaveRuns
<1> QED
  BY <1>1, <1>2, <1>3
  DEF Next, UserActs, Reads, Edit, UndoRedo, Revert, Reload, RevertResolves, ReadFile,
      Resolve, ReadFails, OtherWrites, OnDidFilesChange, textVars

\* A save that waits has a save to wait for (TaskSequentializer.setNext): there
\* is never a next save without one that runs.
THEOREM WaitersHaveARun == Spec => []WaitsForARun
<1>1. TextInit => PendingHasRun
  BY DEF TextInit, PendingHasRun
<1>2. IInv /\ PendingHasRun /\ [Next]_textVars => PendingHasRun'
  BY WaitStep DEF IInv, TInv
<1>3. IInv /\ PendingHasRun => WaitsForARun
  BY DEF IInv, TInv, SavesInv, NextWaits, PendingHasRun, WaitsForARun
<1> QED BY <1>1, <1>2, <1>3, Inductive, PTL DEF Spec

\* Whenever a save is over, successful, failed or cancelled, no save waits any
\* more: the one that did has begun, or is not needed, whichever of the two tasks
\* of the save ended first and whatever its version was by then (donePending).
THEOREM EndsLetNoneWait ==
    Spec => [][(\E n \in SaveSlots : ~Idle(n) /\ Idle(n)') => next' = NoWhy]_textVars
<1>1. TextInit => PendingHasRun
  BY DEF TextInit, PendingHasRun
<1>2. IInv /\ PendingHasRun /\ [Next]_textVars => PendingHasRun'
  BY WaitStep DEF IInv, TInv
<1>3. IInv /\ PendingHasRun /\ [Next]_textVars =>
        [(\E n \in SaveSlots : ~Idle(n) /\ Idle(n)') => next' = NoWhy]_textVars
  BY WaitStep DEF IInv, TInv
<1> QED BY <1>1, <1>2, <1>3, Inductive, PTL DEF Spec

-----------------------------------------------------------------------------
(* The backups of the text file: the invariant of HotExit. *)

Asked == onDisk \cup reverted

\* With the text that a revert is discarding, unless it fails.
Given == Asked \cup ({reverting.discards} \ {NoText})

Reverting == reverting.waits \/ resolving.by = "revert"

\* The text that undo makes clean was in the file, or was or is being discarded,
\* and so is one that is clean during a revert.  A revert that will give the dirty
\* flag back has made the model take its text for that of the file.
FlagsKnown ==
    /\ file.text \in onDisk
    /\ resolving.stat # NoStat => resolving.content \in onDisk
    /\ bufferSavedVersionId \in Given \cup {NoText}
    /\ Reverting => reverting.oldBufferSavedVersionId \in Asked \cup {NoText}
    /\ ~Reverting => ~reverting.wasDirty
    /\ ~dirty /\ reverting.wasDirty => bufferSavedVersionId = text
    /\ Reverting /\ ~dirty => text \in Given

BackupTypes ==
    /\ operation \in [kind : {"none", "timer", "encode", "store", "storing",
                              "discard", "discarding"}, backup : Backups]
    /\ io \in [kind : {"none", "store", "discard"}, backup : Backups]
    /\ cache \in Backups /\ backupFile \in Backups
    /\ suspended \in BOOLEAN /\ untold \in BOOLEAN
    /\ shutdown \in {"no", "backup", "backing", "confirm", "discarding", "wiping", "closing"}
    /\ finalVersion \in Nat \cup {NoVersion} /\ restarts \in 0..MaxRestarts

\* The backup of a text has the stat of a file.
Complete(b) == b.text \in Texts => b.stat \in Stats

\* A backup that is written has a text, a delete has none.
Operations ==
    /\ operation.kind = "none" => operation = NoOperation
    /\ operation.kind \in {"timer", "discard", "discarding"} => operation.backup = NoBackup
    /\ operation.kind \in {"encode", "store", "storing"} => operation.backup.text \in Texts
    /\ operation.kind = "storing" => io.kind = "store" /\ io.backup = operation.backup
    /\ io.kind = "none" => io = NoIO
    /\ io.kind = "discard" => io.backup = NoBackup
    /\ io.kind = "store" => io.backup.text \in Texts
    /\ cache.text = backupFile.text
    /\ Complete(operation.backup) /\ Complete(io.backup) /\ Complete(backupFile)

\* How far a shutdown is says what the tracker does.
Phases ==
    /\ suspended <=> shutdown \in {"backup", "backing", "confirm", "discarding", "wiping"}
    /\ shutdown \in {"backup", "confirm", "wiping"} => operation.kind = "none"
    /\ shutdown = "backing" => operation.kind \in {"none", "encode", "store", "storing"}
    /\ shutdown = "discarding" =>
          \/ operation.kind = "discard"
          \/ operation.kind = "discarding" /\ io.kind = "discard"
          \/ operation.kind = "none" /\ io.kind = "none"
    /\ shutdown \in {"backup", "backing", "confirm"} => untold
    /\ shutdown \in {"discarding", "wiping"} /\ dirty => untold

\* The backup of the operation has got its final version.
Numbered ==
    \/ operation.kind \in {"store", "storing"}
    \/ operation.kind = "encode" /\ shutdown = "backing"

\* Versions only grow, from the backup on disk over the one that is written to
\* the one that waits.
Versions ==
    /\ operation.backup.version <= versionId /\ io.backup.version <= versionId
    /\ cache.version <= versionId
    /\ io.kind = "store" => cache.version <= io.backup.version
    /\ Numbered => /\ cache.version <= operation.backup.version
                   /\ io.backup.version <= operation.backup.version

\* A backup of the version of now is of the text of now, or that is in the file.
OfVersion(b) == b.text # NoText /\ b.version = versionId => b.text = text \/ text \in onDisk

\* A text that is encoded will get the version of then: it is the text of now,
\* unless nothing is backed up anyway, nor will be without a new event.
Encoded(b) == b.text = text \/ text \in onDisk \/ (~dirty /\ ~reverting.wasDirty)

TextsOfVersions ==
    /\ OfVersion(cache) /\ OfVersion(io.backup)
    /\ Numbered => OfVersion(operation.backup)
    /\ operation.kind = "encode" /\ shutdown # "backing" => Encoded(operation.backup)

\* What is deleted is nobody's only copy: the text of now was saved or
\* discarded, or has a newer version than any backup of it.
Discards ==
    /\ operation.kind \in {"discard", "discarding"} /\ shutdown # "discarding"
           /\ text \notin Asked =>
          /\ cache.text = NoText \/ cache.version < versionId
          /\ io.kind = "store" => io.backup.version < versionId
    /\ io.kind = "discard" /\ shutdown # "discarding" /\ text \notin Asked =>
          cache.text = NoText \/ cache.version < versionId

\* The text of now is in the backup, and known to be.
Safe == cache.text = text /\ cache.version = versionId /\ io.kind # "discard"

Told ==
    /\ operation.kind \in {"store", "storing"} /\ dirty /\ ~untold =>
          operation.backup.version = versionId \/ text \in Asked
    /\ Unsaved /\ ~untold => BackupOnTheWay \/ Safe

\* What the process exits with.
Exits ==
    /\ finalVersion <= versionId
    /\ shutdown = "backing" /\ operation.kind # "none" =>
          finalVersion <= operation.backup.version
    /\ shutdown = "backing" /\ operation.kind = "none" /\ versionId = finalVersion =>
          text \in Asked \/ Safe
    /\ shutdown = "closing" /\ versionId = finalVersion => text \in Asked \/ Safe
    /\ shutdown = "discarding" /\ versionId = finalVersion => text \in Asked
    /\ shutdown = "wiping" => finalVersion = NoVersion

HInv ==
    /\ TInv /\ FlagsKnown /\ BackupTypes /\ Operations /\ Phases /\ Versions
    /\ TextsOfVersions /\ Discards /\ Told /\ Exits

-----------------------------------------------------------------------------
(* What a step of the text means for its backup. *)

\* The flags of a revert, as long as it goes on.
LEMMA RevertingKept ==
    ASSUME TInv, FlagsKnown, [Next]_textVars
    PROVE  /\ Reverting' => reverting'.oldBufferSavedVersionId \in Asked' \cup {NoText}
           /\ ~Reverting' => ~reverting'.wasDirty
<1>1. FlagsKnown /\ Asked \subseteq Asked'
  BY SettledGrows DEF Asked
<1>2. CASE Revert
  <2>0. bufferSavedVersionId \in Asked \cup {NoText}
    BY <1>2 DEF Revert, TInv, ReadHolds, FlagsKnown, Given
  <2>1. CASE UNCHANGED <<resolving, reverting>>
    BY <1>1, <2>1 DEF FlagsKnown, Reverting
  <2>2. CASE \E w \in BOOLEAN : /\ reverting' = FlagsTaken(w)
                                /\ w \/ resolving'.by = "revert"
    BY <1>1, <2>0, <2>2 DEF FlagsTaken, FlagsKnown, Reverting
  <2>3. ASSUME ~UNCHANGED <<resolving, reverting>>
        PROVE  \E w \in BOOLEAN : /\ reverting' = FlagsTaken(w)
                                  /\ w <=> resolving # NoRead
    <3>1. reverting' = FlagsTaken(resolving # NoRead)
      BY <1>2, <2>3, Zenon DEF Revert, FlagsTaken
    <3> QED BY <3>1, Zenon
  <2>4. ASSUME ~UNCHANGED <<resolving, reverting>>, resolving = NoRead
        PROVE  resolving'.by = "revert"
    <3>1. resolving' = ReadBy("revert")
      BY <1>2, <2>4, Zenon DEF Revert
    <3> QED BY <3>1 DEF ReadBy, NoRead
  <2>5. ASSUME ~UNCHANGED <<resolving, reverting>>
        PROVE  \E w \in BOOLEAN : /\ reverting' = FlagsTaken(w)
                                  /\ w \/ resolving'.by = "revert"
    BY <2>3, <2>4, <2>5
  <2> QED BY <2>1, <2>2, <2>5
<1>3. CASE RevertResolves
  <2>1. \/ reverting' = NoRevert /\ resolving' = resolving /\ resolving = NoRead
        \/ /\ reverting' = [reverting EXCEPT !.waits = FALSE] /\ reverting.waits
           /\ resolving' = ReadBy("revert")
    BY <1>3 DEF RevertResolves
  <2>2. ReadBy("revert").by = "revert"
    BY DEF ReadBy, NoRead
  <2> QED
    BY <1>1, <2>1, <2>2
    DEF FlagsKnown, Reverting, NoRevert, NoRead, TInv, TypeOK, RevertStates
<1>4. CASE ReadEnds
  BY <1>1, <1>4 DEF ReadEnds, FlagsKnown, Reverting, NoRevert, NoRead
<1>5. CASE UNCHANGED reverting /\ (resolving'.by = "revert" <=> resolving.by = "revert")
  BY <1>1, <1>5 DEF FlagsKnown, Reverting
<1>6. CASE Reload
  <2>1. resolving = NoRead /\ reverting' = reverting
    BY <1>6 DEF Reload
  <2>2. ReadBy("reload").by = "reload" /\ NoRead.by = "nobody"
    BY DEF ReadBy, NoRead
  <2>3. resolving' \in {ReadBy("reload"), NoRead}
    BY <1>6, <2>1 DEF Reload
  <2>4. resolving'.by # "revert" /\ resolving.by # "revert"
    BY <2>1, <2>2, <2>3
  <2> QED BY <1>5, <2>1, <2>4
<1>8. CASE ReadFile
  BY <1>5, <1>8, ReadFileFacts, StatType DEF ReadFile, TInv, TypeOK
<1>7. ASSUME NEW n \in SaveSlots, SaveRuns(n)
      PROVE  UNCHANGED readVars
  BY <1>7 DEF SaveRuns, DelayEnds, GiveUpSave, BeginWrite, CheckPasses, WriteFile,
              SaveSucceeds, SaveFails
<1> QED
  BY <1>2, <1>3, <1>4, <1>5, <1>6, <1>7, <1>8
  DEF Next, UserActs, Reads, Edit, UndoRedo, Save, OtherWrites, OnDidFilesChange,
      Resolve, ReadFails, readVars, textVars

\* Unless a revert fails, what is given stays so, and becomes asked for at its end.
LEMMA GivenGrows ==
    ASSUME TInv, [Next]_textVars, ~(resolving.by = "revert" /\ ReadFails)
    PROVE  Given \subseteq Given'
BY SettledGrows, DiscardsGrow DEF Given, Asked

\* A model that becomes clean does so by a text that is given.
LEMMA AskedSetDirty ==
    ASSUME NEW d \in BOOLEAN, NEW t, SetDirty(d, t), FlagsKnown,
           d => Given \subseteq Given',
           ~d => text' = t /\ t \in Given'
    PROVE  /\ bufferSavedVersionId' \in Given' \cup {NoText}
           /\ ~dirty' => bufferSavedVersionId' = text' /\ text' \in Given'
BY DEF SetDirty, FlagsKnown

\* The text that an edit makes clean is the one taken for that of the file.
LEMMA EditAsked ==
    ASSUME TInv, FlagsKnown, Edit \/ UndoRedo
    PROVE  /\ bufferSavedVersionId' \in Given' \cup {NoText}
           /\ ~dirty' => text' = bufferSavedVersionId /\ text' \in Given'
           /\ ~dirty' => bufferSavedVersionId' = text'
           /\ versionId' = versionId + 1 /\ reverting' = reverting
<1>1. PICK t : /\ text' = t /\ SetDirty(t # bufferSavedVersionId, t)
               /\ versionId' = versionId + 1
  BY DEF Edit, UndoRedo, OnModelContentChanged
<1>2. Given' = Given /\ text' # NoText /\ reverting' = reverting
  <2>1. Given' = Given /\ reverting' = reverting
    BY DEF Edit, UndoRedo, fileVars, history, readVars, Asked, Given
  <2>2. text' \in Texts
    BY ModelTypesStep DEF ModelTypes, Next, UserActs
  <2> QED BY <2>1, <2>2, Numbers DEF Texts, NoText
<1>3. dirty' = (t # bufferSavedVersionId)
  BY <1>1 DEF SetDirty
<1>4. t = bufferSavedVersionId => t \in Given
  BY <1>1, <1>2 DEF FlagsKnown
<1> QED BY <1>1, <1>2, <1>3, <1>4, AskedSetDirty

\* A save that succeeds makes a text clean that it has written.
LEMMA SaveAsked ==
    ASSUME TInv, NEW n \in SaveSlots, SaveSucceeds(n)
    PROVE  /\ UNCHANGED <<text, onDisk, reverted>>
           /\ \/ SetDirty(FALSE, text) /\ text \in onDisk
              \/ UNCHANGED flags
BY DEF SaveSucceeds, TInv, WritesVersion, modelVars, fileVars, history

\* A save that does not succeed leaves a clean text alone, or makes it dirty.
LEMMA SaveLeaves ==
    ASSUME NEW n \in SaveSlots, SaveRuns(n), ~SaveSucceeds(n)
    PROVE  /\ UNCHANGED <<text, versionId, bufferSavedVersionId>>
           /\ dirty' = dirty \/ dirty' = TRUE
BY DEF SaveRuns, DelayEnds, GiveUpSave, BeginWrite, CheckPasses, WriteFile, SaveFails,
       modelVars, flags

\* The text that a read brings was in the file, and the end of a revert is that
\* what it was to discard has been.
LEMMA ResolveAsked ==
    ASSUME FlagsKnown, Resolve
    PROVE  /\ onDisk' = onDisk /\ Asked \subseteq Asked'
           /\ resolving.by = "revert" => Given \subseteq Asked'
           /\ \/ UNCHANGED <<text, versionId, flags>>
              \/ /\ SetDirty(FALSE, resolving.content) /\ text' = resolving.content
                 /\ resolving.content \in onDisk
                 /\ versionId' = IF text' = text THEN versionId ELSE versionId + 1
<1>1. onDisk' = onDisk /\ Asked \subseteq Asked'
      /\ (resolving.by = "revert" => Given \subseteq Asked')
  BY DEF Resolve, Discarded, fileVars, Asked, Given
<1>2. resolving.content \in onDisk
  BY DEF Resolve, FlagsKnown
<1> QED BY <1>1, <1>2 DEF Resolve, modelVars

\* What has been read was in the file.
LEMMA ReadOnDisk ==
    ASSUME TInv, FlagsKnown, [Next]_textVars
    PROVE  resolving'.stat # NoStat => resolving'.content \in onDisk'
<1>1. /\ file.text \in onDisk /\ onDisk \subseteq onDisk'
      /\ resolving.stat # NoStat => resolving.content \in onDisk
      /\ StatOf(file) \in Stats
  BY SettledGrows, StatType DEF FlagsKnown, TInv, TypeOK
<1>2. CASE resolving' = resolving
  BY <1>1, <1>2
<1>3. CASE resolving' = NoRead \/ resolving' = ReadBy("reload") \/ resolving' = ReadBy("revert")
  <2>1. NoRead.stat = NoStat
    BY DEF NoRead
  <2>2. ReadBy("reload").stat = NoStat /\ ReadBy("revert").stat = NoStat
    BY DEF ReadBy, NoRead
  <2> QED BY <1>3, <2>1, <2>2
<1>4. CASE ReadFile
  BY <1>1, <1>4, ReadFileFacts DEF TInv, TypeOK
<1>5. ASSUME NEW n \in SaveSlots, SaveRuns(n)
      PROVE  resolving' = resolving
  BY <1>5 DEF SaveRuns, DelayEnds, GiveUpSave, BeginWrite, CheckPasses, WriteFile,
              SaveSucceeds, SaveFails, readVars
<1> QED
  BY <1>2, <1>3, <1>4, <1>5
  DEF Next, UserActs, Reads, Edit, UndoRedo, Save, Revert, Reload, RevertResolves,
      Resolve, ReadFails, ReadEnds, OtherWrites, OnDidFilesChange, readVars, textVars

\* A revert that fails gives back what the model took for the text of the file.
LEMMA FailedFlagsKnown ==
    ASSUME TInv, FlagsKnown, resolving.by = "revert", ReadFails
    PROVE  /\ bufferSavedVersionId' \in Given' \cup {NoText}
           /\ ~Reverting' /\ ~reverting'.wasDirty
<1>1. Asked' = Asked /\ bufferSavedVersionId' = reverting.oldBufferSavedVersionId
  BY DEF ReadFails, fileVars, Asked
<1>2. reverting' = NoRevert /\ resolving' = NoRead
  BY DEF ReadFails, ReadEnds
<1> QED BY <1>1, <1>2 DEF FlagsKnown, Given, Reverting, NoRevert, NoRead

\* Every step of the text keeps what is known of its flags.
LEMMA FlagsKnownStep ==
    ASSUME TInv, FlagsKnown, [Next]_textVars
    PROVE  FlagsKnown'
<1> DEFINE G == /\ bufferSavedVersionId' \in Given' \cup {NoText}
                /\ ~dirty' /\ reverting'.wasDirty => bufferSavedVersionId' = text'
                /\ Reverting' /\ ~dirty' => text' \in Given'
<1>1. FlagsKnown /\ Asked \subseteq Asked' /\ text \in Texts
  BY SettledGrows DEF Asked, TInv, TypeOK
<1>2. ASSUME bufferSavedVersionId' \in Given' \cup {NoText},
             ~dirty' => bufferSavedVersionId' = text' /\ text' \in Given'
      PROVE  G
  BY <1>2
<1>3. G
  <2>1. CASE resolving.by = "revert" /\ ReadFails
    BY <1>1, <2>1, FailedFlagsKnown
  <2>2. CASE ~(resolving.by = "revert" /\ ReadFails)
    <3>0. Given \subseteq Given'
      BY <2>2, GivenGrows
    <3> DEFINE Same == /\ UNCHANGED <<text, bufferSavedVersionId>>
                       /\ dirty' = dirty \/ dirty' = TRUE
                       /\ reverting'.wasDirty => reverting.wasDirty
                       /\ Reverting' => Reverting
    <3>9. Same => G
      BY <1>1, <3>0 DEF FlagsKnown
    <3>1. CASE Edit \/ UndoRedo
      BY <1>2, <3>1, EditAsked
    <3>2. CASE Revert
      <4>1. SetDirty(FALSE, text) /\ text' = text /\ text \in Given'
        BY <1>1, <3>2, RevertKnows DEF Revert, modelVars, Given, Asked
      <4> QED BY <1>1, <1>2, <4>1, AskedSetDirty
    <3>3. CASE RevertResolves
      <4>1. UNCHANGED <<text, bufferSavedVersionId, dirty>>
        BY <3>3 DEF RevertResolves, modelVars, flags
      <4>2. \/ reverting' = NoRevert /\ UNCHANGED resolving
            \/ reverting' = [reverting EXCEPT !.waits = FALSE] /\ reverting.waits
        BY <3>3 DEF RevertResolves
      <4>3. (reverting'.wasDirty => reverting.wasDirty) /\ (Reverting' => Reverting)
        BY <4>2 DEF Reverting, NoRevert, TInv, TypeOK, RevertStates
      <4> QED BY <3>9, <4>1, <4>3
    <3>4. CASE Resolve
      <4>1. CASE UNCHANGED <<text, versionId, flags>>
        <5>1. reverting' \in {reverting, NoRevert} /\ resolving' = NoRead
          BY <3>4 DEF Resolve, ReadEnds
        <5>2. (reverting'.wasDirty => reverting.wasDirty) /\ (Reverting' => Reverting)
          BY <5>1 DEF Reverting, NoRevert, NoRead
        <5> QED BY <3>9, <4>1, <5>2 DEF flags
      <4>2. CASE /\ SetDirty(FALSE, resolving.content) /\ text' = resolving.content
                 /\ resolving.content \in onDisk
        <5>1. resolving.content \in Given'
          BY <3>0, <4>2 DEF Given, Asked
        <5> QED BY <1>1, <1>2, <4>2, <5>1, AskedSetDirty
      <4> QED BY <1>1, <3>4, <4>1, <4>2, ResolveAsked
    <3>5. CASE ReadFails
      <4>1. UNCHANGED <<text, flags>> /\ reverting' = reverting /\ resolving' = NoRead
        BY <2>2, <3>5 DEF ReadFails, ReadEnds, modelVars
      <4> QED BY <3>9, <4>1 DEF Reverting, NoRead, flags
    <3>6. ASSUME NEW n \in SaveSlots, SaveRuns(n)
          PROVE  G
      <4>1. UNCHANGED <<resolving, reverting>>
        BY <3>6 DEF SaveRuns, DelayEnds, GiveUpSave, BeginWrite, CheckPasses, WriteFile,
                    SaveSucceeds, SaveFails, readVars
      <4>2. CASE ~SaveSucceeds(n)
        BY <3>6, <3>9, <4>1, <4>2, SaveLeaves DEF Reverting
      <4>3. CASE SaveSucceeds(n) /\ UNCHANGED flags
        BY <3>9, <4>1, <4>3, SaveAsked DEF Reverting, flags
      <4>4. CASE SaveSucceeds(n) /\ SetDirty(FALSE, text) /\ text \in onDisk
        <5>1. text' = text /\ text \in Given'
          BY <3>0, <4>4, SaveAsked DEF Given, Asked
        <5> QED BY <1>1, <1>2, <4>4, <5>1, AskedSetDirty
      <4> QED BY <4>2, <4>3, <4>4, SaveAsked
    <3>7. CASE Reload
      <4>1. UNCHANGED <<text, flags, reverting>> /\ (Reverting' => Reverting)
        BY <3>7 DEF Reload, ReadBy, modelVars, Reverting, NoRead
      <4> QED BY <3>9, <4>1 DEF flags
    <3>10. CASE ReadFile
      <4>1. UNCHANGED <<text, flags, reverting>> /\ resolving'.by = resolving.by
        BY <3>10, ReadFileFacts, StatType DEF ReadFile, modelVars, TInv, TypeOK
      <4> QED BY <3>9, <4>1 DEF flags, Reverting
    <3>8. CASE UNCHANGED <<text, flags, reverting, resolving>>
      <4>1. UNCHANGED <<text, bufferSavedVersionId, dirty, reverting>> /\ Reverting' = Reverting
        BY <3>8 DEF flags, Reverting
      <4> QED BY <3>9, <4>1
    <3> QED
      BY <3>1, <3>2, <3>3, <3>4, <3>5, <3>6, <3>7, <3>8, <3>10
      DEF Next, UserActs, Reads, Save, OtherWrites, OnDidFilesChange, modelVars,
          readVars, textVars
  <2> QED BY <2>1, <2>2
<1> QED BY <1>1, <1>3, FileOnDisk, RevertingKept, ReadOnDisk DEF FlagsKnown

-----------------------------------------------------------------------------
(* What the tracker makes of a step of the text. *)

\* A backup is scheduled.
Scheduled ==
    /\ ~suspended /\ dirty' /\ untold' = FALSE
    /\ operation' = [kind |-> "timer", backup |-> NoBackup]

\* The backup of a text that was saved or discarded, or is older than the text,
\* will be deleted.
DiscardScheduled ==
    /\ ~suspended /\ ~dirty' /\ (untold => untold')
    /\ text' \in Asked' \/ versionId < versionId'
    /\ operation' = [kind |-> "discard", backup |-> NoBackup]

\* The tracker goes on with what it did: nothing has changed for it, or it is
\* suspended, or the text is clean.
Unheard ==
    /\ operation' = operation /\ (untold => untold')
    /\ dirty' => untold' \/ (dirty /\ versionId' = versionId)
    /\ suspended \/ (Encoded(operation.backup) => Encoded(operation.backup)')

TextGoesOn ==
    /\ onDisk \subseteq onDisk' /\ Asked \subseteq Asked'
    /\ versionId' \in Nat /\ versionId <= versionId'
    /\ versionId' = versionId => text' = text

Moves ==
    /\ TextGoesOn
    /\ UNCHANGED <<io, cache, backupFile, shutdownVars, restarts>>
    /\ Scheduled \/ DiscardScheduled \/ Unheard

TextSteps == EditOrSave \/ ReadsForReload \/ RevertRuns \/ RevertFails \/ Outside

\* The tracker follows the text, whose steps are those of TextFile.
LEMMA TextStepsAreSteps ==
    ASSUME TextSteps
    PROVE  Next
BY DEF TextSteps, EditOrSave, ReadsForReload, RevertRuns, RevertFails, Outside, Next,
       UserActs, Reads

\* Every change of the text has a version of its own.
LEMMA VersionStep ==
    ASSUME TInv, FlagsKnown, [Next]_textVars
    PROVE  TextGoesOn
<1>1. onDisk \subseteq onDisk' /\ Asked \subseteq Asked'
  BY SettledGrows DEF Asked
<1>2. versionId \in Nat
  BY DEF TInv, TypeOK
<1>3. \/ UNCHANGED <<text, versionId>>
      \/ versionId' = versionId + 1
  <2>1. CASE Edit \/ UndoRedo
    BY <2>1, EditAsked
  <2>2. CASE Resolve
    BY <2>2, ResolveAsked
  <2>3. ASSUME NEW n \in SaveSlots, SaveRuns(n)
        PROVE  UNCHANGED modelVars
    BY <2>3 DEF SaveRuns, DelayEnds, GiveUpSave, BeginWrite, CheckPasses, WriteFile,
                SaveSucceeds, SaveFails
  <2>4. CASE Revert
    BY <2>4 DEF Revert, modelVars
  <2> QED
    BY <2>1, <2>2, <2>3, <2>4
    DEF Next, UserActs, Reads, Save, Reload, RevertResolves, ReadFile, ReadFails,
        OtherWrites, OnDidFilesChange, modelVars, textVars
<1> QED BY <1>1, <1>2, <1>3 DEF TextGoesOn

\* What the tracker does.
LEMMA TrackedOutcome ==
    ASSUME NEW c \in BOOLEAN, NEW d \in BOOLEAN, Tracked(c, d)
    PROVE  /\ UNCHANGED <<io, cache, backupFile, shutdownVars, restarts>>
           /\ \/ Scheduled
              \/ /\ ~suspended /\ ~dirty' /\ d /\ (untold => untold')
                 /\ operation' = [kind |-> "discard", backup |-> NoBackup]
              \/ /\ operation' = operation /\ (untold => untold')
                 /\ suspended /\ (c \/ d) => untold'
                 /\ ~suspended /\ dirty' => ~c /\ ~d
                 /\ ~suspended /\ ~dirty' => ~d
<1>1. [NoOperation EXCEPT !.kind = "timer"] = [kind |-> "timer", backup |-> NoBackup]
  BY DEF NoOperation
<1>2. [NoOperation EXCEPT !.kind = "discard"] = [kind |-> "discard", backup |-> NoBackup]
  BY DEF NoOperation
<1>3. UNCHANGED <<io, cache, backupFile, shutdownVars, restarts>>
  BY Zenon DEF Tracked
<1>4. CASE ~suspended /\ dirty' /\ (c \/ d)
  BY <1>1, <1>4, Zenon DEF Tracked, Scheduled
<1>5. CASE ~suspended /\ ~dirty' /\ d
  <2>1. operation' = [kind |-> "discard", backup |-> NoBackup]
    BY <1>2, <1>5, Zenon DEF Tracked
  <2>2. untold => untold'
    BY <1>5, Zenon DEF Tracked
  <2> QED BY <1>3, <1>5, <2>1, <2>2
<1>6. CASE ~(~suspended /\ dirty' /\ (c \/ d)) /\ ~(~suspended /\ ~dirty' /\ d)
  <2>1. operation' = operation
    BY <1>6, Zenon DEF Tracked
  <2>2. (untold => untold') /\ (suspended /\ (c \/ d) => untold')
    BY <1>6, Zenon DEF Tracked
  <2> QED BY <1>3, <1>6, <2>1, <2>2
<1> QED BY <1>3, <1>4, <1>5, <1>6

\* A text that becomes clean is safe in the file or not wanted, or has a new
\* version; one that changes while it is clean came from the file, or no revert
\* will make it dirty.
LEMMA ChangedFacts ==
    ASSUME TInv, FlagsKnown, EditOrSave \/ ReadsForReload
    PROVE  /\ reverting' = reverting
           /\ dirty /\ ~dirty' => text' \in Asked' \/ versionId < versionId'
           /\ ~dirty /\ ~dirty' /\ text' # text =>
                 text' \in onDisk' \/ ~reverting.wasDirty
<1>1. CASE Edit \/ UndoRedo
  <2>1. versionId < versionId'
    BY <1>1, EditAsked DEF TInv, TypeOK
  <2>2. ~dirty /\ reverting.wasDirty => bufferSavedVersionId = text
    BY DEF FlagsKnown
  <2> QED BY <1>1, <2>1, <2>2, EditAsked
<1>2. CASE \E why \in Whys : Save(why)
  <2>1. UNCHANGED <<text, dirty, reverting>>
    BY <1>2 DEF Save, modelVars, flags, readVars
  <2> QED BY <2>1
<1>3. ASSUME NEW n \in SaveSlots, SaveRuns(n)
      PROVE  /\ UNCHANGED <<text, reverting>>
             /\ dirty /\ ~dirty' => text' \in Asked'
  <2>1. reverting' = reverting
    BY <1>3 DEF SaveRuns, DelayEnds, GiveUpSave, BeginWrite, CheckPasses, WriteFile,
                SaveSucceeds, SaveFails, readVars
  <2>2. CASE SaveSucceeds(n)
    BY <2>1, <2>2, SaveAsked DEF Asked, flags
  <2>3. CASE ~SaveSucceeds(n)
    BY <1>3, <2>1, <2>3, SaveLeaves
  <2> QED BY <2>2, <2>3
<1>4. CASE Reload \/ ReadFile
  <2>1. UNCHANGED <<text, dirty, reverting>>
    BY <1>4 DEF Reload, ReadFile, modelVars, flags
  <2> QED BY <2>1
<1>5. CASE resolving.by = "reload" /\ Resolve
  <2>1. reverting' = reverting
    BY <1>5 DEF Resolve, ReadEnds
  <2>2. CASE UNCHANGED <<text, versionId, flags>>
    BY <2>1, <2>2 DEF flags
  <2>3. CASE /\ SetDirty(FALSE, resolving.content) /\ text' = resolving.content
             /\ resolving.content \in onDisk
    <3>1. ~dirty' /\ text' \in onDisk' /\ text' \in Asked'
      BY <1>5, <2>3, ResolveAsked DEF SetDirty, Asked
    <3> QED BY <2>1, <3>1
  <2> QED BY <1>5, <2>2, <2>3, ResolveAsked
<1>6. CASE resolving.by = "reload" /\ ReadFails
  <2>1. UNCHANGED <<text, dirty, reverting>>
    BY <1>6 DEF ReadFails, ReadEnds, modelVars, flags
  <2> QED BY <2>1
<1>7. EditOrSave => \/ Edit \/ UndoRedo \/ \E why \in Whys : Save(why)
                   \/ \E n \in SaveSlots : SaveRuns(n)
  BY DEF EditOrSave
<1>8. ReadsForReload =>
        Reload \/ ReadFile \/ (resolving.by = "reload" /\ (Resolve \/ ReadFails))
  BY DEF ReadsForReload
<1> QED BY <1>1, <1>2, <1>3, <1>4, <1>5, <1>6, <1>7, <1>8

\* The tracker hears of a change of the text or of the dirty flag.
LEMMA ChangedMoves ==
    ASSUME TInv, FlagsKnown, EditOrSave \/ ReadsForReload
    PROVE  Moves
<1>1. TextGoesOn
  BY VersionStep, TextStepsAreSteps DEF TextSteps
<1>2. Tracked(versionId' # versionId, dirty' # dirty)
  BY DEF EditOrSave, ReadsForReload, Changed
<1>3. dirty \in BOOLEAN /\ dirty' \in BOOLEAN
  BY TInvStep, TextStepsAreSteps DEF TextSteps, TInv, TypeOK
<1>4. /\ UNCHANGED <<io, cache, backupFile, shutdownVars, restarts>>
      /\ \/ Scheduled
         \/ /\ ~suspended /\ ~dirty' /\ dirty' # dirty /\ (untold => untold')
            /\ operation' = [kind |-> "discard", backup |-> NoBackup]
         \/ /\ operation' = operation /\ (untold => untold')
            /\ suspended /\ (versionId' # versionId \/ dirty' # dirty) => untold'
            /\ ~suspended /\ dirty' => versionId' = versionId /\ dirty' = dirty
            /\ ~suspended /\ ~dirty' => dirty' = dirty
  BY <1>2, TrackedOutcome, (versionId' # versionId) \in BOOLEAN,
     (dirty' # dirty) \in BOOLEAN, Zenon
<1>5. CASE Scheduled
  BY <1>1, <1>4, <1>5 DEF Moves
<1>6. CASE /\ ~suspended /\ ~dirty' /\ dirty' # dirty /\ (untold => untold')
           /\ operation' = [kind |-> "discard", backup |-> NoBackup]
  BY <1>1, <1>3, <1>4, <1>6, ChangedFacts DEF Moves, DiscardScheduled
<1>7. CASE /\ operation' = operation /\ (untold => untold')
           /\ suspended /\ (versionId' # versionId \/ dirty' # dirty) => untold'
           /\ ~suspended /\ dirty' => versionId' = versionId /\ dirty' = dirty
           /\ ~suspended /\ ~dirty' => dirty' = dirty
  <2>1. dirty' => untold' \/ (dirty /\ versionId' = versionId)
    BY <1>3, <1>7
  <2>3. suspended \/ (Encoded(operation.backup) => Encoded(operation.backup)')
    BY <1>1, <1>3, <1>7, ChangedFacts DEF TextGoesOn, Encoded
  <2> QED BY <1>1, <1>4, <1>7, <2>1, <2>3 DEF Moves, Unheard
<1> QED BY <1>4, <1>5, <1>6, <1>7

\* A step that the tracker hears of as the end of a revert, or does not hear of.
LEMMA HeardMoves ==
    ASSUME TInv, FlagsKnown, Next, NEW c \in BOOLEAN, NEW d \in BOOLEAN,
           \/ Tracked(c, d)
           \/ d = FALSE /\ UNCHANGED <<backupVars, shutdownVars, untold, restarts>>,
           d /\ ~dirty' => text' \in Asked',
           dirty' => dirty /\ versionId' = versionId,
           operation' = operation /\ Encoded(operation.backup) => Encoded(operation.backup)'
    PROVE  Moves
<1>1. TextGoesOn
  BY VersionStep
<1>2. CASE Tracked(c, d)
  <2>1. /\ UNCHANGED <<io, cache, backupFile, shutdownVars, restarts>>
        /\ Scheduled \/ DiscardScheduled \/ (operation' = operation /\ (untold => untold'))
    BY <1>2, TrackedOutcome DEF DiscardScheduled
  <2> QED BY <1>1, <2>1 DEF Moves, Unheard
<1>3. CASE d = FALSE /\ UNCHANGED <<backupVars, shutdownVars, untold, restarts>>
  BY <1>1, <1>3 DEF Moves, Unheard, backupVars
<1> QED BY <1>2, <1>3

\* A revert begins.
LEMMA RevertMoves ==
    ASSUME TInv, FlagsKnown, Revert, Tracked(FALSE, dirty /\ resolving' = NoRead)
    PROVE  Moves
<1>1. UNCHANGED <<text, versionId, onDisk>> /\ dirty' = FALSE
  BY DEF Revert, SetDirty, modelVars, fileVars
<1>6. resolving' = NoRead => text' \in Asked'
  <2>1. ReadBy("revert") # NoRead
    BY DEF ReadBy, NoRead
  <2> QED BY <1>1, <2>1 DEF Revert, Asked
<1>2. ~dirty /\ ~reverting.wasDirty => ~reverting'.wasDirty
  BY RevertTakes DEF FlagsTaken
<1>3. operation' = operation /\ Encoded(operation.backup) => Encoded(operation.backup)'
  BY <1>1, <1>2 DEF Encoded
<1>4. Next
  BY DEF Next, UserActs
<1>5. (dirty /\ resolving' = NoRead) \in BOOLEAN
  BY DEF TInv, TypeOK
<1> QED BY <1>1, <1>3, <1>4, <1>5, <1>6, HeardMoves

\* A revert that waited reads the file, or ends.
LEMMA RevertResolvesMoves ==
    ASSUME TInv, FlagsKnown, RevertResolves,
           \/ resolving' = NoRead /\ RevertEnded
           \/ UNCHANGED <<backupVars, shutdownVars, untold, restarts>>
    PROVE  Moves
<1>1. /\ UNCHANGED <<text, versionId, onDisk, dirty>> /\ reverting.waits
      /\ reverting' = NoRevert \/ reverting' = [reverting EXCEPT !.waits = FALSE]
  BY DEF RevertResolves, modelVars, fileVars, flags
<1>2. ~dirty /\ ~reverting.wasDirty => ~reverting'.wasDirty
  BY <1>1, RevertTypes DEF NoRevert, TInv, TypeOK, RevertStates
<1>3. operation' = operation /\ Encoded(operation.backup) => Encoded(operation.backup)'
  BY <1>1, <1>2 DEF Encoded
<1>4. Next
  BY DEF Next, Reads
<1>5. resolving' = NoRead /\ reverting.wasDirty /\ ~dirty => text' \in Asked'
  <2>1. ReadBy("revert") # NoRead
    BY DEF ReadBy, NoRead
  <2>2. resolving' = NoRead => Given \subseteq Asked'
    BY <1>1, <2>1 DEF RevertResolves, Discarded, Given, Asked
  <2> QED BY <1>1, <2>2 DEF FlagsKnown, Reverting
<1>6. reverting.wasDirty \in BOOLEAN /\ dirty' = dirty /\ dirty \in BOOLEAN
  BY <1>1, RevertTypes DEF TInv, TypeOK
<1>7. CASE resolving' = NoRead /\ RevertEnded
  <2>1. Tracked(versionId' # versionId, dirty' # dirty \/ reverting.wasDirty)
    BY <1>7 DEF RevertEnded
  <2>2. /\ (versionId' # versionId) \in BOOLEAN
        /\ (dirty' # dirty \/ reverting.wasDirty) \in BOOLEAN
    OBVIOUS
  <2>3. (dirty' # dirty \/ reverting.wasDirty) /\ ~dirty' => text' \in Asked'
    BY <1>5, <1>6, <1>7
  <2> QED BY <1>1, <1>3, <1>4, <2>1, <2>2, <2>3, HeardMoves
<1>8. CASE UNCHANGED <<backupVars, shutdownVars, untold, restarts>>
  BY <1>1, <1>3, <1>4, <1>8, HeardMoves
<1> QED BY <1>7, <1>8

\* A revert has read the file.
LEMMA RevertReadMoves ==
    ASSUME TInv, FlagsKnown, resolving.by = "revert", Resolve, RevertEnded
    PROVE  Moves
<1>1. reverting' = NoRevert
  BY DEF Resolve, ReadEnds
<1>2. /\ Next /\ Asked \subseteq Asked' /\ onDisk' = onDisk
      /\ reverting.wasDirty \in BOOLEAN /\ dirty \in BOOLEAN /\ dirty' \in BOOLEAN
  BY ResolveAsked, RevertTypes, TInvStep DEF Next, Reads, TInv, TypeOK
<1>3. \/ UNCHANGED <<text, versionId, dirty>>
      \/ ~dirty' /\ text' \in onDisk'
  BY ResolveAsked, <1>2 DEF SetDirty, flags
<1>4. (dirty' # dirty \/ reverting.wasDirty) /\ ~dirty' => text' \in Asked'
  BY <1>2, <1>3, ResolveAsked DEF FlagsKnown, Reverting, Asked
<1>5. operation' = operation /\ Encoded(operation.backup) => Encoded(operation.backup)'
  BY <1>1, <1>2, <1>3 DEF Encoded, NoRevert
<1>6. Tracked(versionId' # versionId, dirty' # dirty \/ reverting.wasDirty)
  BY DEF RevertEnded
<1>7. /\ (versionId' # versionId) \in BOOLEAN
      /\ (dirty' # dirty \/ reverting.wasDirty) \in BOOLEAN
  OBVIOUS
<1>8. dirty' => dirty /\ versionId' = versionId
  BY <1>3
<1> QED BY <1>2, <1>4, <1>5, <1>6, <1>7, <1>8, HeardMoves

\* A revert reads the file, and nobody hears of it.
LEMMA ReadFileMoves ==
    ASSUME TInv, FlagsKnown, ReadFile,
           UNCHANGED <<backupVars, shutdownVars, untold, restarts>>
    PROVE  Moves
<1>1. UNCHANGED <<text, versionId, onDisk, dirty, reverting>> /\ Next
  BY DEF ReadFile, modelVars, fileVars, flags, Next, Reads
<1>2. operation' = operation /\ Encoded(operation.backup) => Encoded(operation.backup)'
  BY <1>1 DEF Encoded
<1> QED BY <1>1, <1>2, HeardMoves

\* Every step of the text.
LEMMA TextMoves ==
    ASSUME TInv, FlagsKnown, TextSteps
    PROVE  Moves
<1>1. CASE EditOrSave \/ ReadsForReload
  BY <1>1, ChangedMoves
<1>2. CASE RevertRuns
  BY <1>2, RevertMoves, RevertResolvesMoves, RevertReadMoves, ReadFileMoves DEF RevertRuns
<1>3. CASE RevertFails
  <2>1. /\ UNCHANGED <<text, versionId, onDisk, io, cache, backupFile, shutdownVars,
                       restarts, operation>>
        /\ untold' = TRUE
        /\ dirty' = reverting.wasDirty /\ reverting' = NoRevert
    BY <1>3 DEF RevertFails, ReadFails, ReadEnds, modelVars, fileVars, backupVars
  <2>2. Encoded(operation.backup) => Encoded(operation.backup)'
    BY <2>1 DEF Encoded, NoRevert
  <2> QED BY <2>1, <2>2, VersionStep, TextStepsAreSteps DEF Moves, Unheard
<1>4. CASE Outside
  <2>1. /\ UNCHANGED <<text, versionId, dirty, reverting, io, cache, backupFile,
                       shutdownVars, restarts, operation, untold>>
    BY <1>4 DEF Outside, OtherWrites, OnDidFilesChange, modelVars, flags, readVars, backupVars
  <2>2. onDisk \subseteq onDisk'
    BY SettledGrows, TextStepsAreSteps
  <2>3. Encoded(operation.backup) => Encoded(operation.backup)'
    BY <2>1, <2>2 DEF Encoded
  <2> QED BY <2>1, <2>3, VersionStep, TextStepsAreSteps DEF Moves, Unheard
<1> QED BY <1>1, <1>2, <1>3, <1>4 DEF TextSteps

-----------------------------------------------------------------------------
(* The text goes on: its backup stays as good as it was. *)

\* What a backup that does not exist looks like.
LEMMA NoBackupFacts ==
    /\ NoBackup \in Backups /\ NoBackup.text = NoText /\ NoBackup.version = 0
    /\ NoText \notin Texts /\ Truncated \notin Texts /\ Complete(NoBackup)
    /\ NoOperation.kind = "none" /\ NoOperation.backup = NoBackup
    /\ NoVersion < 0
BY Numbers DEF NoBackup, Backups, NoText, Truncated, Texts, Complete, NoOperation,
               NoVersion

\* What the tracker forgot is a matter of yes or no.
LEMMA UntoldType ==
    ASSUME BackupTypes, TextSteps
    PROVE  untold' \in BOOLEAN
<1>1. \A c, d : Tracked(c, d) => untold' \in BOOLEAN
  BY Zenon DEF Tracked
<1>2. CASE RevertFails
  BY <1>2 DEF RevertFails
<1>3. CASE UNCHANGED untold
  BY <1>3 DEF BackupTypes
<1> QED
  BY <1>1, <1>2, <1>3, Zenon
  DEF TextSteps, EditOrSave, ReadsForReload, RevertRuns, Outside, Changed, RevertEnded

\* The types, operations and phases.
LEMMA MovesTypes ==
    ASSUME HInv, Moves, untold' \in BOOLEAN
    PROVE  (BackupTypes /\ Operations)'
<1>1. BackupTypes /\ Operations
  BY DEF HInv
<1>2. UNCHANGED <<io, cache, backupFile, suspended, shutdown, finalVersion, restarts>>
  BY DEF Moves, shutdownVars
<1>3. \/ operation' = operation
      \/ \E k \in {"timer", "discard"} : operation' = [kind |-> k, backup |-> NoBackup]
  BY DEF Moves, Scheduled, DiscardScheduled, Unheard
<1>4. BackupTypes'
  BY <1>1, <1>2, <1>3, NoBackupFacts DEF BackupTypes
<1>5. Operations'
  BY <1>1, <1>2, <1>3, NoBackupFacts DEF Operations, Complete
<1> QED BY <1>4, <1>5

\* A tracker that is suspended stays with its operation.
LEMMA MovesPhases ==
    ASSUME HInv, Moves
    PROVE  Phases'
<1>1. Phases /\ BackupTypes
  BY DEF HInv
<1>2. UNCHANGED <<io, suspended, shutdown>>
  BY DEF Moves, shutdownVars
<1>3. CASE ~suspended
  BY <1>1, <1>2, <1>3 DEF Phases
<1>4. CASE suspended
  <2>1. Unheard
    BY <1>4 DEF Moves, Scheduled, DiscardScheduled
  <2> QED BY <1>1, <1>2, <2>1 DEF Phases, Unheard
<1> QED BY <1>3, <1>4

\* A new text has a new version, which no backup has yet.
LEMMA MovesVersions ==
    ASSUME HInv, Moves
    PROVE  Versions' /\ TextsOfVersions'
<1>1. /\ Versions /\ TextsOfVersions /\ Phases /\ TextGoesOn /\ versionId \in Nat
      /\ operation.backup \in Backups /\ io.backup \in Backups /\ cache \in Backups
  BY DEF HInv, Moves, TInv, TypeOK, BackupTypes
<1>2. UNCHANGED <<io, cache, suspended, shutdown>>
  BY DEF Moves, shutdownVars
<1>3. \A b \in Backups : b.version <= versionId /\ OfVersion(b) => OfVersion(b)'
  BY <1>1 DEF OfVersion, TextGoesOn, Backups
<1>4. CASE operation' = operation /\ Unheard
  <2>1. Versions'
    BY <1>1, <1>2, <1>4 DEF Versions, Numbered, TextGoesOn, Backups
  <2>2. operation.kind = "encode" /\ shutdown # "backing" => ~suspended
    BY <1>1 DEF Phases
  <2>3. Numbered' = Numbered /\ operation.backup' = operation.backup
    BY <1>2, <1>4 DEF Numbered
  <2>4. io.backup' = io.backup
    BY <1>2
  <2> QED
    BY <1>1, <1>2, <1>3, <1>4, <2>1, <2>2, <2>3, <2>4
    DEF TextsOfVersions, Versions, Unheard
<1>5. CASE \E k \in {"timer", "discard"} : operation' = [kind |-> k, backup |-> NoBackup]
  <2>1. ~Numbered' /\ operation'.kind # "encode" /\ operation'.backup = NoBackup
    BY <1>5 DEF Numbered
  <2>2. Versions'
    BY <1>1, <1>2, <2>1, NoBackupFacts DEF Versions, TextGoesOn, Backups
  <2> QED BY <1>1, <1>2, <1>3, <2>1, <2>2 DEF TextsOfVersions, Versions
<1> QED BY <1>4, <1>5 DEF Moves, Scheduled, DiscardScheduled, Unheard

\* A text that changes or is typed back is nobody's only copy in a backup
\* that is deleted.
LEMMA MovesDiscards ==
    ASSUME HInv, Moves
    PROVE  Discards'
<1>1. /\ Discards /\ Versions /\ TextGoesOn /\ versionId \in Nat /\ versionId' \in Nat
      /\ cache.version \in Nat /\ io.backup.version \in Nat
  BY DEF HInv, Moves, TInv, TypeOK, BackupTypes, Backups, TextGoesOn
<1>2. UNCHANGED <<io, cache, suspended, shutdown>>
  BY DEF Moves, shutdownVars
<1>3. CASE versionId < versionId'
  BY <1>1, <1>2, <1>3 DEF Discards, Versions
<1>4. CASE versionId' = versionId
  <2>1. text' = text /\ Asked \subseteq Asked'
    BY <1>1, <1>4 DEF TextGoesOn
  <2>2. CASE Scheduled \/ DiscardScheduled
    <3>1. operation'.kind \in {"discard", "discarding"} => text' \in Asked'
      BY <1>1, <1>4, <2>2 DEF Scheduled, DiscardScheduled
    <3> QED BY <1>1, <1>2, <1>4, <2>1, <3>1 DEF Discards
  <2>3. CASE Unheard
    BY <1>1, <1>2, <1>4, <2>1, <2>3 DEF Discards, Unheard
  <2> QED BY <2>2, <2>3 DEF Moves
<1> QED BY <1>1, <1>3, <1>4 DEF TextGoesOn

\* A text that is dirty has its backup or is told of.
LEMMA MovesTold ==
    ASSUME HInv, Moves
    PROVE  Told' /\ Exits'
<1>1. /\ Told /\ Exits /\ Versions /\ Phases /\ TextGoesOn /\ versionId \in Nat
      /\ operation.backup \in Backups /\ cache \in Backups
      /\ finalVersion \in Nat \cup {NoVersion}
  BY DEF HInv, Moves, TInv, TypeOK, BackupTypes
<1>2. UNCHANGED <<io, cache, suspended, shutdown, finalVersion>>
  BY DEF Moves, shutdownVars
<1>3. Told'
  <2>1. CASE Scheduled
    BY <2>1 DEF Scheduled, Told, BackupOnTheWay
  <2>2. CASE DiscardScheduled
    BY <2>2 DEF DiscardScheduled, Told, Unsaved
  <2>3. CASE Unheard
    <3>1. CASE ~dirty' \/ untold'
      BY <3>1 DEF Told, Unsaved
    <3>2. CASE dirty' /\ ~untold'
      <4>1. /\ dirty /\ ~untold /\ versionId' = versionId /\ text' = text
            /\ operation' = operation
        BY <1>1, <2>3, <3>2 DEF Unheard, TextGoesOn
      <4> QED
        BY <1>1, <1>2, <4>1
        DEF Told, Unsaved, BackupOnTheWay, Safe, TextGoesOn, Asked
    <3> QED BY <3>1, <3>2
  <2> QED BY <2>1, <2>2, <2>3 DEF Moves
<1>4. Exits'
  <2>0. finalVersion <= versionId
    BY <1>1 DEF Exits
  <2>1. finalVersion' <= versionId'
    BY <1>1, <1>2, <2>0 DEF NoVersion, TextGoesOn
  <2>2. versionId' = finalVersion' => versionId = finalVersion /\ text' = text
    BY <1>1, <1>2, <2>0 DEF NoVersion, TextGoesOn
  <2>3. shutdown \in {"backing", "discarding"} => operation' = operation
    BY <1>1 DEF Phases, Moves, Scheduled, DiscardScheduled, Unheard
  <2>4. text \in Asked \/ Safe => (text' \in Asked' \/ Safe' \/ versionId' # finalVersion')
    BY <1>1, <1>2, <2>2 DEF Safe, TextGoesOn, Exits
  <2> QED BY <1>1, <1>2, <2>1, <2>2, <2>3, <2>4 DEF Exits, TextGoesOn
<1> QED BY <1>3, <1>4

\* All of it.
LEMMA TextStepKeeps ==
    ASSUME HInv, TextSteps
    PROVE  HInv'
<1>1. TInv /\ FlagsKnown /\ BackupTypes /\ Next
  BY TextStepsAreSteps DEF HInv
<1>2. Moves /\ untold' \in BOOLEAN /\ TInv' /\ FlagsKnown'
  BY <1>1, TextMoves, UntoldType, TInvStep, FlagsKnownStep
<1> QED
  BY <1>2, MovesTypes, MovesPhases, MovesVersions, MovesDiscards, MovesTold DEF HInv

-----------------------------------------------------------------------------
(* The tracker and the queue go on, while the text stays. *)

\* The text and what is known of it.
LEMMA TextStays ==
    ASSUME HInv, UNCHANGED textVars
    PROVE  /\ TInv' /\ FlagsKnown'
           /\ UNCHANGED <<text, versionId, dirty, reverting, onDisk, Asked, Unsaved,
                          lastResolvedFileStat>>
           /\ \A b \in Backups : OfVersion(b)' = OfVersion(b)
<1>1. TInv' /\ FlagsKnown'
  BY TInvStep, FlagsKnownStep DEF HInv
<1>2. UNCHANGED <<text, versionId, dirty, reverting, onDisk, reverted,
                  lastResolvedFileStat>>
  BY DEF textVars, modelVars, flags, readVars, fileVars, history
<1> QED BY <1>1, <1>2 DEF Asked, Unsaved, OfVersion

\* What the invariant says of the numbers in it.
LEMMA Numbering ==
    ASSUME HInv
    PROVE  /\ versionId \in Nat /\ text \in Texts /\ lastResolvedFileStat \in Stats
           /\ operation.backup \in Backups /\ io.backup \in Backups
           /\ cache \in Backups /\ backupFile \in Backups
           /\ operation.backup.version \in Nat /\ io.backup.version \in Nat
           /\ cache.version \in Nat
           /\ finalVersion \in Nat \cup {NoVersion}
BY DEF HInv, TInv, TypeOK, BackupTypes, Backups

\* The backup that is begun is of the text of now.
LEMMA PresentBackup ==
    ASSUME HInv
    PROVE  LET b == [text |-> text, stat |-> lastResolvedFileStat, version |-> versionId]
           IN  /\ b \in Backups /\ Complete(b) /\ OfVersion(b) /\ Encoded(b)
               /\ b.text \in Texts /\ b.version = versionId
BY Numbering DEF Backups, Complete, OfVersion, Encoded

\* A cache that has the backup of this version has that of this text.
LEMMA CacheIsSafe ==
    ASSUME HInv, cache.text # NoText, cache.version = versionId, shutdown # "discarding"
    PROVE  text \in Asked \/ Safe
BY Numbering DEF HInv, TextsOfVersions, OfVersion, Discards, Asked, Safe

\* The timer.
LEMMA BackupTimerKeeps ==
    ASSUME HInv, BackupTimer
    PROVE  HInv'
<1> DEFINE b == [text |-> text, stat |-> lastResolvedFileStat, version |-> versionId]
<1>1. UNCHANGED <<io, cache, backupFile, suspended, shutdown, finalVersion, untold, restarts>>
  BY DEF BackupTimer, shutdownVars
<1>2. /\ UNCHANGED textVars
      /\ operation.kind = "timer"
      /\ IF dirty THEN operation' = [kind |-> "encode", backup |-> b]
                  ELSE operation' = NoOperation
  BY DEF BackupTimer
<1>3. shutdown \notin {"backup", "confirm", "backing", "discarding", "wiping"}
  BY <1>2 DEF HInv, Phases
<1>4. /\ operation'.kind \in {"none", "encode"}
      /\ operation'.backup \in Backups /\ Complete(operation'.backup)
      /\ operation' = [kind |-> operation'.kind, backup |-> operation'.backup]
      /\ operation'.kind = "encode" =>
            dirty /\ operation'.backup = b
      /\ operation'.kind = "none" => operation' = NoOperation /\ ~dirty
  BY <1>2, PresentBackup, NoBackupFacts DEF NoOperation
<1>5. TInv' /\ FlagsKnown'
  BY <1>2, TextStays
<1>6. (BackupTypes /\ Operations /\ Phases)'
  <2>1. BackupTypes'
    BY <1>1, <1>4 DEF HInv, BackupTypes
  <2>2. Operations'
    BY <1>1, <1>4, PresentBackup DEF HInv, Operations, Complete
  <2>3. Phases'
    BY <1>1, <1>3 DEF HInv, Phases
  <2> QED BY <2>1, <2>2, <2>3
<1>7. (Versions /\ TextsOfVersions)'
  <2>1. ~Numbered'
    BY <1>1, <1>3, <1>4 DEF Numbered
  <2>2. Versions'
    BY <1>1, <1>2, <1>4, <2>1, TextStays, Numbering, NoBackupFacts, PresentBackup
    DEF HInv, Versions
  <2>3. operation'.kind = "encode" => Encoded(operation.backup)'
    BY <1>2, <1>4, TextStays DEF Encoded
  <2>4. TextsOfVersions'
    BY <1>1, <1>2, <2>1, <2>3, TextStays, Numbering DEF HInv, TextsOfVersions
  <2> QED BY <2>2, <2>4
<1>8. (Discards /\ Told)'
  <2>1. Discards'
    BY <1>1, <1>2, <1>4, TextStays DEF HInv, Discards
  <2>2. Told'
    BY <1>1, <1>2, <1>4, TextStays DEF Told, BackupOnTheWay, Unsaved
  <2> QED BY <2>1, <2>2
<1>9. Exits'
  BY <1>1, <1>2, <1>3, TextStays DEF HInv, Exits, Safe
<1> QED BY <1>5, <1>6, <1>7, <1>8, <1>9 DEF HInv

\* The operation is over, or cancelled, and the backup is as good as it can be.
LEMMA NothingToDo ==
    ASSUME HInv, operation' = NoOperation, UNCHANGED textVars,
           UNCHANGED <<io, cache, backupFile, suspended, shutdown, finalVersion, untold,
                       restarts>>,
           shutdown # "discarding",
           dirty /\ ~untold => text \in Asked \/ Safe,
           shutdown = "backing" /\ versionId = finalVersion => text \in Asked \/ Safe
    PROVE  HInv'
<1>1. operation'.kind = "none" /\ operation'.backup = NoBackup /\ operation'.backup.version = 0
  BY NoBackupFacts
<1>2. TInv' /\ FlagsKnown'
  BY TextStays
<1>3. BackupTypes'
  BY <1>1, NoBackupFacts DEF HInv, BackupTypes, NoOperation
<1>4. Operations'
  BY <1>1, NoBackupFacts DEF HInv, Operations, Complete
<1>5. Phases'
  BY <1>1, TextStays DEF HInv, Phases
<1>6. Versions'
  BY <1>1, TextStays, Numbering DEF HInv, Versions, Numbered
<1>7. TextsOfVersions'
  BY <1>1, TextStays, Numbering DEF HInv, TextsOfVersions, Numbered
<1>8. Discards'
  BY <1>1, TextStays DEF HInv, Discards
<1>9. Told'
  BY <1>1, TextStays DEF Told, Unsaved, Safe, Asked
<1>10. Exits'
  BY <1>1, TextStays DEF HInv, Exits, Safe
<1> QED
  BY <1>2, <1>3, <1>4, <1>5, <1>6, <1>7, <1>8, <1>9, <1>10 DEF HInv

\* The text is encoded.
LEMMA BackupEncodedKeeps ==
    ASSUME HInv, BackupEncoded
    PROVE  HInv'
<1> DEFINE b == [operation.backup EXCEPT
                    !.version = IF shutdown = "backing" THEN @ ELSE versionId]
<1>1. UNCHANGED <<io, cache, backupFile, suspended, shutdown, finalVersion, untold, restarts>>
  BY DEF BackupEncoded, shutdownVars
<1>2. /\ UNCHANGED textVars
      /\ operation.kind = "encode"
      /\ operation' = IF (dirty \/ shutdown = "backing") /\ ~Has(b)
                      THEN [kind |-> "store", backup |-> b] ELSE NoOperation
  BY DEF BackupEncoded
<1>3. shutdown \notin {"backup", "confirm", "discarding", "wiping"}
  BY <1>2 DEF HInv, Phases
<1>4. /\ b \in Backups /\ b.text = operation.backup.text /\ b.stat = operation.backup.stat
      /\ b.version = IF shutdown = "backing" THEN operation.backup.version ELSE versionId
  BY Numbering DEF Backups
<1>5. b.text \in Texts /\ Complete(b)
  BY <1>2, <1>4 DEF HInv, Operations, Complete
<1>6. /\ b.version <= versionId /\ cache.version <= b.version
      /\ io.backup.version <= b.version
      /\ shutdown = "backing" => finalVersion <= b.version
  BY <1>2, <1>4, Numbering DEF HInv, Versions, Numbered, Exits
<1>7. dirty \/ shutdown = "backing" => OfVersion(b)
  BY <1>2, <1>4 DEF HInv, TextsOfVersions, Numbered, OfVersion, Encoded
<1>8. TInv' /\ FlagsKnown'
  BY <1>2, TextStays
<1>9. CASE (dirty \/ shutdown = "backing") /\ ~Has(b)
  <2>1. operation' = [kind |-> "store", backup |-> b]
    BY <1>2, <1>9
  <2>2. operation'.kind = "store" /\ operation'.backup = b
    BY <2>1
  <2> HIDE DEF b
  <2>3. BackupTypes'
    BY <1>1, <1>4, <2>1 DEF HInv, BackupTypes
  <2>4. Operations'
    BY <1>1, <1>5, <2>2 DEF HInv, Operations, Complete
  <2>5. Phases'
    BY <1>1, <1>2, <1>3, <2>2, TextStays DEF HInv, Phases
  <2>6. Versions'
    BY <1>1, <1>2, <1>6, <2>2, TextStays DEF HInv, Versions
  <2>7. TextsOfVersions'
    BY <1>1, <1>2, <1>4, <1>7, <1>9, <2>2, TextStays, Numbering DEF HInv, TextsOfVersions
  <2>8. Discards'
    BY <1>1, <1>2, <2>2, TextStays DEF HInv, Discards
  <2>9. Told'
    BY <1>1, <1>2, <1>4, <2>2, TextStays DEF HInv, Told, Phases, BackupOnTheWay
  <2>10. Exits'
    BY <1>1, <1>2, <1>6, <2>2, TextStays DEF HInv, Exits, Safe
  <2> QED
    BY <1>8, <2>3, <2>4, <2>5, <2>6, <2>7, <2>8, <2>9, <2>10 DEF HInv
<1>10. CASE ~((dirty \/ shutdown = "backing") /\ ~Has(b))
  <2>1. operation' = NoOperation
    BY <1>2, <1>10
  <2>2. /\ dirty /\ ~untold => text \in Asked \/ Safe
        /\ shutdown = "backing" /\ versionId = finalVersion => text \in Asked \/ Safe
    <3>1. CASE Has(b)
      <4>1. cache.text # NoText /\ cache.version = b.version
        BY <3>1 DEF Has
      <4>2. b.version = versionId => text \in Asked \/ Safe
        BY <1>3, <4>1, CacheIsSafe
      <4>3. dirty /\ ~untold => b.version = versionId
        BY <1>4 DEF HInv, Phases
      <4>4. shutdown = "backing" /\ versionId = finalVersion => b.version = versionId
        BY <1>4, <1>6, Numbering
      <4> QED BY <4>2, <4>3, <4>4
    <3>2. CASE ~Has(b)
      BY <1>10, <3>2
    <3> QED BY <3>1, <3>2
  <2> HIDE DEF b
  <2> QED BY <1>1, <1>2, <1>3, <2>1, <2>2, NothingToDo
<1> QED BY <1>9, <1>10

\* The queue takes the operation, or finds the backup there already.
LEMMA QueueRunsKeeps ==
    ASSUME HInv, QueueRuns
    PROVE  HInv'
<1>1. UNCHANGED <<cache, backupFile, suspended, shutdown, finalVersion, untold, restarts>>
  BY DEF QueueRuns, shutdownVars
<1>2. UNCHANGED textVars /\ io = NoIO /\ io.kind = "none" /\ io.backup = NoBackup
  BY NoBackupFacts DEF QueueRuns, NoIO
<1>3. TInv' /\ FlagsKnown'
  BY <1>2, TextStays
<1>4. CASE operation.kind = "store" /\ Has(operation.backup) /\ operation' = NoOperation
           /\ UNCHANGED io
  <2>1. shutdown # "discarding"
    BY <1>4 DEF HInv, Phases
  <2>2. operation.backup.version = versionId => text \in Asked \/ Safe
    BY <1>4, <2>1, CacheIsSafe DEF Has
  <2>3. dirty /\ ~untold => text \in Asked \/ Safe
    BY <1>4, <2>2 DEF HInv, Told
  <2>4. shutdown = "backing" /\ versionId = finalVersion => text \in Asked \/ Safe
    BY <1>4, <2>2, Numbering DEF HInv, Exits, Versions
  <2> QED BY <1>1, <1>2, <1>4, <2>1, <2>3, <2>4, NothingToDo
<1>5. CASE operation.kind = "store" /\ ~Has(operation.backup) /\ io' = operation
           /\ operation' = [operation EXCEPT !.kind = "storing"]
  <2>1. /\ operation'.kind = "storing" /\ operation'.backup = operation.backup
        /\ io'.kind = "store" /\ io'.backup = operation.backup
        /\ operation' = [kind |-> "storing", backup |-> operation.backup]
        /\ io' = [kind |-> "store", backup |-> operation.backup]
    BY <1>5 DEF HInv, BackupTypes
  <2>2. BackupTypes'
    BY <1>1, <2>1, Numbering DEF HInv, BackupTypes
  <2>3. Operations'
    BY <1>1, <1>5, <2>1 DEF HInv, Operations, Complete
  <2>4. Phases'
    BY <1>1, <1>2, <1>5, <2>1, TextStays DEF HInv, Phases
  <2>5. Versions'
    BY <1>1, <1>2, <1>5, <2>1, TextStays, Numbering DEF HInv, Versions, Numbered
  <2>6. TextsOfVersions'
    BY <1>1, <1>2, <1>5, <2>1, TextStays, Numbering DEF HInv, TextsOfVersions, Numbered
  <2>7. Discards'
    BY <2>1 DEF Discards
  <2>8. Told'
    BY <1>1, <1>2, <1>5, <2>1, TextStays DEF HInv, Told, BackupOnTheWay
  <2>9. Exits'
    BY <1>1, <1>2, <1>5, <2>1, TextStays DEF HInv, Exits, Safe
  <2> QED
    BY <1>3, <2>2, <2>3, <2>4, <2>5, <2>6, <2>7, <2>8, <2>9 DEF HInv
<1>6. CASE operation.kind = "discard" /\ io' = operation
           /\ operation' = [operation EXCEPT !.kind = "discarding"]
  <2>1. /\ operation'.kind = "discarding" /\ operation'.backup = NoBackup
        /\ io'.kind = "discard" /\ io'.backup = NoBackup
        /\ operation' = [kind |-> "discarding", backup |-> NoBackup]
        /\ io' = [kind |-> "discard", backup |-> NoBackup]
    BY <1>6 DEF HInv, BackupTypes, Operations
  <2>2. BackupTypes'
    BY <1>1, <2>1, NoBackupFacts DEF HInv, BackupTypes
  <2>3. Operations'
    BY <1>1, <1>6, <2>1, NoBackupFacts DEF HInv, Operations, Complete
  <2>4. shutdown \notin {"backup", "confirm", "backing", "wiping"}
    BY <1>6 DEF HInv, Phases
  <2>5. Phases'
    BY <1>1, <1>2, <1>6, <2>1, TextStays DEF HInv, Phases
  <2>6. Versions'
    BY <1>1, <1>2, <1>6, <2>1, NoBackupFacts, TextStays, Numbering
    DEF HInv, Versions, Numbered
  <2>7. TextsOfVersions'
    BY <1>1, <1>2, <1>6, <2>1, NoBackupFacts, TextStays, Numbering
    DEF HInv, TextsOfVersions, Numbered, OfVersion
  <2>8. \/ shutdown = "discarding" \/ text \in Asked
        \/ cache.text = NoText \/ cache.version < versionId
    BY <1>6 DEF HInv, Discards
  <2>9. Discards'
    BY <1>1, <1>2, <2>1, <2>8, TextStays DEF Discards
  <2>12. Safe => shutdown = "discarding" \/ text \in Asked
    BY <2>8, Numbering, NoBackupFacts DEF Safe
  <2>10. Told'
    <3>1. Unsaved => text \notin Asked /\ dirty
      BY DEF Unsaved, Asked
    <3>2. ~(Unsaved /\ ~untold)
      BY <1>6, <2>12, <3>1 DEF HInv, Told, BackupOnTheWay, Phases
    <3> QED BY <1>1, <1>2, <2>1, <3>2, TextStays DEF Told
  <2>11. Exits'
    BY <1>1, <1>2, <2>1, <2>4, <2>12, TextStays DEF HInv, Exits
  <2> QED
    BY <1>3, <2>2, <2>3, <2>5, <2>6, <2>7, <2>9, <2>10, <2>11 DEF HInv
<1> QED BY <1>4, <1>5, <1>6 DEF QueueRuns

\* The backup is written or gone.
LEMMA QueueEndsKeeps ==
    ASSUME HInv, QueueEnds
    PROVE  HInv'
<1>1. UNCHANGED <<suspended, shutdown, finalVersion, untold, restarts>>
  BY DEF QueueEnds, shutdownVars
<1>2. /\ UNCHANGED textVars /\ io # NoIO
      /\ cache' = io.backup /\ backupFile' = io.backup
      /\ io' = NoIO /\ io'.kind = "none" /\ io'.backup = NoBackup
      /\ io' = [kind |-> "none", backup |-> NoBackup]
  BY NoBackupFacts DEF QueueEnds, NoIO, NoOperation
<1>3. io.kind \in {"store", "discard"} /\ (io.kind = "discard" => io.backup = NoBackup)
  BY <1>2 DEF HInv, BackupTypes, Operations
<1>4. \/ /\ operation.kind \in {"storing", "discarding"} /\ operation' = NoOperation
         /\ operation'.kind = "none" /\ operation'.backup = NoBackup
      \/ /\ operation.kind \notin {"storing", "discarding"}
         /\ operation' = operation
  BY NoBackupFacts DEF QueueEnds
<1>5. TInv' /\ FlagsKnown'
  BY <1>2, TextStays
<1>6. operation' = [kind |-> operation'.kind, backup |-> operation'.backup]
      /\ operation'.kind \in {"none", "timer", "encode", "store", "storing",
                              "discard", "discarding"}
      /\ operation'.backup \in Backups
  BY <1>4, NoBackupFacts DEF HInv, BackupTypes, NoOperation
<1>7. BackupTypes'
  BY <1>1, <1>2, <1>6, NoBackupFacts, Numbering DEF HInv, BackupTypes
<1>8. Operations'
  BY <1>2, <1>4, NoBackupFacts DEF HInv, Operations, Complete
<1>9. Phases'
  BY <1>1, <1>2, <1>4, TextStays DEF HInv, Phases
<1>10. Versions'
  BY <1>1, <1>2, <1>4, NoBackupFacts, TextStays, Numbering DEF HInv, Versions, Numbered
<1>11. TextsOfVersions'
  <2>1. OfVersion(io.backup)' /\ OfVersion(cache)'
    BY <1>2, NoBackupFacts, TextStays, Numbering DEF HInv, TextsOfVersions, OfVersion
  <2>2. Numbered' => OfVersion(operation.backup)'
    BY <1>1, <1>2, <1>4, TextStays, Numbering DEF HInv, TextsOfVersions, Numbered
  <2>3. operation'.kind = "encode" /\ shutdown' # "backing" => Encoded(operation.backup)'
    BY <1>1, <1>2, <1>4, TextStays DEF HInv, TextsOfVersions, Encoded
  <2> QED BY <2>1, <2>2, <2>3 DEF TextsOfVersions
<1>12. Discards'
  BY <1>1, <1>2, <1>3, <1>4, NoBackupFacts, TextStays DEF HInv, Discards
<1>13. Safe => text \in Asked \/ Safe'
  <2>1. ASSUME Safe, text \notin Asked PROVE Safe'
    <3>1. io.kind = "store" /\ io.backup.text \in Texts
      BY <1>3, <2>1 DEF Safe, HInv, Operations
    <3>2. io.backup.version = versionId
      BY <2>1, <3>1, Numbering DEF Safe, HInv, Versions
    <3>3. io.backup.text = text
      BY <2>1, <3>1, <3>2, NoBackupFacts DEF HInv, TextsOfVersions, OfVersion, Asked
    <3> QED BY <1>2, <3>2, <3>3, TextStays DEF Safe
  <2> QED BY <2>1
<1>14. operation.kind = "storing" /\ io.backup.version = versionId => text \in Asked \/ Safe'
  <2>1. ASSUME operation.kind = "storing", io.backup.version = versionId, text \notin Asked
        PROVE  Safe'
    <3>1. io.backup.text \in Texts
      BY <2>1 DEF HInv, Operations
    <3>2. io.backup.text = text
      BY <2>1, <3>1, NoBackupFacts DEF HInv, TextsOfVersions, OfVersion, Asked
    <3> QED BY <1>2, <2>1, <3>2, TextStays DEF Safe
  <2> QED BY <2>1
<1>15. operation.kind = "storing" => io.backup = operation.backup
  BY DEF HInv, Operations
<1>16. Told'
  <2>1. operation'.kind \in {"store", "storing"} /\ dirty' /\ ~untold' =>
          operation'.backup.version = versionId' \/ text' \in Asked'
    <3>1. operation.kind \in {"store", "storing"} /\ dirty /\ ~untold =>
              operation.backup.version = versionId \/ text \in Asked
      BY DEF HInv, Told
    <3>2. UNCHANGED <<dirty, untold, versionId, text, Asked>>
      BY <1>1, <1>2, TextStays
    <3> QED BY <1>4, <3>1, <3>2
  <2>2. ASSUME Unsaved, ~untold PROVE BackupOnTheWay' \/ Safe'
    <3>1. text \notin Asked /\ dirty
      BY <2>2 DEF Unsaved, Asked
    <3>2. CASE Safe
      BY <1>13, <3>1, <3>2
    <3>3. CASE operation.kind = "storing"
      BY <1>14, <1>15, <2>2, <3>1, <3>3 DEF HInv, Told
    <3>4. CASE operation.kind \in {"timer", "encode", "store"}
      BY <1>4, <3>4 DEF BackupOnTheWay
    <3> QED BY <2>2, <3>2, <3>3, <3>4 DEF HInv, Told, BackupOnTheWay
  <2>3. Unsaved' = Unsaved
    BY <1>2, TextStays
  <2> QED BY <1>1, <2>1, <2>2, <2>3 DEF Told
<1>17. Exits'
  <2>1. shutdown = "backing" /\ operation.kind = "storing" /\ versionId = finalVersion
          => io.backup.version = versionId
    BY <1>15, Numbering DEF HInv, Exits, Versions
  <2>2. shutdown = "backing" => operation.kind # "discarding"
    BY DEF HInv, Phases
  <2> QED
    BY <1>1, <1>2, <1>4, <1>13, <1>14, <2>1, <2>2, TextStays DEF HInv, Exits
<1> QED
  BY <1>5, <1>7, <1>8, <1>9, <1>10, <1>11, <1>12, <1>16, <1>17 DEF HInv

-----------------------------------------------------------------------------
(* The shutdown. *)

\* A shutdown begins: what is dirty is backed up or asked about, and nothing
\* that is clean needs a backup.
LEMMA ShutdownBeginsKeeps ==
    ASSUME HInv, ShutdownBegins
    PROVE  HInv'
<1>1. /\ UNCHANGED <<io, cache, backupFile, restarts>> /\ UNCHANGED textVars
      /\ shutdown = "no" /\ suspended' = TRUE
  BY DEF ShutdownBegins
<1>2. TInv' /\ FlagsKnown' /\ dirty \in BOOLEAN
  BY <1>1, TextStays DEF HInv, TInv, TypeOK
<1>3. \/ /\ dirty /\ untold' = TRUE /\ finalVersion' = versionId
         /\ shutdown' \in {"backup", "confirm"}
      \/ /\ ~dirty /\ untold' = FALSE /\ finalVersion' = NoVersion
         /\ shutdown' = "wiping"
  BY <1>2 DEF ShutdownBegins
<1>4. /\ operation' = NoOperation /\ operation'.backup = NoBackup
      /\ operation'.kind = "none"
  BY NoBackupFacts DEF ShutdownBegins
<1>5. operation' = [kind |-> "none", backup |-> NoBackup]
  BY <1>4 DEF NoOperation
<1>6. BackupTypes'
  BY <1>1, <1>3, <1>4, <1>5, NoBackupFacts, Numbering DEF HInv, BackupTypes
<1>7. Operations'
  BY <1>1, <1>3, <1>4, NoBackupFacts DEF HInv, Operations, Complete
<1>8. Phases'
  BY <1>1, <1>3, <1>4, TextStays DEF Phases
<1>9. Versions'
  BY <1>1, <1>4, NoBackupFacts, TextStays, Numbering DEF HInv, Versions, Numbered
<1>10. TextsOfVersions'
  BY <1>1, <1>4, TextStays, Numbering DEF HInv, TextsOfVersions, Numbered
<1>11. Discards'
  BY <1>1, <1>3, <1>4, TextStays DEF HInv, Discards
<1>12. Told'
  BY <1>1, <1>3, <1>4, TextStays DEF Told, Unsaved
<1>13. Exits'
  BY <1>1, <1>3, <1>4, TextStays, Numbering DEF Exits, NoVersion
<1> QED
  BY <1>2, <1>6, <1>7, <1>8, <1>9, <1>10, <1>11, <1>12, <1>13 DEF HInv

\* Without a dirty text there is no backup to keep, whatever the queue runs.
LEMMA DiscardBackupsKeeps ==
    ASSUME HInv, DiscardBackups
    PROVE  HInv'
<1>1. /\ UNCHANGED <<operation, io, finalVersion, untold, restarts>> /\ UNCHANGED textVars
      /\ shutdown = "wiping" /\ shutdown' = "closing" /\ suspended' = FALSE
      /\ cache' = NoBackup /\ backupFile' = NoBackup
  BY DEF DiscardBackups
<1>2. TInv' /\ FlagsKnown'
  BY <1>1, TextStays
<1>3. operation.kind = "none" /\ (dirty => untold) /\ finalVersion = NoVersion
  BY <1>1 DEF HInv, Phases, Exits
<1>4. BackupTypes'
  BY <1>1, NoBackupFacts DEF HInv, BackupTypes
<1>5. Operations'
  BY <1>1, NoBackupFacts DEF HInv, Operations, Complete
<1>6. Phases'
  BY <1>1, <1>3 DEF Phases
<1>7. Versions'
  BY <1>1, <1>3, NoBackupFacts, TextStays, Numbering DEF HInv, Versions, Numbered
<1>8. TextsOfVersions'
  BY <1>1, <1>3, NoBackupFacts, TextStays, Numbering
  DEF HInv, TextsOfVersions, Numbered, OfVersion
<1>9. Discards'
  BY <1>1, <1>3, NoBackupFacts DEF Discards
<1>10. Told'
  BY <1>1, <1>3, TextStays DEF Told, Unsaved
<1>11. Exits'
  BY <1>1, <1>3, TextStays, Numbering DEF Exits, NoVersion
<1> QED
  BY <1>2, <1>4, <1>5, <1>6, <1>7, <1>8, <1>9, <1>10, <1>11 DEF HInv

\* The backup of this version is there, or is begun.
LEMMA BackupBeforeShutdownKeeps ==
    ASSUME HInv, BackupBeforeShutdown
    PROVE  HInv'
<1> DEFINE b == [text |-> text, stat |-> lastResolvedFileStat, version |-> versionId]
<1>1. /\ UNCHANGED <<io, cache, backupFile, finalVersion, untold, restarts>>
      /\ UNCHANGED textVars /\ shutdown = "backup"
  BY DEF BackupBeforeShutdown
<1>2. TInv' /\ FlagsKnown'
  BY <1>1, TextStays
<1>3. operation.kind = "none" /\ untold /\ suspended
  BY <1>1 DEF HInv, Phases
<1>4. \/ /\ cache.text # NoText /\ cache.version = versionId
         /\ shutdown' = "closing" /\ suspended' = FALSE /\ operation' = operation
      \/ /\ shutdown' = "backing" /\ suspended' = suspended
         /\ operation' = [kind |-> "encode", backup |-> b]
  BY DEF BackupBeforeShutdown
<1> HIDE DEF b
<1>5. \/ /\ operation' = operation /\ operation'.kind = "none" /\ shutdown' = "closing"
      \/ /\ operation'.kind = "encode" /\ operation'.backup = b /\ shutdown' = "backing"
         /\ operation' = [kind |-> "encode", backup |-> b]
  <2>1. CASE shutdown' = "backing" /\ operation' = [kind |-> "encode", backup |-> b]
    <3>1. operation'.kind = "encode" /\ operation'.backup = b
      BY <2>1
    <3> QED BY <2>1, <3>1
  <2>2. CASE shutdown' = "closing" /\ operation' = operation
    <3>1. operation'.kind = "none"
      BY <1>3, <2>2
    <3> QED BY <2>2, <3>1
  <2> QED BY <1>4, <2>1, <2>2
<1>6. /\ b \in Backups /\ Complete(b) /\ OfVersion(b)
      /\ b.text \in Texts /\ b.version = versionId
  BY PresentBackup DEF b
<1>7. BackupTypes'
  BY <1>1, <1>4, <1>5, <1>6 DEF HInv, BackupTypes
<1>8. Operations'
  BY <1>1, <1>5, <1>6 DEF HInv, Operations, Complete
<1>9. Phases'
  BY <1>1, <1>3, <1>4, <1>5, TextStays DEF Phases
<1>10. Versions'
  BY <1>1, <1>5, <1>6, TextStays, Numbering DEF HInv, Versions, Numbered
<1>11. TextsOfVersions'
  <2>1. OfVersion(cache)' /\ OfVersion(io.backup)'
    BY <1>1, TextStays, Numbering DEF HInv, TextsOfVersions
  <2>2. Numbered' => OfVersion(operation.backup)'
    BY <1>1, <1>5, <1>6, TextStays DEF Numbered
  <2> QED BY <1>5, <2>1, <2>2 DEF TextsOfVersions
<1>12. Discards'
  BY <1>1, <1>5, TextStays DEF HInv, Discards
<1>13. Told'
  BY <1>1, <1>3, <1>5 DEF Told
<1>14. Exits'
  <2>1. shutdown' = "closing" => text \in Asked \/ Safe
    BY <1>1, <1>4, CacheIsSafe
  <2>2. Safe' = Safe
    BY <1>1, TextStays DEF Safe
  <2> QED
    BY <1>1, <1>5, <1>6, <2>1, <2>2, TextStays, Numbering DEF HInv, Exits
<1> QED
  BY <1>2, <1>7, <1>8, <1>9, <1>10, <1>11, <1>12, <1>13, <1>14 DEF HInv

\* The operation of the shutdown is over, or the user does not wait for it, or
\* cancels the shutdown.
LEMMA ShutdownGoesOnKeeps ==
    ASSUME HInv, BackedUpBeforeShutdown \/ StopBackingUp \/ ConfirmCancel
    PROVE  HInv'
<1>1. /\ UNCHANGED <<io, cache, backupFile, finalVersion, untold, restarts>>
      /\ UNCHANGED textVars
  BY DEF BackedUpBeforeShutdown, StopBackingUp, ConfirmCancel, backupVars
<1>2. TInv' /\ FlagsKnown'
  BY <1>1, TextStays
<1>3. \/ /\ shutdown = "backing" \/ (shutdown = "discarding" /\ io.kind = "none")
         /\ operation.kind = "none" /\ shutdown' = "closing" /\ suspended' = FALSE
      \/ shutdown = "backing" /\ shutdown' = "confirm" /\ suspended' = suspended
      \/ shutdown = "confirm" /\ shutdown' = "no" /\ suspended' = FALSE
  <2>1. CASE BackedUpBeforeShutdown
    BY <2>1, NoBackupFacts DEF BackedUpBeforeShutdown, HInv, Phases
  <2>2. CASE StopBackingUp
    BY <2>2 DEF StopBackingUp
  <2>3. CASE ConfirmCancel
    BY <2>3 DEF ConfirmCancel
  <2> QED BY <2>1, <2>2, <2>3
<1>4. operation' = NoOperation
  BY DEF BackedUpBeforeShutdown, StopBackingUp, ConfirmCancel, backupVars, HInv,
         Phases, Operations
<1>5. operation'.kind = "none" /\ operation'.backup = NoBackup
  BY <1>4, NoBackupFacts
<1>6. dirty => untold
  BY <1>3 DEF HInv, Phases
<1>7. BackupTypes'
  BY <1>1, <1>3, <1>4, <1>5, NoBackupFacts DEF HInv, BackupTypes, NoOperation
<1>8. Operations'
  BY <1>1, <1>4, <1>5, NoBackupFacts DEF HInv, Operations, Complete
<1>9. Phases'
  BY <1>1, <1>3, <1>5, TextStays DEF HInv, Phases
<1>10. Versions'
  BY <1>1, <1>5, NoBackupFacts, TextStays, Numbering DEF HInv, Versions, Numbered
<1>11. TextsOfVersions'
  BY <1>1, <1>5, TextStays, Numbering DEF HInv, TextsOfVersions, Numbered
<1>12. Discards'
  BY <1>1, <1>3, <1>5, TextStays DEF HInv, Discards
<1>13. Told'
  BY <1>1, <1>5, <1>6, TextStays DEF Told, Unsaved
<1>14. Exits'
  BY <1>1, <1>3, <1>5, TextStays DEF HInv, Exits, Safe
<1> QED
  BY <1>2, <1>7, <1>8, <1>9, <1>10, <1>11, <1>12, <1>13, <1>14 DEF HInv

\* The user does not want the text.
LEMMA DontSaveKeeps ==
    ASSUME HInv, ConfirmDontSave
    PROVE  HInv'
<1>1. /\ UNCHANGED <<io, cache, backupFile, suspended, finalVersion, untold, restarts>>
      /\ UNCHANGED <<modelVars, lastResolvedFileStat, saveVars, readVars, fileVars, mislaid>>
      /\ shutdown = "confirm" /\ shutdown' = "discarding"
      /\ operation' = [kind |-> "discard", backup |-> NoBackup]
      /\ operation'.kind = "discard" /\ operation'.backup = NoBackup
      /\ dirty' = FALSE /\ inConflictMode' = FALSE /\ inErrorMode' = FALSE
      /\ bufferSavedVersionId' = text /\ reverted' = reverted \cup {text}
  BY DEF ConfirmDontSave, SetDirty, NoOperation
<1>2. UNCHANGED <<text, versionId, held, lastText, lastResolvedFileStat, pending, next,
                  saves, resolving, reverting, reloads, failedReverts, file, fileChanged,
                  onDisk, mislaid>>
  BY <1>1 DEF modelVars, saveVars, readVars, fileVars
<1>3. TInv'
  <2>1. TypeOK'
    BY <1>1, <1>2 DEF HInv, TInv, TypeOK
  <2>2. SavesInv' /\ WritesVersion' /\ TimeLeft' /\ ReloadCounted' /\ ReadHolds'
    BY <1>2 DEF HInv, TInv, SavesInv, OneRuns, PendingRuns, NextWaits, Idle,
                WritesVersion, TimeLeft, HasToWrite, ReloadCounted, ReadHolds, NotReverting
  <2> QED BY <2>1, <2>2 DEF TInv
<1>4. FlagsKnown'
  BY <1>1, <1>2 DEF HInv, FlagsKnown, Given, Asked, Reverting
<1>5. BackupTypes'
  BY <1>1, NoBackupFacts DEF HInv, BackupTypes
<1>6. Operations'
  BY <1>1, NoBackupFacts DEF HInv, Operations, Complete
<1>7. Phases'
  BY <1>1 DEF HInv, Phases
<1>8. Versions'
  BY <1>1, <1>2, NoBackupFacts, Numbering DEF HInv, Versions, Numbered
<1>9. TextsOfVersions'
  BY <1>1, <1>2 DEF HInv, TextsOfVersions, Numbered, OfVersion
<1>10. Discards' /\ Told'
  BY <1>1 DEF Discards, Told, Unsaved
<1>11. Exits'
  BY <1>1, <1>2 DEF HInv, Exits, Asked
<1> QED
  BY <1>3, <1>4, <1>5, <1>6, <1>7, <1>8, <1>9, <1>10, <1>11 DEF HInv

-----------------------------------------------------------------------------
(* The process ends and starts anew. *)

\* Whatever was lost, the text that is restored has its backup scheduled.
LEMMA RestartKeeps ==
    ASSUME HInv, NEW f \in [text : Texts, mtime : 0..MaxTime], NEW b \in Backups,
           Complete(b), Restart(f, b), lastText' \in Texts
    PROVE  HInv'
<1>1. f.text \in Texts /\ f.mtime \in 0..MaxTime /\ StatOf(f) \in Stats
  BY StatType
<1>2. b.text \in Texts => b.stat \in Stats
  BY DEF Complete
<1>3. /\ file' = f /\ fileChanged' = FALSE /\ onDisk' = {f.text}
      /\ \/ b.text \in Texts /\ text' = b.text
         \/ text' = f.text
      /\ versionId' = 0 /\ held' = {text'} /\ dirty' \in BOOLEAN
      /\ inConflictMode' = FALSE /\ inErrorMode' = FALSE
      /\ bufferSavedVersionId' \in {NoText, f.text}
      /\ lastResolvedFileStat' \in Stats
      /\ pending' = NoTask /\ next' = NoWhy /\ saves' = [n \in SaveSlots |-> NoSave]
      /\ resolving' = NoRead /\ reverting' = NoRevert /\ reloads' = 0
      /\ mislaid' = {} /\ failedReverts' = failedReverts /\ reverted' = reverted
  BY <1>1, <1>2 DEF Restart, Restorable
<1>4. /\ restarts' \in 0..MaxRestarts
      /\ backupFile' = b /\ cache' = [b EXCEPT !.version = 0] /\ io' = NoIO
      /\ operation' = [kind |-> operation'.kind, backup |-> NoBackup]
      /\ operation'.kind \in {"none", "timer"} /\ operation'.backup = NoBackup
      /\ dirty' => operation'.kind = "timer"
      /\ operation'.kind = "none" => operation' = NoOperation
      /\ suspended' = FALSE /\ shutdown' = "no"
      /\ finalVersion' = NoVersion /\ untold' = FALSE
  BY MaxRestartsAssumption DEF Restart, NoOperation, HInv, BackupTypes
<1>5. io'.kind = "none" /\ io'.backup = NoBackup
      /\ io' = [kind |-> "none", backup |-> NoBackup]
  BY <1>4 DEF NoIO, NoOperation
<1>6. cache'.text = b.text /\ cache'.version = 0 /\ cache' \in Backups
  BY <1>4 DEF Backups
<1>7. \A n \in SaveSlots : saves'[n] = NoSave /\ saves'[n].phase = "idle"
  BY <1>3 DEF NoSave
<1>8. TInv'
  <2>1. ModelTypes' /\ FlagTypes' /\ FileTypes'
    BY <1>1, <1>3, Numbers DEF ModelTypes, FlagTypes, FileTypes, HInv, TInv, TypeOK
  <2>2. SaveTypes'
    BY <1>3, NoSaveType DEF SaveTypes
  <2>3. ReadTypes'
    BY <1>3, NoRevertType, Numbers DEF ReadTypes, ReadStates, HInv, TInv, TypeOK
  <2>4. TypeOK'
    BY <1>3, <2>1, <2>2, <2>3
    DEF TypeOK, ModelTypes, FlagTypes, SaveTypes, ReadTypes, FileTypes
  <2>5. SavesInv' /\ WritesVersion'
    BY <1>3, <1>7 DEF SavesInv, OneRuns, PendingRuns, NextWaits, Idle, WritesVersion
  <2>6. TimeLeft' /\ ReloadCounted' /\ ReadHolds'
    BY <1>1, <1>3, <1>7, Numbers
    DEF TimeLeft, HasToWrite, ReloadCounted, ReadHolds, NoRevert, NoRead
  <2> QED BY <2>4, <2>5, <2>6 DEF TInv
<1>9. FlagsKnown'
  BY <1>3 DEF FlagsKnown, Given, Asked, Reverting, NoRevert, NoRead
<1>10. BackupTypes'
  BY <1>4, <1>5, <1>6, NoBackupFacts DEF BackupTypes
<1>11. Operations'
  BY <1>4, <1>5, <1>6, NoBackupFacts DEF Operations, NoIO, Complete
<1>12. Phases'
  BY <1>4 DEF Phases
<1>13. Versions' /\ ~Numbered'
  BY <1>3, <1>4, <1>5, <1>6, NoBackupFacts DEF Versions, Numbered
<1>14. TextsOfVersions'
  BY <1>1, <1>3, <1>4, <1>5, <1>6, <1>13, NoBackupFacts DEF TextsOfVersions, OfVersion
<1>15. Discards' /\ Told'
  BY <1>4, <1>5 DEF Discards, Told, Unsaved, BackupOnTheWay
<1>16. Exits'
  BY <1>3, <1>4 DEF Exits, NoVersion
<1> QED
  BY <1>8, <1>9, <1>10, <1>11, <1>12, <1>13, <1>14, <1>15, <1>16 DEF HInv

\* A crash may cut off what is written, and an exit waits for it.
LEMMA EndKeeps ==
    ASSUME HInv, Crash \/ Exit
    PROVE  HInv'
<1>1. /\ file \in [text : Texts, mtime : 0..MaxTime] /\ lastText \in Texts
      /\ backupFile \in Backups /\ Complete(backupFile)
  BY DEF HInv, TInv, TypeOK, BackupTypes, Operations
<1>2. CASE Exit
  BY <1>1, <1>2, RestartKeeps DEF Exit
<1>3. CASE Crash
  <2>1. PICK b \in {backupFile} \cup
                   (IF io.kind = "store"
                    THEN {io.backup, [NoBackup EXCEPT !.text = Truncated]}
                    ELSE IF io.kind = "discard" THEN {NoBackup} ELSE {}) :
          \/ Restart(file, b) /\ UNCHANGED lastText
          \/ /\ \E n \in SaveSlots : saves[n].phase = "write"
             /\ lastText < MaxText /\ lastText' = lastText + 1
             /\ Restart([text |-> lastText + 1, mtime |-> file.mtime + 1], b)
    BY <1>3 DEF Crash
  <2>2. b \in {backupFile, io.backup, NoBackup, [NoBackup EXCEPT !.text = Truncated]}
    BY <2>1
  <2>3. [NoBackup EXCEPT !.text = Truncated] \in Backups
        /\ [NoBackup EXCEPT !.text = Truncated].text = Truncated
    BY DEF NoBackup, Backups
  <2>4. b \in Backups /\ Complete(b)
    <3>1. io.backup \in Backups /\ Complete(io.backup)
      BY Numbering DEF HInv, Operations
    <3>2. Complete([NoBackup EXCEPT !.text = Truncated])
      BY <2>3, NoBackupFacts DEF Complete
    <3> QED BY <1>1, <2>2, <2>3, <3>1, <3>2, NoBackupFacts
  <2>5. CASE Restart(file, b) /\ UNCHANGED lastText
    BY <1>1, <2>4, <2>5, RestartKeeps
  <2>6. CASE /\ \E n \in SaveSlots : saves[n].phase = "write"
             /\ lastText < MaxText /\ lastText' = lastText + 1
             /\ Restart([text |-> lastText + 1, mtime |-> file.mtime + 1], b)
    <3>1. file.mtime + 1 \in 0..MaxTime
      BY <1>1, <2>6, Numbers DEF HInv, TInv, TimeLeft, HasToWrite
    <3>2. lastText' \in Texts /\ lastText + 1 \in Texts
      BY <1>1, <2>6, Numbers DEF Texts
    <3> DEFINE f == [text |-> lastText + 1, mtime |-> file.mtime + 1]
    <3>3. f \in [text : Texts, mtime : 0..MaxTime]
      BY <3>1, <3>2
    <3>4. Restart(f, b)
      BY <2>6
    <3> HIDE DEF f
    <3> QED BY <2>4, <3>2, <3>3, <3>4, RestartKeeps
  <2> QED BY <2>1, <2>5, <2>6
<1> QED BY <1>2, <1>3

-----------------------------------------------------------------------------
(* The invariant, and what it says. *)

\* The process starts on a file without a backup.
LEMMA HotInit == Init => HInv
<1> SUFFICES ASSUME Init PROVE HInv
  OBVIOUS
<1>1. TextInit /\ IInv
  BY InitHolds DEF Init
<1>2. /\ operation = NoOperation /\ io = NoOperation
      /\ cache = NoBackup /\ backupFile = NoBackup
      /\ suspended = FALSE /\ shutdown = "no" /\ finalVersion = NoVersion
      /\ untold = FALSE /\ restarts = 0
  BY DEF Init, NoIO
<1>3. /\ operation.kind = "none" /\ operation.backup = NoBackup
      /\ io.kind = "none" /\ io.backup = NoBackup
      /\ operation = [kind |-> "none", backup |-> NoBackup]
      /\ io = [kind |-> "none", backup |-> NoBackup]
  BY <1>2, NoBackupFacts DEF NoOperation
<1>4. versionId = 0 /\ dirty = FALSE /\ bufferSavedVersionId = 0 /\ onDisk = {0}
      /\ file.text = 0 /\ reverting = NoRevert /\ resolving = NoRead
  BY <1>1 DEF TextInit
<1>5. FlagsKnown
  BY <1>4 DEF FlagsKnown, Given, Asked, Reverting, NoRevert, NoRead
<1>6. BackupTypes
  <2>1. restarts \in 0..MaxRestarts
    BY <1>2, MaxRestartsAssumption
  <2>2. /\ operation \in [kind : {"none", "timer", "encode", "store", "storing",
                                "discard", "discarding"}, backup : Backups]
        /\ io \in [kind : {"none", "store", "discard"}, backup : Backups]
    BY <1>3, NoBackupFacts
  <2> QED BY <1>2, <2>1, <2>2, NoBackupFacts DEF BackupTypes
<1>7. Operations /\ Phases
  BY <1>2, <1>3, NoBackupFacts DEF Operations, Phases, NoIO
<1>8. Versions /\ TextsOfVersions
  BY <1>2, <1>3, <1>4, NoBackupFacts DEF Versions, Numbered, TextsOfVersions, OfVersion
<1>9. Discards /\ Told /\ Exits
  BY <1>2, <1>3, <1>4 DEF Discards, Told, Unsaved, Exits, NoVersion
<1> QED BY <1>1, <1>5, <1>6, <1>7, <1>8, <1>9 DEF HInv, IInv

\* Nothing happens.
LEMMA HotStutters ==
    ASSUME HInv, UNCHANGED vars
    PROVE  HInv'
<1>1. UNCHANGED textVars /\ TInv' /\ FlagsKnown'
  BY TextStays DEF vars
<1>2. UNCHANGED <<operation, io, cache, backupFile, suspended, shutdown, finalVersion,
                  untold, restarts>>
  BY DEF vars, backupVars, shutdownVars
<1>3. UNCHANGED <<text, versionId, dirty, reverting, onDisk, reverted>>
  BY <1>1 DEF textVars, modelVars, flags, readVars, fileVars, history
<1>4. (BackupTypes /\ Operations /\ Phases)'
  BY <1>2, <1>3 DEF HInv, BackupTypes, Operations, Complete, Phases
<1>5. (Versions /\ TextsOfVersions)'
  BY <1>2, <1>3 DEF HInv, Versions, Numbered, TextsOfVersions, OfVersion, Encoded
<1>6. (Discards /\ Told /\ Exits)'
  BY <1>2, <1>3 DEF HInv, Discards, Told, Exits, Unsaved, BackupOnTheWay, Safe, Asked
<1> QED BY <1>1, <1>4, <1>5, <1>6 DEF HInv

\* The invariant of the file and its backup.
LEMMA HotInductive == HotSpec => []HInv
<1>1. ASSUME HInv, [HotNext]_vars PROVE HInv'
  <2>1. CASE TextSteps
    BY <1>1, <2>1, TextStepKeeps
  <2>2. CASE BackupTimer \/ BackupEncoded
    BY <1>1, <2>2, BackupTimerKeeps, BackupEncodedKeeps
  <2>3. CASE QueueRuns \/ QueueEnds
    BY <1>1, <2>3, QueueRunsKeeps, QueueEndsKeeps
  <2>4. CASE ShutdownRuns
    BY <1>1, <2>4, ShutdownBeginsKeeps, DiscardBackupsKeeps, BackupBeforeShutdownKeeps,
       ShutdownGoesOnKeeps, DontSaveKeeps, EndKeeps
    DEF ShutdownRuns
  <2>5. CASE Crash
    BY <1>1, <2>5, EndKeeps
  <2>6. CASE UNCHANGED vars
    BY <1>1, <2>6, HotStutters
  <2> QED BY <1>1, <2>1, <2>2, <2>3, <2>4, <2>5, <2>6 DEF HotNext, TextSteps
<1> QED BY <1>1, HotInit, PTL DEF HotSpec

\* The tracker, the queue and the shutdown keep to their types, across crashes
\* and restarts (WorkingCopyBackupTracker, WorkingCopyBackupServiceImpl).
THEOREM HotTypeCorrect == HotSpec => []HotTypeOK
<1>1. HInv => HotTypeOK
  BY DEF HInv, TInv, BackupTypes, HotTypeOK
<1> QED BY <1>1, HotInductive, PTL

\* A backup that is taken for one of the present version is of the present text
\* (hasBackupSync and scheduleBackup), but for texts that are in the file.
THEOREM BackupsHaveVersion == HotSpec => []BackupOfVersion
<1>1. HInv => BackupOfVersion
  BY NoBackupFacts DEF HInv, TextsOfVersions, OfVersion, BackupOfVersion
<1> QED BY <1>1, HotInductive, PTL

\* An unsaved text that the tracker was told of is backed up or will be: no
\* save, revert, reload or cancelled operation leaves it without
\* (onDidChangeDirty, scheduleBackup and discardBackup).
THEOREM DirtyIsBackedUpIfTold == HotSpec => []DirtyIsBackedUpWhenTold
<1>1. HInv => DirtyIsBackedUpWhenTold
  BY DEF HInv, Told, Safe, Operations, DirtyIsBackedUpWhenTold, BackedUp
<1> QED BY <1>1, HotInductive, PTL

\* A shutdown does not exit before the text it began with is in the backup, was
\* saved or is not wanted (onFinalBeforeShutdown and backupBeforeShutdown).
THEOREM ExitKeeps == HotSpec => []ExitKeepsText
<1>1. HInv => ExitKeepsText
  BY DEF HInv, Exits, Safe, Operations, ExitKeepsText, BackedUp, Unsaved, Asked
<1> QED BY <1>1, HotInductive, PTL

-----------------------------------------------------------------------------
(* The flags across restarts, and what the end of a process leaves. *)

HotFlags ==
    /\ FlagsTrue
    /\ reverting.wasInConflictMode \/ reverting.wasInErrorMode => reverting.wasDirty

\* A revert that reads has the flags that the model had.
LEMMA TakenFlags ==
    ASSUME TInv, HotFlags, [Next]_textVars
    PROVE  reverting'.wasInConflictMode \/ reverting'.wasInErrorMode => reverting'.wasDirty
<1>1. CASE reverting' = reverting \/ reverting' = NoRevert
  BY <1>1 DEF HotFlags, NoRevert
<1>2. CASE RevertResolves
  BY <1>1, <1>2, RevertTypes DEF RevertResolves, HotFlags, RevertStates, TInv, TypeOK
<1>3. CASE Revert
  <2>1. \/ reverting' = reverting
        \/ /\ reverting'.wasDirty = dirty
           /\ reverting'.wasInConflictMode = inConflictMode
           /\ reverting'.wasInErrorMode = inErrorMode
    BY <1>3, RevertTakes DEF FlagsTaken
  <2> QED BY <2>1 DEF HotFlags, FlagsTrue, ConflictIsDirty
<1>4. ASSUME NEW n \in SaveSlots, SaveRuns(n)
      PROVE  reverting' = reverting
  BY <1>4 DEF SaveRuns, DelayEnds, GiveUpSave, BeginWrite, CheckPasses, WriteFile,
              SaveSucceeds, SaveFails, readVars
<1>5. CASE Resolve \/ ReadFails
  BY <1>1, <1>5 DEF Resolve, ReadFails, ReadEnds
<1> QED
  BY <1>1, <1>2, <1>3, <1>4, <1>5
  DEF Next, UserActs, Reads, Edit, UndoRedo, Save, Reload, ReadFile, OtherWrites,
      OnDidFilesChange, readVars, textVars

\* The model takes a text for that of the file only if it is known.
LEMMA CleanFlags ==
    ASSUME NEW d \in BOOLEAN, NEW t, SetDirty(d, t), FlagsTrue,
           ~d => text' \in Known'
    PROVE  FlagsTrue'
BY DEF SetDirty, FlagsTrue, CleanWasSaved, ConflictIsDirty, Known, Settled, Dispensable

\* What is given is known.
LEMMA GivenIsKnown == Given \subseteq Known
BY DEF Given, Asked, Known, Settled

\* Every step of the text keeps the flags true, also where a restored text has
\* no version that counts as saved.
LEMMA HotFlagsText ==
    ASSUME TInv, FlagsKnown, HotFlags, [Next]_textVars
    PROVE  FlagsTrue'
<1>1. FlagsTrue /\ dirty \in BOOLEAN /\ text \in Texts /\ Given' \subseteq Known'
  BY GivenIsKnown DEF HotFlags, TInv, TypeOK, Given, Asked, Known, Settled
<1>2. (~dirty => text \in Known) /\ Known' \subseteq Dispensable'
  BY <1>1, CleanIsKnown DEF FlagsTrue, Known, Settled, Dispensable
<1>3. CASE resolving.by = "revert" /\ ReadFails
  BY <1>3
  DEF ReadFails, modelVars, HotFlags, FlagsTrue, CleanWasSaved, ConflictIsDirty, Dispensable
<1>4. CASE ~(resolving.by = "revert" /\ ReadFails)
  <2>0. Known \subseteq Known'
    BY <1>4, KnownGrows
  <2>1. ASSUME UNCHANGED <<flags, text>> PROVE FlagsTrue'
    BY <1>1, <1>2, <2>0, <2>1 DEF flags, FlagsTrue, CleanWasSaved, ConflictIsDirty
  <2>2. CASE Edit \/ UndoRedo
    <3>1. PICK t : SetDirty(t # bufferSavedVersionId, t)
      BY <2>2 DEF Edit, UndoRedo, OnModelContentChanged
    <3>2. dirty' = (t # bufferSavedVersionId)
      BY <3>1 DEF SetDirty
    <3> QED BY <1>1, <2>2, <3>1, <3>2, EditAsked, CleanFlags
  <2>3. CASE Revert
    <3>1. SetDirty(FALSE, text) /\ text' \in Known'
      BY <1>1, <2>3, RevertKnows DEF Revert, modelVars, Known, Settled
    <3> QED BY <1>1, <3>1, CleanFlags
  <2>4. CASE Resolve
    <3>1. CASE UNCHANGED <<text, versionId, flags>>
      BY <2>1, <3>1
    <3>2. CASE /\ SetDirty(FALSE, resolving.content) /\ text' = resolving.content
               /\ resolving.content \in onDisk
      <4>1. text' \in Known'
        BY <2>0, <3>2 DEF Known, Settled
      <4> QED BY <1>1, <3>2, <4>1, CleanFlags
    <3> QED BY <2>4, <3>1, <3>2, ResolveAsked
  <2>5. CASE ReadFails
    BY <1>4, <2>1, <2>5 DEF ReadFails, modelVars
  <2>6. ASSUME NEW n \in SaveSlots, SaveRuns(n)
        PROVE  FlagsTrue'
    <3>1. CASE DelayEnds(n) \/ GiveUpSave(n) \/ CheckPasses(n) \/ WriteFile(n)
      BY <2>1, <3>1 DEF DelayEnds, GiveUpSave, CheckPasses, WriteFile, modelVars
    <3>2. CASE BeginWrite(n)
      <4>1. /\ text' = text /\ dirty' = dirty /\ inConflictMode' = inConflictMode
            /\ inErrorMode' = FALSE
        BY <3>2 DEF BeginWrite, modelVars
      <4> QED BY <1>1, <1>2, <2>0, <4>1 DEF FlagsTrue, CleanWasSaved, ConflictIsDirty
    <3>3. CASE SaveSucceeds(n)
      <4>1. CASE SetDirty(FALSE, text) /\ text \in onDisk
        <5>1. text' \in Known'
          BY <2>0, <3>3, <4>1, SaveAsked DEF Known, Settled
        <5> QED BY <1>1, <4>1, <5>1, CleanFlags
      <4>2. CASE UNCHANGED flags
        BY <2>1, <3>3, <4>2, SaveAsked
      <4> QED BY <3>3, <4>1, <4>2, SaveAsked
    <3>4. CASE SaveFails(n)
      BY <3>4 DEF SaveFails, FlagsTrue, CleanWasSaved, ConflictIsDirty
    <3> QED BY <2>6, <3>1, <3>2, <3>3, <3>4 DEF SaveRuns
  <2> QED
    BY <2>1, <2>2, <2>3, <2>4, <2>5, <2>6
    DEF Next, UserActs, Reads, Save, Reload, RevertResolves, ReadFile, OtherWrites,
        OnDidFilesChange, modelVars, textVars
<1> QED BY <1>3, <1>4

\* A restarted process has the text of the file, or a dirty one.
LEMMA RestartFlags ==
    ASSUME NEW f, NEW b, Restart(f, b)
    PROVE  HotFlags'
BY DEF Restart, HotFlags, FlagsTrue, CleanWasSaved, ConflictIsDirty, Dispensable, NoRevert

\* The steps that are not the text's leave the flags alone, but for those that
\* discard or restore.
LEMMA HotFlagsStep ==
    ASSUME HInv, HotFlags, [HotNext]_vars
    PROVE  HotFlags'
<1>1. CASE TextSteps
  <2>1. [Next]_textVars
    BY <1>1, TextStepsAreSteps
  <2> QED BY <2>1, TakenFlags, HotFlagsText DEF HInv, HotFlags
<1>2. CASE Crash \/ Exit
  BY <1>2, RestartFlags DEF Crash, Exit
<1>3. CASE ConfirmDontSave
  BY <1>3
  DEF ConfirmDontSave, SetDirty, modelVars, readVars, HotFlags, FlagsTrue, CleanWasSaved,
      ConflictIsDirty, Dispensable
<1>4. CASE UNCHANGED textVars
  BY <1>4
  DEF textVars, modelVars, flags, readVars, fileVars, history, HotFlags, FlagsTrue,
      CleanWasSaved, ConflictIsDirty, Dispensable
<1> QED
  BY <1>1, <1>2, <1>3, <1>4
  DEF HotNext, TextSteps, BackupTimer, BackupEncoded, QueueRuns, QueueEnds, ShutdownRuns,
      ShutdownBegins, DiscardBackups, BackupBeforeShutdown, BackedUpBeforeShutdown,
      StopBackingUp, ConfirmCancel, vars

\* Beside backups, crashes and restarts, too, no two saves write at once, a clean
\* text was saved or discarded, and a conflict keeps the text dirty: a text that
\* a backup restored is not clean before it was saved (resolveFromBackup).
THEOREM SavesAndFlagsSurvive == HotSpec => [](OneSaveWrites /\ FlagsTrue)
<1>1. Init => HotFlags
  BY DEF Init, TextInit, HotFlags, FlagsTrue, CleanWasSaved, ConflictIsDirty, Dispensable,
         NoRevert
<1>2. HInv /\ HotFlags /\ [HotNext]_vars => HotFlags'
  BY HotFlagsStep
<1>3. HInv /\ HotFlags => OneSaveWrites /\ FlagsTrue
  BY DEF HInv, TInv, SavesInv, OneRuns, OneSaveWrites, Idle, HotFlags
<1> QED BY <1>1, <1>2, <1>3, HotInductive, PTL DEF HotSpec

OnlyNewer ==
    restarts' = restarts /\ <<cache, backupFile>>' # <<cache, backupFile>> =>
        /\ cache' = backupFile'
        /\ cache'.text = NoText \/ cache.version <= cache'.version

\* While a process runs, its backup changes together with what is known of it,
\* and is only replaced by one that is at least as new, or deleted: the operations
\* of the queue cannot overtake one another (ioOperationQueues).
THEOREM BackupsOnlyNewer == HotSpec => [][OnlyNewer]_vars
<1>1. ASSUME HInv, HotNext
      PROVE  \/ UNCHANGED <<cache, backupFile>>
             \/ restarts' # restarts
             \/ /\ cache' = backupFile'
                /\ cache'.text = NoText \/ cache.version <= cache'.version
  <2>1. CASE TextSteps
    BY <1>1, <2>1, TextMoves DEF HInv, Moves
  <2>2. CASE Crash \/ Exit
    <3>1. restarts' = restarts + 1 /\ restarts \in Nat
      BY <1>1, <2>2, MaxRestartsAssumption DEF Crash, Exit, Restart, HInv, BackupTypes
    <3> QED BY <3>1
  <2>3. CASE QueueEnds
    <3>1. io.kind \in {"none", "store", "discard"}
      BY <1>1 DEF HInv, BackupTypes
    <3>2. io.kind # "none"
      BY <1>1, <2>3 DEF QueueEnds, HInv, Operations
    <3>3. cache' = io.backup /\ backupFile' = io.backup
      BY <2>3 DEF QueueEnds
    <3>4. CASE io.kind = "store"
      BY <1>1, <3>3, <3>4 DEF HInv, Versions
    <3>5. CASE io.kind = "discard"
      BY <1>1, <3>3, <3>5, NoBackupFacts DEF HInv, Operations
    <3> QED BY <3>1, <3>2, <3>4, <3>5
  <2>4. CASE UNCHANGED <<cache, backupFile, restarts>>
    BY <2>4
  <2>5. CASE DiscardBackups
    BY <2>5, NoBackupFacts DEF DiscardBackups
  <2> QED
    BY <1>1, <2>1, <2>2, <2>3, <2>4, <2>5
    DEF HotNext, TextSteps, BackupTimer, BackupEncoded, QueueRuns, ShutdownRuns,
        ShutdownBegins, BackupBeforeShutdown, BackedUpBeforeShutdown, StopBackingUp,
        ConfirmCancel, ConfirmDontSave, backupVars
<1>2. HInv /\ [HotNext]_vars => [OnlyNewer]_vars
  BY <1>1 DEF OnlyNewer
<1> QED BY <1>2, HotInductive, PTL DEF HotSpec

\* The promise of hot exit: an unsaved text outlives its process, whether that
\* crashes or exits, if the tracker was told of it and has nothing left to do, or
\* if it is the text a shutdown began with; only a write of the backup that runs
\* may be cut off and take the backup with it.
OutlivesProcess ==
    Unsaved /\ io.kind # "store"
        /\ \/ ~untold /\ ~BackupOnTheWay
           \/ shutdown = "closing" /\ versionId = finalVersion
    => restarts' = restarts \/ (text' = text /\ dirty' /\ backupFile'.text = text)

\* What the invariant says of the end of a process.
THEOREM TextsOutlive == HotSpec => [][OutlivesProcess]_vars
<1>1. ASSUME HInv, HotNext, Unsaved, io.kind # "store",
             \/ ~untold /\ ~BackupOnTheWay
             \/ shutdown = "closing" /\ versionId = finalVersion,
             restarts' # restarts
      PROVE  text' = text /\ dirty' /\ backupFile'.text = text
  <2>1. backupFile.text = text /\ io.kind # "discard" /\ text \in Texts
    BY <1>1 DEF HInv, TInv, TypeOK, Told, Exits, Safe, Operations, Unsaved, Asked
  <2>2. Crash \/ Exit
    <3>1. CASE TextSteps
      BY <1>1, <3>1, TextMoves DEF HInv, Moves
    <3> QED
      BY <1>1, <3>1
      DEF HotNext, TextSteps, BackupTimer, BackupEncoded, QueueRuns, QueueEnds,
          ShutdownRuns, ShutdownBegins, DiscardBackups, BackupBeforeShutdown,
          BackedUpBeforeShutdown, StopBackingUp, ConfirmCancel, ConfirmDontSave, backupVars
  <2>3. PICK f : Restart(f, backupFile)
    BY <1>1, <2>1, <2>2 DEF Crash, Exit
  <2> QED BY <2>1, <2>3 DEF Restart, Restorable
<1>2. HInv /\ [HotNext]_vars => [OutlivesProcess]_vars
  BY <1>1 DEF OutlivesProcess
<1> QED BY <1>2, HotInductive, PTL DEF HotSpec
=============================================================================
