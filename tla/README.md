# Verification of Ivie

The repository is a fork of VS Code with the Ivie prototype in it: short
explanations, drawn beside code that a language model just suggested. This
directory models the program's own logic in TLA+, model-checks it with TLC on
small instances, and proves its most important properties with TLAPS for every
value of the parameters. `PROJECT.json` maps each definition to the source
lines it stands for and lists the runs, mutants, hazards and theorems.

Source paths below are relative to `src/`; `ED` stands for
`src/vs/workbench/services/editor/browser`, `IC` for
`src/vs/editor/contrib/inlineCompletions/browser`.

## 1. Inventory

### Ivie explainers (`ED/ivieInitialize.ts`, hook in `ED/editorService.ts:427`)

*State.* Per `Explainer`: the container of the suggestion on display (`box` with
its id), the hover boxes of the two modes (`box1`, `box2`), the overview
(`box0`), the range the explanation belongs to, the last suggestion, two maps
from lines to explanations, a counter of ids. Shared by all explainers of an
editor: the document, where elements are found by id.
*Operations.* Construction (every read of `activeTextEditorLanguageId`
constructs one more); the suggestion changes; key up, key down, mouse down,
mouse move; the overview button; disposal; answers of the language model.
*Interaction.* All explainers of an editor hear the same events one after the
other. They subscribe to the inline completions model that was active when they
were constructed. Requests are awaited inside the handlers, so an answer
continues a handler whose world has changed.
*Hard.* Late answers; several explainers with the same element ids; elements
removed from a live collection while it is walked; two modes that share fields.
*Correct when* an answer is drawn only in the container it was asked for, no
element is left that nobody can remove, and the modes do not use each other's
boxes.

### Answers of the language model (`ED/codexExplainer.ts`)

`OpenaiFetchAPI` cuts the answer about one line into *segments*: quotes looked up
from left to right, each with an explanation. `OpenaiStreamAPI` reads a stream of
`$*` explanation `$$` code snippets, looks the code up in the explained lines,
and draws one *bend* per snippet.
*Hard.* Marks cut in two by the chunks; quotes that are missing, repeated or out
of order; a stateful regular expression; the stream ends early; positions are
computed relative to the previous bend or segment.
*Correct when* segments are in order, apart and where they are quoted, and bends
stand beside the lines they are for, one below the other.

### Inline completions (`IC`)

*State.* A session (line, trigger kind, debounced update, running request,
filtered completions), the preview of the suggest widget with a request and a
timer of its own, and one cache of a list of completions that both write.
*Operations.* Edits, cursor moves, explicit triggers, commit, suggest widget
changes, timers, answers, failures, commands of committed completions.
*Hard.* Answers about an earlier text or a session that is gone; two writers of
one cache; a list must be freed exactly once and not before the command of a
completion in it has run; the update is debounced and cancelled by each change.
*Correct when* a session's answers are about the present text, what is offered
is in the cache, no list is lost, and a pause of the user ends in a settled
state.

### Storage (`src/vs/base/parts/storage`, `src/vs/platform/storage/electron-main/storageMain.ts`)

*State.* The cache that reads are answered from, pending inserts and deletes, a
`Delayer` with a timer, a `Throttler` with a running and a queued task, waiters,
the progress of opening and closing, the rows on disk, the error flag.
*Operations.* `init`, `set`, `delete`, `flush`, `whenFlushed`, `close`; the
timer; transactions that end well, in part, or not; recovery at close.
*Hard.* Changes during an update; a close at any time; partial failure; the
process may end between a change and its flush; who waits for which promise.
*Correct when* no change is lost on the way to the disk, the disk always holds
a complete earlier state, and a close ends with everything on disk.

### Remote connections (`src/vs/base/parts/ipc/common/ipc.net.ts`, `src/vs/platform/remote/common/remoteAgentConnection.ts`, `src/vs/server/node`)

*State.* Per end of a `PersistentProtocol`: the numbers of the last message sent,
received and acknowledged, the queue of unacknowledged messages, two timers, the
flag of a reconnection, what is buffered until somebody listens. Of the client
its reconnecting loop; of the server two grace times; between them sockets.
*Operations.* Sending, receiving, acknowledgements, keep-alives, requests for a
replay, time-outs; a socket closes; a new one is opened, offered to the server,
accepted or rejected; an end gives up.
*Hard.* Messages that arrive twice or not; an offer or an answer of an attempt
that was given up; time-outs that race with late answers; grace times that race
with the reconnection.
*Correct when* each message arrives once and in order over any number of
sockets, and somebody always looks after a message that has not arrived.

### Saving of text files (`src/vs/workbench/services/textfile/common`)

*State.* Of a `TextFileEditorModel`: the text with its version, the flags dirty,
in conflict and in error, the version believed to be saved, the last known stat
of the file; a `TaskSequentializer` with a pending and a next save; a queue of
reloads. On the other side the file, which other programs write too.
*Operations.* Typing, undo and redo, save (on demand, automatic, overwriting),
its participants, the check for conflicts, the write, its end or failure; revert;
reload after a change of the file; resolving, which may fail.
*Hard.* One save is known by two tasks with two version numbers; typing during a
save, a revert or a read; flags that a revert takes away before it knows whether
it will succeed.
*Correct when* saves do not write at the same time, a text is clean only if it
was saved or discarded, and nobody who waits is forgotten.

### Backups and hot exit (`src/vs/workbench/services/workingCopy`)

*State.* The tracker's one operation per file (a timer, an encoding, a queued
write or delete), the queue of the backup, the cache of what has a backup of
which version, the backup on disk, the progress of a shutdown.
*Operations.* Changes of text and dirty flag, the timer, queue steps; a shutdown
that backs up, asks the user, discards or is cancelled; a crash; a restart that
resolves from the backup.
*Hard.* An operation that runs cannot be cancelled; versions that start anew; a
crash that cuts a backup off; what changes while the shutdown waits.
*Correct when* text that is only in the editor is in the backup or on its way
there, and is in the backup when the process exits.

### The rest

Undo and redo, the IPC channels, the text model, view, widgets, extension host,
workbench contributions, settings sync, start-up, the command line written in
Rust, bundled extensions and build files are listed in `PROJECT.json` with the
reason each is left out: the core is data that TLC cannot exercise (text,
geometry), I/O, registries, generated or binary code, or a program of its own.
The scheduling primitives of `async.ts` are modelled where they are used.

## 2. Plan

| # | Module | What | Status |
|---|--------|------|--------|
| 1 | `Explainer` | explainers, events, late answers | done, proved |
| 2 | `FetchSegments` | segments of a line | done, proved |
| 3 | `ExplainStream` over `AnchoredBends` | streamed answer implements a stack of bends | done, proved |
| 4 | `InlineCompletions` | sessions, preview, shared cache | done, proved |
| 5 | `Storage` over `WriteBehind` | write-behind storage implements its promise | done, proved |
| 6 | `PersistentProtocol`, `RemoteConnection` over `ReliableChannel` | two ends over sockets that come and go implement exactly-once delivery in order | done, proved |
| 7 | `TextFile` | saves, reverts, reloads of one file | done, proved |
| 8 | `HotExit` over `TextFile` | backups, crash, shutdown, restart | done, proved |
| 9 | `SharedStorage` | storages of windows over main's storage: change events that echo back | open |
| 10 | channels over `ReliableChannel`; undo and redo; selection and `DelegatingModel` in `InlineCompletions` | as above | open |

Composition: `HotExit` extends `TextFile`, so that every step of the text is one
the backups follow; `RemoteConnection` composes two ends of
`PersistentProtocol`; `Explainer` takes the changes of the ghost text that
`InlineCompletions` produces as an input of its environment, and the drawing of
`FetchSegments` and `ExplainStream` as the outcome of an answer.

## 3. Modules and the code

`Explainer.tla`. Records of `ex` are the fields of the class; `doc` is the list
of attached containers in document order; an editor event is a `dispatch` that
visits the explainers one by one, since event delivery is synchronous; answers
(`SingleAnswer`, `LineAnswer`) come between events. A suggestion is a name of
which only the number of lines and which of them are comments is known.
`RemoveLive` is what the loop over `getElementsByClassName` does: it skips every
other element. Abstracted: pixel geometry (an event says whether the mouse is on
the text, beside it, or on the panel), styles, prompts; a blank suggestion is
like none; a second all-lines request for the same lines is merged with the
first.

`FetchSegments.tla`. One action, `Read`, per line of the answer. A quote is the
set of columns it occurs at, its length, and whether an explanation follows;
`Begin` is `indexOf` from `lastLine`, with -1 and 0 as the code treats them.
`RangeEnd` is the raw length of the line, as in the code, where positions are of
the line with expanded tabs. The lower half lays the code lines out.

`ExplainStream.tla`. One action per chunk: `NextSnippet` (an explanation
starts), `Continue`, `Stop`, `EndOfStream`. A line of the answer is the columns
of its letters, which the regular expression with the g flag depends on, and the
lines of the code that contain it. `AnchoredBends.tla` is the abstract
specification: a stack of intervals that grows downwards while a placeholder is
shown. The stream is assumed to keep the order that `Follows` allows; single `$` and
`*` occur as halves of marks, or `*` at the start of code.

`InlineCompletions.tla`. One step is one turn of the event loop with all the
listeners it calls, because emitters deliver synchronously. A request is its
number, and so is the list it brings: all that its providers brought. A request
that fails (`Fail`) has brought none, or one that is dropped (`thrown`), since an
exception may come after the answers of other providers. Left open: which items match the text,
which is selected, the conversion to ghost text. Providers answer, fail or stay
silent; edits move the cursor to any line.

`Storage.tla`. `Change` is the common part of `set` and `delete`; `Timer` is the
delayer's time-out that queues `flushPending` in the throttler; `EndUpdate` is
the end of a transaction with the throttler's continuation; `closing` says which
promise `close` awaits. The database writes all, a part, or nothing of an
update and may fail at close; then its file is made anew from the cache.
`WriteBehind.tla` is the abstract specification. Left out: the fallback to a
backup or an in-memory database, and changes reported by other processes.

`PersistentProtocol.tla` has the operations of one end, as functions of `Ends`;
its variables have the names of the class's fields. A socket (`wire`, `closed`)
delivers in order until it closes; then any part that is still under way may be
lost. A timer is a Boolean; what it compares with the clock is the
nondeterministic argument `late`. Keep-alives and latency measurements act as
acknowledgements and are not told from them. `RemoteConnection.tla` adds the
client's loop (`Reconnect`, `HandshakeTimesOut`, `Reconnected`, ...), the
server's decision about a socket that was offered (`Accepted`,
`AcceptReconnection`, `RejectConnection`), its grace times, and losses: of what a
closing socket carried, and `MaxDrops` messages on an open one, which the code
expects too. `ReliableChannel.tla` is the abstract specification.

`TextFile.tla`. A step is what the code runs between two awaits. A text is a
number that stands for an alternative version id too: an edit makes one nobody
had, undo and redo return to one the model had. A save is a record of `saves`
that moves through the phases `delay`, `participants`, `check`, `write`, `stat`;
`pending` and `next` are the fields of the `TaskSequentializer`, whose `cancels`
is the running save it would cancel. `SaveEnds` is the end of a save with the
two `donePending` it causes and the start of the save that waits. `Size` is all
the check for conflicts sees of a text, beside the time of the file. A read is
a record of `resolving`: what the model remembers when it begins (`ReadBy`), the
stat and content of the file that it finds (`ReadFile`), and what becomes of
them (`Resolve`), with edits, saves and other programs' writes between. That the
stat and the content are taken in one step is an abstraction.

`HotExit.tla` extends it. `Tracked` is the tracker's listener, which every
action that changes text or dirty flag calls; `operation` is the entry of
`pendingBackupOperations` with how far it is, `io` what the backup's queue runs,
`cache` the entry of `WorkingCopyBackupsModel`. `Restart` starts the process
anew with what is on disk; `Crash` does so at any point, with what was being
written cut off or not. A shutdown without a dirty text deletes all backups past the queue
(`DiscardBackups`), beside a write of the backup that may be running.
`untold`, `finalVersion` and `restarts` are history.

`MC*.tla` give constants their values; `SetLemmas.tla` holds facts about
the least and the greatest element of sets of naturals and about sums over sets;
`*Proofs.tla` hold the theorems.

Definitions whose comment begins with "Defect" are mutated forms of the next
definition. They are used in no specification; each is what a plausible bug
would make of the code, and a run finds the property violated with it.

## 4. Runs

| Run | Instance | What it shows |
|-----|----------|---------------|
| `explainer` | a behaviour is of one of two sizes: one explainer with a one-line, a comment and a two-line suggestion, or two explainers with two one-line suggestions, which are symmetric, and no mouse; counters to 2, four lines (2.0 million states) | an explainer draws in its container only what it asked about it, however late the answer (`OwnAnswersFresh`); never two containers, never one its explainer cannot remove, although the removing loop skips every other element (`OneContainerHeld`); the boxes, ranges and maps of the two modes agree (`OverlaysAgree`) |
| `explainer_crossed` | two explainers, two one-line suggestions | *violated:* the late answer about an old suggestion to one explainer is drawn in the container that the other has made for the new one |
| `fetch` | every answer of up to five lines, drawn from twelve quotes, about a line of twelve columns | segments in order, apart, where they are quoted (`SegmentsInPlace`); drawn under their columns while none before is hidden |
| `stream` | three lines of code, snippets of up to four marks and lines, two bends (257 thousand states) | the stream implements `AnchoredBends`, a bend stands beside its lines and where its snippet was found, however the search for letters skips (`BendsCoverSnippets`) |
| `inline` | two lines, four events (1.8 million states) | a session is on its line and leaves no list behind, its answers are fresh, what is offered is in the cache and commands run with their list until the preview asks for one, a list the preview was answered with is not lost unless its request throws, the system settles |
| `storage` | two keys, two values, three calls (136 thousand states) | no change lost, nobody who waits forgotten; implements `WriteBehind`; settles; closes if no error occurs |
| `storage_closes` | one key, three calls | *violated:* a flush of close that is queued behind another update and fails leaves close waiting for ever |
| `remote` | two messages of the client, three sockets, one message lost on an open socket, a keep-alive when a socket is empty | each message arrives once and in order (`Implements`), is kept until it was received, and is watched by a timer or a reconnection; nothing of a user is written into a handshake; loop, grace times and protocols agree |
| `remote_live` | a message of each end, two sockets (397 thousand states) | what was sent arrives unless an end gives up or the sockets of the bound are used up |
| `text` | three texts, three changes, two modifications of the file, a revert, all kinds of saves, reads that are overtaken or fail (598 thousand states) | saves do not write at once; a clean text was saved or discarded and a model in conflict or error is dirty; what a read brings replaces no text that was not saved (`ReadsLoseNothing`); no save and no revert is left waiting |
| `hotexit` | three texts, two changes, saves on demand and overwriting, one modification, a revert, one restart (2.6 million states) | what is only in the editor is in the backup or on its way there, the cache has the right version, the text is in the backup when the process exits |
| `hotexit_untold` | two texts, one change | *violated:* after a shutdown that the user cancels, a dirty text has no backup and gets none until it changes |

*Why the bounds are enough.* Two explainers are the least that share ids, and
the events visit them pairwise; what the mouse and long suggestions do concerns
the boxes of one explainer. A counter to 2 gives an explainer a container, a
successor with the next id and an answer in between. Four lines hold a two-line
suggestion with a line above and below. Five quotes can repeat, overlap, miss and
come out of order on twelve columns with room for three kept segments. Lines
of `inline` are only told apart, so its behaviours begin on one of the two. Four
events of the user suffice for: start, edit while the request runs, open and
close the suggest widget, commit. Three calls suffice for a change, another one
while it is written, and a third, a flush or the changes of a second key, before
or during the close; `close` and `whenFlushed` are not counted as calls. Two
messages make a gap and a duplicate; three sockets let an attempt fail before
one succeeds, with a late offer of the first. Three changes of a text are: the
text that is saved, one typed during the save, one that goes back; two
modifications are a save and the next one, or a save and another program's
write between; two slots for saves are the running one and the one its end
starts (the model would need a third if two wrote at once, which `OneSaveWrites`
excludes). Backups need two changes, one of which comes while the backup of the
other is written, and one restart, after which the versions begin anew; what
needs a second modification of the file is in `text`. A read may fail any number
of times; `MaxReverts` bounds the texts that are discarded and the reverts that
fail together.
What the runs show on these instances the theorems of section 5 show for all
where they name the same property.

*Deadlock* is not checked: an editor may be disposed, an answer ends, a storage
or a connection is closed, and the counters reach their bounds.

*Fairness.* `inline` assumes weak fairness of the timers
(`StartSessionIfTriggered`, `Update`, `UpdateCache`: `setTimeout` and microtasks
fire) and of the providers together, which answer or fail; the user and the
commands of completions are not fair. `storage` assumes weak fairness of
opening, of the timer, and of the database's answers to an update and to close,
well or not; calls are not fair, and no close need come. `remote_live` assumes
that sockets deliver, that the code's timers fire, that the client's loop goes
on and that the server decides about an offer; several steps of which one is
always due are one conjunct, as it is enough that one of them happens. Sockets
may close, attempts may time out, and grace times may end at any moment; hence
`Delivered` excepts an end that gave up. `text` assumes that a running save and
the reads go on (timers, participants and the disk answer, well or not); the
user, other programs and the watcher are not fair.

## 5. Proofs

All theorems are of the form `Spec => []P`, `Spec => [][A]_vars` or a
refinement, from the assumptions named in the modules (`BoundsAssumption`,
`TextAssumption`, ...), which say what kind of thing a constant is and that
"undefined" is none of the values it stands beside.

*Explainer.* `ExplainerProofs` first proves the type invariant together with
"at most one container": as there is at most one, the loop that removes every
other element of a list of one or two removes enough, and element positions
occur in both. `Sound` (the shape of one explainer: which boxes occur together),
`Counted` (ids and requests are below the counter, a request for the id on
display has its subject) and `NoOrphanContainer` complete `IInv`, from which
follow `OneContainerHeld` and `OverlaysAgree` for any number of explainers, and that
ids are not reused. `OwnAnswersFresh` needs no more although explainers share
ids: a request an explainer made for an id it gave is about the subject of that
container, and its element in the document is the one it holds; whatever other
explainers draw there or remove in between, an answer of its own that finds the
element is about its subject. The same answer in another explainer's container
is what `explainer_crossed` refutes. What is gone stays gone: `Cleared` (the explainers whose turn is
over in a round of key-up or disposal hold nothing, and after disposal no round
of another kind begins) gives `KeyUpLeavesNothing` and `EditorLeavesNothing`,
with `NoOrphanContainer`: what is not held is not attached.

*Sums.* That rules and bends stand where they should speaks of sums of margins,
`MapThenSumSet` over the positions before one. `SetLemmas` proves what these
sums are: induction over numbers and over the subsets of a finite set is an
argument about a set of counterexamples, which has a least element (`WFMin`), so
that no lemma takes a predicate as a parameter. A sum does not depend on the
order in which elements are chosen (`SumAny`), hence that over an interval is
the difference of two prefix sums (`IntervalSum`).

*Fetch.* `IInv` adds to `SegmentsInPlace` that no segment reaches beyond
`lastLine`, which is what makes each search start behind the last segment. Then
the margins and widths before a segment add up to where it begins:
`RulesUnderCode`, as long as all of them are displayed.

*Stream.* `IInv` is the type invariant (`lastExplain` is the last bend) and that
the placeholder is there while the stream is open. `StreamImplementsBends` maps
each chunk to a drawn bend or a stutter; `SetLemmas` supply that the interval
computed from the places of the lines starts below the last bend.
`BendsCoverSnippets` does not speak of the
`Interval` the code computes but of where the lines of the snippet occur
(`Located`): the flag `g` lets the test pass over a line, but only after it
succeeded in the line before (`TestedLines`: a test that fails starts again from
0), so no two lines in a row are passed over, and not the first; the ends of the
interval are then places found, or right below the bend before. It is proved for
the last bend at `Stop`, too. `BesideLinesAlways` needs that each
margin is relative to the bend before (`Stacked`, which a step keeps since
`lastExplain` is that bend, whatever was rejected since); the sum of margins and
heights then telescopes. `BendsAlwaysInOrder` carries "below the one before"
to all pairs of bends, neighbours or not.

*Inline completions.* `IInv` is `Plain` (types), `Flags`, `Held` (what is
filtered, cached or freed), `Live` (a request that is not cancelled is in
flight), `Idle` (a session that ended left nothing), `Related` (session, cache
and text fit together) and `Kept` (a list the preview was answered with is in flight,
in the cache, leaked for a command, freed, or was dropped by an exception). All safety
properties of the run are proved from it. `SessionsAttended` is the safety part
of `Settles`: an active session has an update that is due, or it asked about the
present text and that request runs, was answered or failed (`Attended`). What
is left to fairness is that timers fire and providers answer.

*Storage.* The safety properties are inductive only together with `Untouched`
(until the items are read nothing is pending unless a change came early) and
`Drained` (a close that reached its own update leaves nothing pending, and one
that reached the database nothing running). `StorageImplements` then maps:
`Timer` to `Take`, `Updated` to `Save`, changes to `Write`, errors to `Broken`,
and `DatabaseClosed` to `Close`, where `NothingLost` with nothing pending and
nothing running says that the disk equals the cache.

*Remote connections.* The heart of `RemoteConnectionProofs` is that message n
carries n: what is on a wire, in a queue or in a buffer has the number of its
content; the queue of an end ends with its last message and begins no later
than what the other end misses; and an acknowledgement on the way never exceeds
what was received. From this `NothingForgotten` is inductive, `got` is always
the first messages in order, and each step delivers some more or stutters: the
refinement `ImplementsChannel`. `MessagesWatched`, `HandshakeKeepsOut` and
`EndsKnow` have invariants of their own about timers, the loop and the grace
times.

*Text files.* `OneSaveWrites` is not inductive: why can the end of a save not
start a second one beside a running one? Because a save that waits was asked for
at a later version than the running one began with (`NextWaits`), the write is
the only task pending while a save runs (`PendingRuns`), and hence at most one
save runs (`OneRuns`). The types need that the saves asked for leave room to
modify the file (`TimeLeft`) and that the reloads counted are those that run or
wait (`ReloadCounted`); `FlagsTrue` needs `SavedIsKnown` (the version believed
to be saved is `Known`: it was in the file, or was or is being discarded, or a
failed revert made it clean). `ReadsKeepTexts` is the theorem of
`ReadsLoseNothing`: while a read runs and the version is still the one it began
with, the text is `Known`, since it was clean when the read began and a change
would have raised the version (`ReadIsKnown`); flags that a failed revert gives
back are among the `Settled`. `WaitersHaveARun` needs that a
task in the sequencer has its save (`PendingHasRun`); and since the end of a
save empties the queue of one, `EndsLetNoneWait`, the safety part of
`NobodyWaitsForever`.

*Backups.* The second half of `TextFileProofs` proves the four invariants of
`HotExit` for any number of edits, saves, crashes and restarts, from `HInv`.
Steps of the text are summed up first (`Moves`): the tracker schedules a backup,
discards it, or has nothing to do, and a new text always comes with a new
version. What remains is an argument about versions: they only grow from the
backup on disk over the one being written to the one that waits (`Versions`), so
a backup that has the present version has the present text, or one that is in
the file (`TextsOfVersions`); hence a write that is skipped because the cache
has that version skips nothing (`Told`, `CacheIsSafe`). A delete that waits or
runs belongs to a text that was saved or discarded, or else to an older version
than the present one, and what is written or known is of an older one, too
(`Discards`); at the exit of a clean model `DiscardBackups` may delete whatever
there is;
and each phase of a shutdown hands on that its text is safe (`Phases`, `Exits`).
`Restart` proves the invariant from nothing but the restored backup having a
stat, so that it does not matter what a crash cut off. Three results say what
follows for users. `SavesAndFlagsSurvive`: what was proved of the text file
alone holds with backups, crashes and restarts beside it, a revert that fails
included (`HotFlags`). `BackupsOnlyNewer`: within one process a backup is only
replaced by one at least as new, or deleted, and the cache changes with the disk.
`TextsOutlive` is the promise of hot exit end to end: however a process ends, an
unsaved text whose backup has nothing left to do, or that its shutdown began
with, is what the next process opens, dirty. Excepted is a write of the backup
that is running at that moment: the code truncates before it writes, and a crash
between the two takes the older backup too.

*Only model-checked.* Liveness (`Settles` of both modules,
`ClosesUnlessErroneous`, `Delivered`, `NobodyWaitsForever`), which is beyond the
prover. The part of them that needs no fairness is proved: `SessionsAttended`,
`NobodyIsForgotten` (storage), `MessagesAreWatched` and `EndsLetNoneWait` say
that whoever waits has something that will come to wait for.

## 6. Where code and statements differ

Three runs above end in a violation; each is a finding in `PROJECT.json` with the
sentence of the repository it contradicts. Other deviations are part of the
models, without a run:

- An answer for a line of an earlier suggestion may enter the map of the present
  one when it has the same lines (`ivieInitialize.ts:973`).
- An explainer listens to the ghost text model that was active when it was
  constructed (`ivieInitialize.ts:124`), and is deaf to those that follow.
- A one-line comment suggested after code leaves the explanation of that code on
  display (`ivieInitialize.ts:934` returns before the container is renewed).
- A segment at column 0 or 1 is dropped (`codexExplainer.ts:264` compares with
  `lastLine + 1`), though the prompt's own example begins with one.
- A one-column segment without explanation is not displayed but still counts in
  the margin of the next (`ivieInitialize.ts:1204`, `:1217`).
- Columns behind the raw length of a line with tabs are never explained
  (`codexExplainer.ts:270`).
- A snippet that is not found may be drawn below the code (`codexExplainer.ts:321`).
- A code mark cut in two before code that begins with `*` is taken for the start
  of an explanation (`codexExplainer.ts:389`).
- A stream that ends without `stop` leaves "Retrieving explanations" on display
  and drops the last snippet (`codexExplainer.ts:381`).
- The preview's request survives edits, so an answer for an earlier text may
  enter the cache, and frees the list that the session still offers
  (`suggestWidgetPreviewModel.ts:129`, `inlineCompletionsModel.ts:565`).
- The list of a cancelled request of a session is never freed
  (`inlineCompletionsModel.ts:478`), and neither are the lists that some
  providers brought when another one throws at once, or when what follows their
  arrival throws (`inlineCompletionsModel.ts:731-839`;
  `suggestWidgetPreviewModel.ts:121` then returns). `SuggestListsKept` excepts
  both (`asked[i].by = "session"`, `thrown`).
- A session reports items as shown while the suggest widget has replaced its
  ghost text (`inlineCompletionsModel.ts:250`).
- What is set before the items of a storage are read is lost from its cache,
  though it is written (`storage.ts:177`); `NothingLost` and `WriteBehind`
  promise nothing after such a change.
- `whenFlushed` returns at once while changes are being written (`storage.ts:339`).
- An acknowledgement is to go out "at most 2 seconds later" (`ipc.net.ts:291`),
  but the timer is set anew as long as messages keep coming (`ipc.net.ts:1199`).
- A revert whose read fails gives the flags back as they were; a text typed and
  saved, or typed over a clean one, meanwhile gets flags that are not its own
  (`textFileEditorModel.ts:256`). `FlagsTrue` and `ReadsLoseNothing` therefore
  except texts present when a revert failed (`mislaid`).
- The same failing revert fires no event when it makes the model dirty again, and
  a backup that was scheduled has looked at the clean model meanwhile: the text
  stays without one. With `MaxRestarts = 0` (no shutdown, no crash)
  `DirtyIsBackedUp` is violated by `Edit`, `Revert`, `BackupTimer`, `RevertFails`;
  the run ends at the shorter behaviour.
- The end of a shutdown without a dirty text deletes all backups past the queue
  (`workingCopyBackupService.ts:361-366`): a write of the backup that is running
  then ends after it and leaves a backup behind, which the next start restores.
- A conflict that was overwritten stays marked when something was typed during
  the write, until the next save (`textFileEditorModel.ts:913`).
- Another program's write between a save's write and its stat goes unnoticed.
- A reload during a revert that then fails may leave a backup of the text before
  with the version of the text just read; `BackupOfVersion` excepts it, as the
  text read is in the file.
- A backup that a crash left empty counts, at a shutdown, as a backup of version
  0 (`workingCopyBackupTracker.ts` of `electron-sandbox` asks for the version
  only); the text of version 0 is then the one of the file.
- A delete of the backup that runs already is followed by a moment in which the
  cache still says that the text is backed up.

## 7. Not modelled in the modelled components

`Explainer`: `_allAcceptedCode` and its decorations (written, never read), pixel
geometry, styles, and several editors (each has explainers of its own, but all
look elements up in one document). `FetchSegments` and `ExplainStream`:
requests, prompts, the look of the elements, `matchLongText` (called by
nothing). `InlineCompletions`: matching, selection, ghost text conversion,
`DelegatingModel`. `Storage`: opening with its fallbacks, the backup file,
integrity checks, external changes, several storages. `PersistentProtocol` and
`RemoteConnection`: the framing of bytes, pausing, `Disconnect` messages, the
latency monitor, what the handshake says, connections of extension hosts and
tunnels. `TextFile`: encodings and languages, deleted files and their orphan
state, moves, saves that skip their participants or unlock the file, a failed
save that leaves a part of the file, a file that changes between the stat and
the content of one read. `HotExit`: several working copies, untitled
files, restoring editors, backups that fail to be written, the choice to save at
the shutdown and automatic saves during it; the deletion of backups through the
queue when other backups were not restored.

The repository is some 870 thousand lines, nearly all of them VS Code's: its
editor, workbench and bundled extensions. This project models what is Ivie's own
and, of the rest, the protocols with the most to lose: the suggestions that Ivie
explains, the user's settings, connection, files and backups.
