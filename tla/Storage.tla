------------------------------- MODULE Storage -------------------------------
(***************************************************************************)
(* A key-value storage of the main process over its SQLite database        *)
(* (base/parts/storage/common/storage.ts, base/parts/storage/node/         *)
(* storage.ts), opened and closed by BaseStorageMain.                      *)
(*                                                                         *)
(* Reads are answered from a cache.  Changes are collected and written     *)
(* later: a Delayer debounces them and a Throttler (async.ts) runs one     *)
(* update at a time, with at most one queued behind it.  The database      *)
(* answers when it likes, may fail, and is closed last.                    *)
(*                                                                         *)
(* Left out: the fallback to an in-memory database, and changes that other *)
(* processes report (this database has none).                              *)
(***************************************************************************)
EXTENDS Integers

CONSTANTS
    Keys, Values,
    None,           \* no value
    Same,           \* no change
    Nothing,        \* no items
    MaxCalls        \* bound: calls of set, delete and flush

ASSUME MaxCallsAssumption == MaxCalls \in Nat

Items == [Keys -> Values \cup {None}]
Changes == [Keys -> Values \cup {None, Same}]

ASSUME MarksAssumption ==
    /\ None \notin Values /\ Same \notin Values \cup {None}
    /\ Nothing \notin Items \cup Changes

VARIABLES
    state,          \* of the storage
    cache,          \* what get answers from
    pending,        \* pendingInserts and pendingDeletes (None: delete)
    due,            \* the delayer's timer runs
    running,        \* the update being written, or Nothing
    queued,         \* the throttler has a task queued
    waiting,        \* a whenFlushed promise is not resolved
    load,           \* how far init has come: "asked", "read" or "done"
    rows,           \* the rows as read, until init has them
    closing,        \* how far close has come
    disk,           \* the rows of the database
    isErroneous,    \* the connection has seen an error
    early,          \* for the properties: a change came before the items
    calls           \* number of calls so far

cacheVars == <<cache, pending, early>>
flushVars == <<due, running, queued, waiting>>
loadVars == <<load, rows>>
diskVars == <<disk, isErroneous>>
vars == <<state, cacheVars, flushVars, loadVars, closing, diskVars, calls>>

Empty == [k \in Keys |-> None]
Unchanged == [k \in Keys |-> Same]
hasPending == pending # Unchanged

\* d with the changes c made to it.
Overlay(c, d) == [k \in Keys |-> IF c[k] = Same THEN d[k] ELSE c[k]]

\* What close awaits: the delayer, the task queued in the throttler, the
\* update it started, the queued task that became an update, the database.
\* "lost" is a promise that nobody settles.
Closings == {"no", "delayed", "queued", "running", "chained", "database",
             "closed", "failed", "lost"}

Call == calls < MaxCalls /\ calls' = calls + 1

-----------------------------------------------------------------------------
(* Opening.  BaseStorageMain puts the storage in place while its items are *)
(* still being read.                                                       *)

\* The database reads its rows ...
ReadItems ==
    /\ load = "asked"
    /\ load' = "read" /\ rows' = disk
    /\ UNCHANGED <<state, cacheVars, flushVars, closing, diskVars, calls>>

\* ... and init replaces the cache with them.
Loaded ==
    /\ load = "read"
    /\ cache' = rows
    /\ load' = "done" /\ rows' = Empty
    /\ UNCHANGED <<state, pending, early, flushVars, closing, diskVars, calls>>

\* The rows cannot be read: the storage goes on with what it has.
LoadFails ==
    /\ load = "asked"
    /\ load' = "done" /\ UNCHANGED rows
    /\ isErroneous' = TRUE
    /\ early' = TRUE
    /\ UNCHANGED <<state, cache, pending, flushVars, closing, disk, calls>>

-----------------------------------------------------------------------------
(* Changes. *)

\* The cache and the pending changes take value v for key k, and doFlush
\* starts the delayer's timer anew.
Change(k, v) ==
    /\ Call
    /\ state = "initialized" /\ cache[k] # v
    /\ cache' = [cache EXCEPT ![k] = v]
    /\ early' = (early \/ load # "done")
    /\ due' = TRUE
    /\ UNCHANGED <<state, running, queued, waiting, loadVars,
                   closing, diskVars>>

Set(k, v) ==
    /\ Change(k, v)
    /\ pending' = [pending EXCEPT ![k] = v]

\* Defect: an insert that is still pending is forgotten, not deleted.
DeleteInserted(k) ==
    /\ Change(k, None)
    /\ pending' = [pending EXCEPT ![k] = IF @ \in Values THEN Same ELSE None]

Delete(k) ==
    /\ Change(k, None)
    /\ pending' = [pending EXCEPT ![k] = None]

Flush ==
    /\ Call
    /\ hasPending
    /\ due' = TRUE
    /\ UNCHANGED <<state, cacheVars, running, queued, waiting, loadVars,
                   closing, diskVars>>

WhenFlushed ==
    /\ hasPending
    /\ waiting' = TRUE
    /\ UNCHANGED <<state, cacheVars, due, running, queued, loadVars, closing,
                   diskVars, calls>>

-----------------------------------------------------------------------------
(* Writing. *)

\* flushPending: with nothing pending it is done at once.  A close that
\* waits for it is then at `at'.
StartUpdate(closeWaits, at) ==
    /\ running' = IF hasPending THEN pending ELSE Nothing
    /\ pending' = Unchanged
    /\ closing' = IF ~closeWaits THEN closing
                  ELSE IF hasPending THEN at ELSE "database"

\* Defect: while an update runs the throttler drops the task.
TimerForgets ==
    /\ due
    /\ due' = FALSE
    /\ IF running = Nothing
       THEN StartUpdate(closing = "delayed", "running")
       ELSE /\ closing' = IF closing = "delayed" THEN "running" ELSE closing
            /\ UNCHANGED <<running, pending>>
    /\ UNCHANGED <<state, cache, early, queued, waiting, loadVars, diskVars,
                   calls>>

\* The delayer's time is up: Throttler.queue(flushPending).
Timer ==
    /\ due
    /\ due' = FALSE
    /\ IF running = Nothing
       THEN StartUpdate(closing = "delayed", "running") /\ UNCHANGED queued
       ELSE /\ queued' = TRUE
            /\ closing' = IF closing = "delayed" THEN "queued" ELSE closing
            /\ UNCHANGED <<running, pending>>
    /\ UNCHANGED <<state, cache, early, waiting, loadVars, diskVars, calls>>

\* Defect: waiters are not released while a task is queued.
ReleaseWhenIdle == waiting' = (waiting /\ (hasPending \/ queued))

\* Who waits is released when there is nothing left to write.
Release == waiting' = (waiting /\ hasPending)

\* An update ends, well or not, and the throttler starts the task queued
\* behind it.  That task's promise is resolved but never rejected.
EndUpdate(well) ==
    /\ running # Nothing
    /\ Release
    /\ queued' = FALSE
    /\ IF queued /\ closing \notin {"running", "chained"}
       THEN StartUpdate(closing = "queued", "chained")
       ELSE /\ running' = IF queued /\ hasPending THEN pending ELSE Nothing
            /\ pending' = IF queued THEN Unchanged ELSE pending
            /\ closing' = CASE closing = "running" -> "database"
                            [] closing = "chained" ->
                                    IF well THEN "database" ELSE "lost"
                            [] OTHER -> closing
    /\ UNCHANGED <<state, cache, early, due, loadVars, calls>>

Updated ==
    /\ EndUpdate(TRUE)
    /\ disk' = Overlay(running, disk)
    /\ UNCHANGED isErroneous

\* Of the update only keys ks are written.
WritePartly(ks) ==
    /\ disk' = [k \in Keys |-> IF k \in ks THEN Overlay(running, disk)[k]
                               ELSE disk[k]]
    /\ isErroneous' = TRUE

\* A statement fails, but the transaction ends ...
UpdatedPartly(ks) == EndUpdate(TRUE) /\ WritePartly(ks)

\* ... or beginning or ending it fails.
UpdateFails(ks) == EndUpdate(FALSE) /\ WritePartly(ks)

-----------------------------------------------------------------------------
(* Closing. *)

\* Defect: the storage takes changes while it closes.
CloseLate ==
    /\ closing = "no" /\ load = "done"
    /\ closing' = "delayed"
    /\ due' = TRUE
    /\ UNCHANGED <<state, cacheVars, running, queued, waiting, loadVars,
                   diskVars, calls>>

\* Defect: nothing is flushed when nothing is pending.
CloseIfPending ==
    /\ closing = "no" /\ load = "done"
    /\ state' = "closed"
    /\ closing' = "delayed"
    /\ due' = hasPending
    /\ UNCHANGED <<cacheVars, running, queued, waiting, loadVars, diskVars,
                   calls>>

\* BaseStorageMain awaits init first.
Close ==
    /\ closing = "no" /\ load = "done"
    /\ state' = "closed"
    /\ closing' = "delayed"
    /\ due' = TRUE
    /\ UNCHANGED <<cacheVars, running, queued, waiting, loadVars, diskVars,
                   calls>>

\* Defect: a database with errors is closed as it is.
DatabaseClosedAnyway ==
    /\ closing = "database"
    /\ closing' = "closed"
    /\ UNCHANGED <<state, cacheVars, flushVars, loadVars, diskVars, calls>>

\* A database without errors is closed as it is.  Otherwise, or if closing
\* it fails, its file is made anew from the cache.
DatabaseClosed ==
    /\ closing = "database"
    /\ closing' = "closed"
    /\ \/ ~isErroneous /\ UNCHANGED diskVars
       \/ isErroneous' = TRUE /\ disk' = cache
    /\ UNCHANGED <<state, cacheVars, flushVars, loadVars, calls>>

\* Making the file anew fails: it is as it was, or new with keys ks only.
RecoveryFails(ks) ==
    /\ closing = "database"
    /\ closing' = "failed"
    /\ isErroneous' = TRUE
    /\ \/ UNCHANGED disk
       \/ disk' = [k \in Keys |-> IF k \in ks THEN cache[k] ELSE None]
    /\ UNCHANGED <<state, cacheVars, flushVars, loadVars, calls>>

-----------------------------------------------------------------------------
Init ==
    /\ state = "initialized"
    /\ cache = Empty /\ pending = Unchanged
    /\ due = FALSE /\ running = Nothing /\ queued = FALSE /\ waiting = FALSE
    /\ load = "asked" /\ rows = Empty
    /\ closing = "no"
    /\ disk \in Items
    /\ isErroneous = FALSE /\ early = FALSE
    /\ calls = 0

Opening == ReadItems \/ Loaded \/ LoadFails

Updating ==
    \/ Updated
    \/ \E ks \in SUBSET Keys : UpdatedPartly(ks) \/ UpdateFails(ks)

Closed == DatabaseClosed \/ \E ks \in SUBSET Keys : RecoveryFails(ks)

Next ==
    \/ Opening
    \/ \E k \in Keys : Delete(k) \/ \E v \in Values : Set(k, v)
    \/ Flush \/ WhenFlushed
    \/ Timer \/ Updating
    \/ Close \/ Closed

Spec == Init /\ [][Next]_vars

\* Timers fire and the database answers, well or not.
FairSpec ==
    /\ Spec
    /\ WF_vars(Opening) /\ WF_vars(Timer)
    /\ WF_vars(Updating) /\ WF_vars(Closed)

-----------------------------------------------------------------------------
(* Properties. *)

\* The state has its shape, and a close has closed the storage.
TypeOK ==
    /\ state \in {"initialized", "closed"}
    /\ cache \in Items /\ pending \in Changes
    /\ running \in (Changes \ {Unchanged}) \cup {Nothing}
    /\ due \in BOOLEAN /\ queued \in BOOLEAN /\ waiting \in BOOLEAN
    /\ load \in {"asked", "read", "done"} /\ rows \in Items
    /\ closing \in Closings
    /\ disk \in Items
    /\ isErroneous \in BOOLEAN /\ early \in BOOLEAN
    /\ calls \in 0 .. MaxCalls
    /\ state = "closed" <=> closing # "no"
    /\ queued => running # Nothing

\* The rows as they will be when the update that runs is written.
Taken == IF running = Nothing THEN disk ELSE Overlay(running, disk)

\* Nothing is lost on the way to the disk: what get answers is what the disk
\* holds, or will hold after the changes on their way, however they are
\* interleaved with the updates (while no error was met).
NothingLost ==
    load = "done" /\ ~early /\ ~isErroneous => cache = Overlay(pending, Taken)

\* Changes that wait are always waited for: a timer or a task is to come.
PendingScheduled == hasPending => due \/ queued

\* Who waits in whenFlushed is never forgotten.
WaitersServed == waiting => hasPending \/ running # Nothing

\* A close is never left waiting for a task that does not exist.
CloseAwaited ==
    /\ closing = "delayed" => due
    /\ closing = "queued" => queued
    /\ closing \in {"running", "chained"} => running # Nothing

\* The storage as WriteBehind describes it.
seen == IF load = "done" THEN cache ELSE Overlay(pending, Taken)
held == IF running = Nothing THEN Nothing ELSE Taken
mode == IF early THEN "unknown" ELSE IF isErroneous THEN "failed" ELSE "exact"
shut == closing = "closed"

Promise == INSTANCE WriteBehind WITH
    items <- seen, saved <- disk, taken <- held, closed <- shut

\* The disk holds a complete earlier state of the items and only moves
\* forward; once the storage is closed it holds them all, even after errors.
Implements == Promise!Spec

\* When calls pause, everything is written and nobody waits.
Settles == <>[](~hasPending /\ running = Nothing /\ ~waiting)

\* Without errors of the database, a close comes to its end.
ClosesUnlessErroneous ==
    closing # "no" ~> closing = "closed" \/ isErroneous

\* "even if there is an error flushing. We must always ensure the DB is
\* closed to avoid corruption." (storage.ts:285): whatever happens, the
\* database is asked to close.
AlwaysCloses == closing # "no" ~> closing \in {"database", "closed", "failed"}

\* Whatever waits has something to wait for: changes, callers of whenFlushed,
\* and a close.
NobodyForgotten == PendingScheduled /\ WaitersServed /\ CloseAwaited
=============================================================================
