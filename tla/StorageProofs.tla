---------------------------- MODULE StorageProofs ----------------------------
(***************************************************************************)
(* A storage loses no change and implements WriteBehind, for any keys and  *)
(* values and any number of calls.                                         *)
(***************************************************************************)
EXTENDS Storage, TLAPS

-----------------------------------------------------------------------------
(* The invariant. *)

\* Until the items are read nothing is written, unless a change came early.
Untouched ==
    load # "done" /\ ~early =>
        /\ pending = Unchanged /\ running = Nothing
        /\ load = "read" => rows = disk

\* A close that got as far as its own update leaves nothing behind it.
Drained ==
    /\ closing # "no" => load = "done"
    /\ closing \in {"running", "chained"} => pending = Unchanged
    /\ closing \in {"database", "closed", "failed", "lost"} =>
            pending = Unchanged /\ running = Nothing

\* Flushes are scheduled, and what is under way is awaited.
Scheduled == PendingScheduled /\ WaitersServed /\ CloseAwaited

IInv == TypeOK /\ Untouched /\ Drained /\ Scheduled /\ NothingLost

-----------------------------------------------------------------------------
(* Changes laid over items. *)

\* The changes the program makes are changes.
LEMMA ChangeTypes ==
    /\ Unchanged \in Changes /\ Empty \in Items
    /\ \A c \in Changes, k \in Keys, v \in Values \cup {None} :
            [c EXCEPT ![k] = v] \in Changes
    /\ \A d \in Items, k \in Keys, v \in Values \cup {None} :
            [d EXCEPT ![k] = v] \in Items
    /\ \A c \in Changes, d \in Items : Overlay(c, d) \in Items
    /\ Nothing \notin Items /\ Nothing \notin Changes
BY MarksAssumption DEF Changes, Items, Unchanged, Empty, Overlay

\* No change changes nothing.
LEMMA OverlayNothing == \A d \in Items : Overlay(Unchanged, d) = d
BY DEF Items, Overlay, Unchanged

\* An update that is partly written leaves items.
LEMMA PartType ==
    ASSUME NEW a \in Items, NEW b \in Items, NEW ks
    PROVE  [k \in Keys |-> IF k \in ks THEN a[k] ELSE b[k]] \in Items
BY DEF Items

\* So does a file made anew in part.
LEMMA AnewType ==
    ASSUME NEW a \in Items, NEW ks
    PROVE  [k \in Keys |-> IF k \in ks THEN a[k] ELSE None] \in Items
BY DEF Items

-----------------------------------------------------------------------------
(* What the parts of a step do. *)

\* The rows to come are items.
LEMMA TakenType == TypeOK => Taken \in Items
BY ChangeTypes DEF TypeOK, Taken

\* Starting an update moves the pending changes into it.
LEMMA Starting ==
    ASSUME IInv, NEW closeWaits \in BOOLEAN, NEW at,
           StartUpdate(closeWaits, at)
    PROVE  /\ pending' = Unchanged
           /\ running' \in (Changes \ {Unchanged}) \cup {Nothing}
           /\ hasPending => running' = pending
           /\ ~hasPending => running' = Nothing
           /\ ~closeWaits => closing' = closing
           /\ closeWaits /\ hasPending => closing' = at
           /\ closeWaits /\ ~hasPending => closing' = "database"
BY DEF IInv, TypeOK, StartUpdate, hasPending

\* When an update ends, the next one is what was pending or there is none,
\* and a close that waits goes one step further.
LEMMA Ending ==
    ASSUME IInv, NEW well \in BOOLEAN, EndUpdate(well)
    PROVE  /\ running # Nothing /\ ~queued'
           /\ UNCHANGED <<state, cache, early, due, load, rows, calls>>
           /\ waiting' \in BOOLEAN
           /\ waiting' => waiting /\ hasPending
           /\ \/ /\ queued /\ pending' = Unchanged
                 /\ hasPending => running' = pending
                 /\ ~hasPending => running' = Nothing
              \/ ~queued /\ pending' = pending /\ running' = Nothing
           /\ running' \in (Changes \ {Unchanged}) \cup {Nothing}
           /\ \/ closing = "running" /\ closing' = "database"
              \/ closing = "chained" /\ closing' \in {"database", "lost"}
              \/ /\ closing = "queued" /\ queued
                 /\ IF hasPending THEN closing' = "chained"
                    ELSE closing' = "database"
              \/ closing \in {"no", "delayed"} /\ closing' = closing
<1>1. /\ running # Nothing /\ ~queued'
      /\ UNCHANGED <<state, cache, early, due, load, rows, calls>>
      /\ waiting' = (waiting /\ hasPending)
  BY DEF EndUpdate, Release, loadVars
<1>2. waiting' \in BOOLEAN /\ (waiting' => waiting /\ hasPending)
  BY <1>1 DEF IInv, TypeOK
<1>3. closing \in {"no", "delayed", "queued", "running", "chained"}
  BY <1>1 DEF IInv, TypeOK, Closings, Drained
<1>4. CASE queued /\ closing \notin {"running", "chained"}
  <2>1. StartUpdate(closing = "queued", "chained")
    BY <1>4 DEF EndUpdate
  <2>. QED  BY <1>1, <1>2, <1>3, <1>4, <2>1, Starting
<1>5. CASE ~(queued /\ closing \notin {"running", "chained"})
  <2>1. /\ running' = IF queued /\ hasPending THEN pending ELSE Nothing
        /\ pending' = IF queued THEN Unchanged ELSE pending
        /\ closing' = CASE closing = "running" -> "database"
                        [] closing = "chained" ->
                                IF well THEN "database" ELSE "lost"
                        [] OTHER -> closing
    BY <1>5 DEF EndUpdate
  <2>2. closing = "queued" => queued
    BY DEF IInv, Scheduled, CloseAwaited
  <2>3. pending \in Changes
    BY DEF IInv, TypeOK
  <2>. QED  BY <1>1, <1>2, <1>3, <1>5, <2>1, <2>2, <2>3 DEF hasPending
<1>. QED  BY <1>4, <1>5

-----------------------------------------------------------------------------
(* Every step keeps the invariant. *)

\* The first state satisfies it.
LEMMA InitHolds == Init => IInv
<1>. SUFFICES ASSUME Init PROVE IInv
  OBVIOUS
<1>1. TypeOK
  <2>1. Empty \in Items /\ Unchanged \in Changes
    BY ChangeTypes
  <2>2. state = "closed" <=> closing # "no"
    BY DEF Init
  <2>3. calls \in 0 .. MaxCalls
    BY MaxCallsAssumption DEF Init
  <2>4. queued => running # Nothing
    BY DEF Init
  <2>. QED  BY <2>1, <2>2, <2>3, <2>4 DEF Init, TypeOK, Closings
<1>2. Untouched /\ Drained /\ NothingLost
  BY DEF Init, Untouched, Drained, NothingLost
<1>3. Scheduled
  BY DEF Init, Scheduled, PendingScheduled, WaitersServed, CloseAwaited,
         hasPending
<1>. QED  BY <1>1, <1>2, <1>3 DEF IInv

\* Reading the items replaces a cache that nobody changed, or changed early.
LEMMA OpeningKeeps == IInv /\ Opening => IInv'
<1>. SUFFICES ASSUME IInv, Opening PROVE IInv'
  OBVIOUS
<1>1. CASE ReadItems
  BY <1>1 DEF ReadItems, IInv, TypeOK, Untouched, Drained, Scheduled,
              PendingScheduled, WaitersServed, CloseAwaited, NothingLost,
              Taken, hasPending, cacheVars, flushVars, diskVars
<1>2. CASE Loaded
  <2>. USE <1>2 DEF Loaded, cacheVars, flushVars, diskVars
  <2>1. TypeOK'
    BY ChangeTypes DEF IInv, TypeOK
  <2>2. NothingLost'
    BY OverlayNothing DEF IInv, TypeOK, Untouched, NothingLost, Taken
  <2>. QED  BY <2>1, <2>2 DEF IInv, Untouched, Drained, Scheduled,
              PendingScheduled, WaitersServed, CloseAwaited, hasPending
<1>3. CASE LoadFails
  BY <1>3 DEF LoadFails, IInv, TypeOK, Untouched, Drained, Scheduled,
              PendingScheduled, WaitersServed, CloseAwaited, NothingLost,
              Taken, hasPending, flushVars
<1>. QED  BY <1>1, <1>2, <1>3 DEF Opening

\* A change is made to the cache and to the pending changes alike.
LEMMA ChangeKeeps ==
    ASSUME IInv, NEW k \in Keys, NEW v \in Values \cup {None},
           Change(k, v), pending' = [pending EXCEPT ![k] = v]
    PROVE  IInv'
<1>. USE DEF Change, Call, loadVars, diskVars
<1>1. TypeOK'
  <2>1. cache' \in Items /\ pending' \in Changes
    BY ChangeTypes DEF IInv, TypeOK
  <2>2. early' \in BOOLEAN
    BY Zenon DEF Change
  <2>3. calls' \in 0 .. MaxCalls
    BY MaxCallsAssumption DEF IInv, TypeOK
  <2>. QED  BY <2>1, <2>2, <2>3 DEF IInv, TypeOK
<1>2. NothingLost'
  <2>. SUFFICES ASSUME load = "done", ~early, ~isErroneous
                PROVE  cache' = Overlay(pending', Taken)
    BY DEF NothingLost, Taken
  <2>1. Taken \in Items /\ pending \in Changes
    BY TakenType DEF IInv, TypeOK
  <2>2. Overlay(pending', Taken) = [Overlay(pending, Taken) EXCEPT ![k] = v]
    BY <2>1, MarksAssumption DEF Overlay, Changes
  <2>. QED  BY <2>2 DEF IInv, NothingLost
<1>3. closing = "no" /\ closing' = "no"
  BY DEF IInv, TypeOK
<1>4. pending' # Unchanged
  <2>1. pending'[k] = v /\ Unchanged[k] = Same
    BY DEF IInv, TypeOK, Changes, Unchanged
  <2>. QED  BY <2>1, MarksAssumption
<1>. QED  BY <1>1, <1>2, <1>3, <1>4
          DEF IInv, Untouched, Drained, Scheduled, PendingScheduled,
              WaitersServed, CloseAwaited, hasPending

\* Flushes and waiters change what is scheduled, not what is pending.
LEMMA FlushKeeps == IInv /\ (Flush \/ WhenFlushed) => IInv'
<1>. SUFFICES ASSUME IInv, Flush \/ WhenFlushed PROVE IInv'
  OBVIOUS
<1>1. /\ hasPending /\ (due' = TRUE \/ due' = due)
      /\ waiting' = TRUE \/ waiting' = waiting
      /\ UNCHANGED <<state, cache, pending, early, running, queued, load, rows,
                     closing, disk, isErroneous>>
  BY DEF Flush, WhenFlushed, cacheVars, loadVars, diskVars
<1>2. calls' \in 0 .. MaxCalls
  BY MaxCallsAssumption DEF Flush, WhenFlushed, Call, IInv, TypeOK
<1>3. TypeOK' /\ Untouched' /\ Drained' /\ NothingLost'
  BY <1>2, <1>1 DEF IInv, TypeOK, Untouched, Drained, NothingLost, Taken
<1>4. Scheduled'
  BY <1>1 DEF IInv, Scheduled, PendingScheduled, WaitersServed, CloseAwaited,
              hasPending
<1>. QED  BY <1>1, <1>3, <1>4 DEF IInv

\* When the time is up the pending changes are taken or a task is queued.
LEMMA TimerKeeps == IInv /\ Timer => IInv'
<1>. SUFFICES ASSUME IInv, Timer PROVE IInv'
  OBVIOUS
<1>. USE DEF Timer, loadVars, diskVars
<1>1. CASE running = Nothing
  <2>1. /\ StartUpdate(closing = "delayed", "running")
        /\ UNCHANGED <<state, cache, early, queued, waiting, load, rows, disk,
                       isErroneous, calls>>
        /\ due' = FALSE /\ ~queued
    BY <1>1 DEF IInv, TypeOK
  <2>2. /\ pending' = Unchanged
        /\ running' \in (Changes \ {Unchanged}) \cup {Nothing}
        /\ hasPending => running' = pending
        /\ ~hasPending => running' = Nothing
        /\ closing # "delayed" => closing' = closing
        /\ closing = "delayed" /\ hasPending => closing' = "running"
        /\ closing = "delayed" /\ ~hasPending => closing' = "database"
    BY <2>1, Starting
  <2>. HIDE DEF Timer
  <2>3. TypeOK'
    BY <2>1, <2>2, ChangeTypes DEF IInv, TypeOK, Closings
  <2>4. NothingLost'
    <3>1. disk \in Items /\ Overlay(pending, disk) \in Items
      BY ChangeTypes DEF IInv, TypeOK
    <3>2. hasPending => running' # Nothing
      BY <2>2, ChangeTypes DEF IInv, TypeOK
    <3>3. Overlay(pending', Taken') = Overlay(pending, Taken)
      BY <1>1, <2>1, <2>2, <3>1, <3>2, OverlayNothing DEF Taken, hasPending
    <3>. QED  BY <2>1, <3>3 DEF IInv, NothingLost
  <2>5. Untouched'
    BY <2>1, <2>2 DEF IInv, Untouched, hasPending
  <2>6. Drained'
    BY <1>1, <2>1, <2>2 DEF IInv, TypeOK, Drained, hasPending
  <2>7. Scheduled'
    BY <1>1, <2>1, <2>2, ChangeTypes
       DEF IInv, TypeOK, Scheduled, PendingScheduled, WaitersServed,
           CloseAwaited, Drained, hasPending
  <2>. QED  BY <2>3, <2>4, <2>5, <2>6, <2>7 DEF IInv
<1>2. CASE running # Nothing
  BY <1>2 DEF IInv, TypeOK, Closings, Untouched, Drained, Scheduled,
              PendingScheduled, WaitersServed, CloseAwaited, NothingLost,
              Taken, hasPending
<1>. QED  BY <1>1, <1>2

\* When an update ends, what was pending is taken, or stays and is scheduled.
LEMMA EndingKeeps ==
    ASSUME IInv, NEW well \in BOOLEAN, EndUpdate(well), disk' \in Items,
           isErroneous' \in BOOLEAN
    PROVE  TypeOK' /\ Untouched' /\ Drained' /\ Scheduled'
<1>. USE Ending
<1>1. TypeOK'
  <2>1. closing' \in Closings /\ (closing' = "no" <=> closing = "no")
    BY DEF Closings
  <2>2. pending' \in Changes
    BY ChangeTypes DEF IInv, TypeOK
  <2>3. TypeOK
    BY DEF IInv
  <2>4. /\ pending' \in Changes /\ closing' \in Closings /\ queued' = FALSE
        /\ running' \in (Changes \ {Unchanged}) \cup {Nothing}
        /\ waiting' \in BOOLEAN /\ disk' \in Items /\ isErroneous' \in BOOLEAN
        /\ closing' = "no" <=> closing = "no"
        /\ UNCHANGED <<state, cache, early, due, load, rows, calls>>
    BY <2>1, <2>2
  <2>. QED  BY <2>3, <2>4 DEF TypeOK
<1>2. Untouched'
  BY DEF IInv, Untouched
<1>3. Drained'
  BY DEF IInv, TypeOK, Drained, hasPending
<1>4. Scheduled'
  BY ChangeTypes
     DEF IInv, TypeOK, Scheduled, PendingScheduled, WaitersServed,
         CloseAwaited, Drained, hasPending
<1>. QED  BY <1>1, <1>2, <1>3, <1>4

\* An update that is written moves its changes to the disk.
LEMMA UpdatedMoves ==
    ASSUME IInv, Updated
    PROVE  /\ disk' = Taken
           /\ Overlay(pending', Taken') = Overlay(pending, Taken)
           /\ Taken' = IF running' = Nothing THEN Taken
                       ELSE Overlay(pending, Taken)
<1>1. EndUpdate(TRUE) /\ disk' = Taken
  BY Ending DEF Updated, Taken
<1>2. Taken \in Items /\ Overlay(pending, Taken) \in Items
  BY TakenType, ChangeTypes DEF IInv, TypeOK
<1>3. pending \in Changes
  BY DEF IInv, TypeOK
<1>. QED  BY <1>1, <1>2, <1>3, Ending, OverlayNothing, ChangeTypes
          DEF Taken, hasPending

\* However an update ends, the invariant holds.
LEMMA UpdatingKeeps == IInv /\ Updating => IInv'
<1>. SUFFICES ASSUME IInv, Updating PROVE IInv'
  OBVIOUS
<1>1. CASE Updated
  <2>1. EndUpdate(TRUE) /\ isErroneous' = isErroneous /\ disk' \in Items
    BY <1>1, UpdatedMoves, TakenType DEF Updated, IInv
  <2>2. TypeOK' /\ Untouched' /\ Drained' /\ Scheduled'
    BY <2>1, EndingKeeps DEF IInv, TypeOK
  <2>3. NothingLost'
    BY <1>1, <2>1, UpdatedMoves, Ending DEF IInv, NothingLost
  <2>. QED  BY <2>2, <2>3 DEF IInv
<1>2. ASSUME NEW ks \in SUBSET Keys, UpdatedPartly(ks) \/ UpdateFails(ks)
      PROVE  IInv'
  <2>1. PICK well \in BOOLEAN : EndUpdate(well) /\ WritePartly(ks)
    BY <1>2 DEF UpdatedPartly, UpdateFails
  <2>2. running \in Changes /\ disk \in Items
    BY <2>1, Ending DEF IInv, TypeOK
  <2>3. disk' \in Items /\ isErroneous' = TRUE
    BY <2>1, <2>2, PartType, ChangeTypes DEF WritePartly
  <2>4. TypeOK' /\ Untouched' /\ Drained' /\ Scheduled'
    BY <2>1, <2>3, EndingKeeps
  <2>. QED  BY <2>3, <2>4 DEF IInv, NothingLost
<1>. QED  BY <1>1, <1>2 DEF Updating

\* Closing waits for a flush, and the database is closed after it.
LEMMA ClosingKeeps == IInv /\ (Close \/ Closed) => IInv'
<1>. SUFFICES ASSUME IInv, Close \/ Closed PROVE IInv'
  OBVIOUS
<1>1. CASE Close
  BY <1>1 DEF Close, IInv, TypeOK, Closings, Untouched, Drained, Scheduled,
              PendingScheduled, WaitersServed, CloseAwaited, NothingLost,
              Taken, hasPending, cacheVars, loadVars, diskVars
<1>2. CASE Closed
  <2>1. /\ closing = "database" /\ closing' \in {"closed", "failed"}
        /\ disk' \in Items /\ isErroneous' \in BOOLEAN
        /\ isErroneous' \/ disk' = disk
        /\ isErroneous => isErroneous'
        /\ UNCHANGED <<state, cacheVars, flushVars, loadVars, calls>>
    <3>1. CASE DatabaseClosed
      BY <3>1 DEF DatabaseClosed, IInv, TypeOK, diskVars
    <3>2. ASSUME NEW ks \in SUBSET Keys, RecoveryFails(ks)
          PROVE  /\ closing = "database" /\ closing' = "failed"
                 /\ disk' \in Items /\ isErroneous' = TRUE
                 /\ UNCHANGED <<state, cacheVars, flushVars, loadVars, calls>>
      BY <3>2, AnewType DEF RecoveryFails, IInv, TypeOK
    <3>. QED  BY <1>2, <3>1, <3>2 DEF Closed
  <2>. QED  BY <2>1 DEF IInv, TypeOK, Closings, Untouched, Drained, Scheduled,
              PendingScheduled, WaitersServed, CloseAwaited, NothingLost,
              Taken, hasPending, cacheVars, flushVars, loadVars
<1>. QED  BY <1>1, <1>2

\* Every step keeps it.
LEMMA StepKeeps == IInv /\ [Next]_vars => IInv'
<1>. SUFFICES ASSUME IInv, [Next]_vars PROVE IInv'
  OBVIOUS
<1>1. ASSUME NEW k \in Keys, Delete(k) \/ \E v \in Values : Set(k, v)
      PROVE  IInv'
  BY <1>1, ChangeKeeps DEF Delete, Set
<1>2. CASE UNCHANGED vars
  BY <1>2 DEF vars, cacheVars, flushVars, loadVars, diskVars, IInv, TypeOK,
              Untouched, Drained, Scheduled, PendingScheduled, WaitersServed,
              CloseAwaited, NothingLost, Taken, hasPending
<1>. QED  BY <1>1, <1>2, OpeningKeeps, FlushKeeps, TimerKeeps, UpdatingKeeps,
             ClosingKeeps DEF Next

-----------------------------------------------------------------------------
(* Every step is a step of WriteBehind, or none of its. *)

\* What is seen are items, and while nothing failed those on their way.
LEMMA SeenItems ==
    ASSUME IInv
    PROVE  /\ seen \in Items
           /\ mode = "exact" => seen = Overlay(pending, Taken)
BY TakenType, ChangeTypes DEF IInv, TypeOK, seen, mode, NothingLost

\* After an error anything may happen, as long as the storage stays open.
LEMMA AfterError ==
    ASSUME IInv, ~shut, ~shut', mode' # "exact",
           early => early', isErroneous => isErroneous'
    PROVE  Promise!Broken
BY DEF Promise!Broken, shut, mode

\* Steps that WriteBehind does not see.
LEMMA NotSeen ==
    ASSUME UNCHANGED <<seen, disk, held, early, isErroneous>>, shut' = shut
    PROVE  UNCHANGED Promise!vars
BY DEF Promise!vars, seen, held, shut, mode

\* The last flush has written everything when the database closes.
LEMMA ClosedRefines ==
    ASSUME IInv, DatabaseClosed
    PROVE  Promise!Close
<1>1. /\ ~shut /\ shut' /\ load = "done" /\ pending = Unchanged
      /\ running = Nothing /\ disk \in Items
  BY DEF DatabaseClosed, IInv, TypeOK, Drained, shut
<1>2. /\ UNCHANGED <<cache, pending, running, load, early>>
      /\ isErroneous' = isErroneous \/ isErroneous' = TRUE
      /\ disk' = cache \/ (~isErroneous /\ disk' = disk)
  BY DEF DatabaseClosed, cacheVars, flushVars, loadVars, diskVars
<1>3. ~early /\ ~isErroneous => cache = disk
  BY <1>1, OverlayNothing DEF IInv, NothingLost, Taken
<1>4. mode # "unknown" => disk' = seen
  BY <1>1, <1>2, <1>3 DEF mode, seen
<1>5. seen' = seen
  BY <1>1, <1>2 DEF seen
<1>6. mode' \in {mode, "failed"}
  BY <1>2 DEF mode
<1>. QED  BY <1>1, <1>4, <1>5, <1>6 DEF Promise!Close, seen, shut

\* What is taken, is the items as they are.
LEMMA TimerRefines ==
    ASSUME IInv, Timer, ~shut, ~shut', mode = "exact", mode' = "exact"
    PROVE  Promise!Take \/ UNCHANGED Promise!vars
<1>1. /\ seen = Overlay(pending, Taken) /\ seen \in Items /\ disk \in Items
      /\ seen = cache \/ load # "done"
  BY SeenItems DEF IInv, TypeOK, seen
<1>2. UNCHANGED <<cache, load, disk, early, isErroneous>>
  BY DEF Timer, loadVars, diskVars
<1>3. CASE running = Nothing /\ hasPending
  <2>1. running' = pending /\ pending' = Unchanged /\ pending \in Changes
    BY <1>3, Starting DEF Timer, IInv, TypeOK
  <2>2. running' # Nothing /\ Overlay(pending, disk) = seen
    BY <1>1, <1>3, <2>1, ChangeTypes DEF Taken
  <2>3. held = Nothing /\ held' = seen
    BY <1>2, <1>3, <2>1, <2>2 DEF held, Taken
  <2>4. seen' = seen
    BY <1>1, <1>2, <2>1, <2>2, OverlayNothing DEF seen, Taken
  <2>. QED  BY <1>2, <2>3, <2>4 DEF Promise!Take, shut
<1>4. CASE running = Nothing /\ ~hasPending
  <2>1. running' = Nothing /\ pending' = pending
    BY <1>4, Starting DEF Timer, hasPending
  <2>. QED  BY <1>2, <1>4, <2>1, NotSeen DEF seen, held, shut, Taken
<1>5. CASE running # Nothing
  BY <1>2, <1>5, NotSeen DEF Timer, seen, held, shut, Taken
<1>. QED  BY <1>3, <1>4, <1>5

\* What was taken is saved, and with it the items may be taken anew.
LEMMA UpdatedRefines ==
    ASSUME IInv, Updated, mode = "exact", mode' = "exact"
    PROVE  Promise!Save
<1>1. /\ running # Nothing /\ UNCHANGED <<cache, load, early, isErroneous>>
      /\ ~shut /\ ~shut'
  BY Ending DEF Updated, IInv, Drained, shut
<1>2. /\ held = Taken /\ held # Nothing /\ disk' = held
  BY <1>1, TakenType, ChangeTypes, UpdatedMoves DEF held, IInv
<1>3. seen = Overlay(pending, Taken) /\ load = "done"
  BY <1>1, SeenItems DEF IInv, Untouched, mode
<1>4. seen' = seen
  BY <1>1, <1>3 DEF seen
<1>5. held' \in {Nothing, seen}
  BY <1>3, UpdatedMoves DEF held
<1>. QED  BY <1>1, <1>2, <1>4, <1>5 DEF Promise!Save, shut

\* A change of the items is written, or it came too early to be promised.
LEMMA ChangeRefines ==
    ASSUME IInv, NEW k \in Keys, NEW v \in Values \cup {None},
           Change(k, v), mode' = "exact"
    PROVE  Promise!Write
<1>1. load = "done" /\ load' = "done" /\ mode = "exact"
  BY DEF Change, mode, loadVars, diskVars
<1>2. ~shut /\ ~shut'
  BY DEF Change, IInv, TypeOK, shut
<1>3. cache' \in Items
  BY ChangeTypes DEF Change, IInv, TypeOK
<1>4. UNCHANGED <<running, disk>>
  BY DEF Change, diskVars
<1>. QED  BY <1>1, <1>2, <1>3, <1>4
          DEF Promise!Write, seen, held, Taken, shut

\* Before the items are read they are the rows of the database.
LEMMA OpeningRefines ==
    ASSUME IInv, ReadItems \/ Loaded, mode' = "exact"
    PROVE  UNCHANGED Promise!vars
<1>1. UNCHANGED <<pending, running, disk, early, isErroneous, closing>>
  BY DEF ReadItems, Loaded, cacheVars, flushVars, diskVars
<1>2. CASE ReadItems
  BY <1>1, <1>2, NotSeen
     DEF ReadItems, seen, held, Taken, shut, cacheVars
<1>3. CASE Loaded
  <2>1. pending = Unchanged /\ running = Nothing /\ rows = disk
    BY <1>1, <1>3 DEF Loaded, IInv, Untouched, mode
  <2>2. seen = disk /\ seen' = disk
    BY <1>3, <2>1, OverlayNothing DEF Loaded, seen, Taken, IInv, TypeOK
  <2>. QED  BY <1>1, <2>1, <2>2, NotSeen DEF held, shut
<1>. QED  BY <1>2, <1>3

\* Once closed, the storage does nothing more that is seen.
LEMMA ShutStays ==
    ASSUME IInv, [Next]_vars, shut
    PROVE  UNCHANGED Promise!vars
<1>1. /\ closing = "closed" /\ pending = Unchanged /\ running = Nothing
      /\ load = "done" /\ state = "closed"
  BY DEF shut, IInv, TypeOK, Drained
<1>2. CASE Timer
  <2>1. running' = Nothing /\ pending' = Unchanged /\ closing' = closing
    BY <1>1, <1>2, Starting DEF Timer, hasPending
  <2>2. UNCHANGED <<cache, load, disk, early, isErroneous>>
    BY <1>2 DEF Timer, loadVars, diskVars
  <2>. QED  BY <1>1, <2>1, <2>2, NotSeen DEF seen, held, shut, Taken
<1>3. CASE UNCHANGED vars
  BY <1>3, NotSeen DEF vars, cacheVars, flushVars, loadVars, diskVars, seen,
                       held, shut, Taken
<1>4. ~Opening /\ ~Flush /\ ~WhenFlushed /\ ~Close /\ ~Closed
  BY <1>1 DEF Opening, ReadItems, Loaded, LoadFails, Flush, WhenFlushed,
              Close, Closed, DatabaseClosed, RecoveryFails, hasPending
<1>5. ~Updating
  BY <1>1, Ending DEF Updating, Updated, UpdatedPartly, UpdateFails
<1>6. ~\E k \in Keys : Delete(k) \/ \E v \in Values : Set(k, v)
  BY <1>1 DEF Delete, Set, Change
<1>. QED  BY <1>2, <1>3, <1>4, <1>5, <1>6 DEF Next

\* Errors are not forgotten, and only the database's answer ends a close.
LEMMA StepForward ==
    ASSUME IInv, [Next]_vars
    PROVE  /\ early => early'
           /\ isErroneous => isErroneous'
           /\ ~shut /\ shut' => DatabaseClosed
<1>1. CASE Opening
  BY <1>1 DEF Opening, ReadItems, Loaded, LoadFails, cacheVars, diskVars, shut
<1>2. ASSUME NEW k \in Keys, NEW v \in Values \cup {None}, Change(k, v)
      PROVE  (early => early') /\ UNCHANGED <<isErroneous, closing>>
  BY <1>2 DEF Change, diskVars
<1>3. CASE Flush \/ WhenFlushed
  BY <1>3 DEF Flush, WhenFlushed, cacheVars, diskVars, shut
<1>4. CASE Timer
  <2>1. UNCHANGED <<early, isErroneous>>
    BY <1>4 DEF Timer, diskVars
  <2>2. closing' \in {closing, "running", "queued", "database"}
    <3>1. CASE running = Nothing
      <4>1. StartUpdate(closing = "delayed", "running")
        BY <1>4, <3>1 DEF Timer
      <4>. QED  BY <4>1, Starting
    <3>2. CASE running # Nothing
      BY <1>4, <3>2 DEF Timer
    <3>. QED  BY <3>1, <3>2
  <2>. QED  BY <2>1, <2>2 DEF shut
<1>5. CASE Updating
  <2>1. PICK well \in BOOLEAN : EndUpdate(well)
    BY <1>5 DEF Updating, Updated, UpdatedPartly, UpdateFails
  <2>2. isErroneous => isErroneous'
    BY <1>5 DEF Updating, Updated, UpdatedPartly, UpdateFails, WritePartly
  <2>. QED  BY <2>1, <2>2, Ending DEF shut
<1>6. CASE Close \/ Closed
  BY <1>6 DEF Close, Closed, DatabaseClosed, RecoveryFails, cacheVars,
              diskVars, shut
<1>7. CASE UNCHANGED vars
  BY <1>7 DEF vars, cacheVars, diskVars, shut
<1>8. CASE \E k \in Keys : Delete(k) \/ \E v \in Values : Set(k, v)
  <2>1. PICK k \in Keys, v \in Values \cup {None} : Change(k, v)
    BY <1>8 DEF Delete, Set
  <2>. QED  BY <1>2, <2>1 DEF shut
<1>. QED  BY <1>1, <1>3, <1>4, <1>5, <1>6, <1>7, <1>8 DEF Next

\* Every step of a storage is one of WriteBehind or changes nothing it sees.
LEMMA StepRefines == IInv /\ [Next]_vars => [Promise!Next]_(Promise!vars)
<1>. SUFFICES ASSUME IInv, [Next]_vars
              PROVE  Promise!Next \/ UNCHANGED Promise!vars
  OBVIOUS
<1>1. CASE shut
  BY <1>1, ShutStays
<1>2. CASE ~shut /\ shut'
  BY <1>2, StepForward, ClosedRefines DEF Promise!Next
<1>3. CASE ~shut /\ ~shut' /\ mode' # "exact"
  BY <1>3, StepForward, AfterError DEF Promise!Next
<1>4. CASE ~shut /\ ~shut' /\ mode' = "exact"
  <2>1. mode = "exact"
    BY <1>4, StepForward DEF mode
  <2>2. ~LoadFails /\ ~Closed
    <3>1. ~LoadFails
      BY <1>4 DEF LoadFails, mode
    <3>2. ~DatabaseClosed
      BY <1>4 DEF DatabaseClosed, shut
    <3>3. ~\E ks \in SUBSET Keys : RecoveryFails(ks)
      BY <1>4 DEF RecoveryFails, mode
    <3>. QED  BY <3>1, <3>2, <3>3 DEF Closed
  <2>3. CASE ReadItems \/ Loaded
    BY <1>4, <2>3, OpeningRefines
  <2>4. CASE \E k \in Keys : Delete(k) \/ \E v \in Values : Set(k, v)
    <3>1. PICK k \in Keys, v \in Values \cup {None} :
            Change(k, v) /\ pending' = [pending EXCEPT ![k] = v]
      BY <2>4 DEF Delete, Set
    <3>. QED  BY <1>4, <3>1, ChangeRefines DEF Promise!Next
  <2>5. CASE Flush \/ WhenFlushed \/ Close
    <3>1. UNCHANGED <<cache, pending, running, load, disk, early, isErroneous>>
      BY <2>5 DEF Flush, WhenFlushed, Close, cacheVars, loadVars, diskVars
    <3>. QED  BY <1>4, <3>1, NotSeen DEF seen, held, Taken, shut
  <2>6. CASE Timer
    BY <1>4, <2>1, <2>6, TimerRefines DEF Promise!Next
  <2>7. CASE Updating
    <3>1. CASE Updated
      BY <1>4, <2>1, <3>1, UpdatedRefines DEF Promise!Next
    <3>2. CASE \E ks \in SUBSET Keys : UpdatedPartly(ks) \/ UpdateFails(ks)
      BY <1>4, <3>2 DEF UpdatedPartly, UpdateFails, WritePartly, mode
    <3>. QED  BY <2>7, <3>1, <3>2 DEF Updating
  <2>8. CASE UNCHANGED vars
    BY <2>8, NotSeen DEF vars, cacheVars, flushVars, loadVars, diskVars, seen,
                         held, shut, Taken
  <2>. QED  BY <2>2, <2>3, <2>4, <2>5, <2>6, <2>7, <2>8 DEF Next, Opening
<1>. QED  BY <1>1, <1>2, <1>3, <1>4

\* The first state is one of WriteBehind's: the items are the rows.
LEMMA InitRefines == Init => Promise!Init
<1>. SUFFICES ASSUME Init PROVE Promise!Init
  OBVIOUS
<1>1. /\ load = "asked" /\ pending = Unchanged /\ running = Nothing
      /\ ~early /\ ~isErroneous /\ closing = "no" /\ disk \in Items
  BY DEF Init
<1>2. seen = disk
  BY <1>1, OverlayNothing DEF seen, Taken
<1>. QED  BY <1>1, <1>2 DEF Promise!Init, held, mode, shut

-----------------------------------------------------------------------------
(* Theorems. *)

\* The invariant holds in every state.
THEOREM Invariance == Spec => []IInv
<1>1. Init => IInv
  BY InitHolds
<1>2. IInv /\ [Next]_vars => IInv'
  BY StepKeeps
<1>. QED  BY <1>1, <1>2, PTL DEF Spec

\* The state keeps its shape: a storage that closes takes no more changes,
\* and a task is queued only behind an update.
THEOREM TypeCorrect == Spec => []TypeOK
<1>1. IInv => TypeOK
  BY DEF IInv
<1>. QED  BY <1>1, Invariance, PTL

\* While the database works, what get answers is on the disk or on its way.
THEOREM LosesNothing == Spec => []NothingLost
<1>1. IInv => NothingLost
  BY DEF IInv
<1>. QED  BY <1>1, Invariance, PTL

\* Pending changes always have a timer or a task to come, ...
THEOREM PendingIsScheduled == Spec => []PendingScheduled
<1>1. IInv => PendingScheduled
  BY DEF IInv, Scheduled
<1>. QED  BY <1>1, Invariance, PTL

\* ... who waits for them has something to wait for, ...
THEOREM WaitersAreServed == Spec => []WaitersServed
<1>1. IInv => WaitersServed
  BY DEF IInv, Scheduled
<1>. QED  BY <1>1, Invariance, PTL

\* ... and so has a close.
THEOREM CloseIsAwaited == Spec => []CloseAwaited
<1>1. IInv => CloseAwaited
  BY DEF IInv, Scheduled
<1>. QED  BY <1>1, Invariance, PTL

\* The disk holds a complete earlier state of the items, only moves forward,
\* and holds them all once the storage is closed, for any keys and values.
THEOREM StorageImplements == Spec => Implements
<1>1. Init => Promise!Init
  BY InitRefines
<1>2. IInv /\ [Next]_vars => [Promise!Next]_(Promise!vars)
  BY StepRefines
<1>. QED  BY <1>1, <1>2, Invariance, PTL DEF Spec, Implements, Promise!Spec

\* Changes, callers and a close that wait are all waited for by something that
\* will come.
THEOREM NobodyIsForgotten == Spec => []NobodyForgotten
  BY PendingIsScheduled, WaitersAreServed, CloseIsAwaited, PTL DEF NobodyForgotten
=============================================================================
