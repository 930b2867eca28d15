----------------------------- MODULE WriteBehind -----------------------------
(***************************************************************************)
(* What a storage promises: items that are written behind the caller's     *)
(* back.  While nothing fails, the disk holds a complete earlier state of  *)
(* the items, and only moves forward; once closed it holds the items.      *)
(***************************************************************************)
CONSTANTS Items, Nothing

VARIABLES items, saved, taken, mode, closed

vars == <<items, saved, taken, mode, closed>>

Modes == {"exact", "failed", "unknown"}

Init ==
    /\ items \in Items
    /\ saved = items
    /\ taken = Nothing
    /\ mode = "exact"
    /\ closed = FALSE

Write ==
    /\ mode = "exact" /\ ~closed
    /\ items' \in Items
    /\ UNCHANGED <<saved, taken, mode, closed>>

\* The present items are taken, to be saved.
Take ==
    /\ mode = "exact" /\ ~closed
    /\ taken = Nothing /\ taken' = items
    /\ UNCHANGED <<items, saved, mode, closed>>

\* What was taken is saved, and more may be taken at once.
Save ==
    /\ mode = "exact" /\ ~closed
    /\ taken # Nothing /\ saved' = taken
    /\ taken' \in {Nothing, items}
    /\ UNCHANGED <<items, mode, closed>>

\* The disk failed: until the storage is closed nothing is promised of it.
Broken ==
    /\ ~closed /\ ~closed'
    /\ \/ mode' = "failed" /\ mode # "unknown"
       \/ mode' = "unknown"

\* Whatever failed, the items are saved in the end, if they are known.
Close ==
    /\ ~closed /\ closed'
    /\ mode # "unknown" => saved' = items
    /\ mode' \in {mode, "failed"}
    /\ UNCHANGED items

Next == Write \/ Take \/ Save \/ Broken \/ Close

Spec == Init /\ [][Next]_vars
=============================================================================
