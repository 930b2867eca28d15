------------------------- MODULE MCInlineCompletions -------------------------
(***************************************************************************)
(* One editor with two lines.  Lines are only told apart, never compared:  *)
(* what is said of behaviours that begin on one line is said of the other. *)
(***************************************************************************)
EXTENDS InlineCompletions

MCLines == {1, 2}
MCInit == Init /\ line = 1
MCSpec == MCInit /\ [][Next]_vars /\ Fairness
=============================================================================
