----------------------------- MODULE MCExplainer -----------------------------
(***************************************************************************)
(* Small instances of Explainer for TLC.  A behaviour is of one of two     *)
(* sizes: one explainer with all there is, or two with two suggestions of  *)
(* one line and without the mouse.                                         *)
(***************************************************************************)
EXTENDS Explainer, TLC

CONSTANTS
    SmallBuffers,   \* contents of the file when there are two explainers
    SmallCodes,     \* suggestions when there are two explainers
    LargeCodes      \* suggestions when there is one

VARIABLE size

\* "s" and the small ones are suggestions of one line, "c" of a one-line comment
\* and "m" of two lines; "f" and "g" are contents of the file.
MCIsComment ==
    [t \in Codes \cup Buffers |->
        IF t \in {"m", "f"} THEN <<FALSE, TRUE>> ELSE <<t = "c">>]

\* Only behaviours with two explainers have small suggestions.
MCSymmetry == Permutations(SmallCodes)

\* What a behaviour of either size consists of.
Fits ==
    \/ /\ size = "one" /\ idOfExplainer <= 1
       /\ buffer \notin SmallBuffers /\ ghost \in LargeCodes \cup {None}
    \/ /\ size = "two" /\ dispatch.ev # "mousemove"
       /\ buffer \in SmallBuffers /\ ghost \in SmallCodes \cup {None}

MCInit == Init /\ size \in {"one", "two"} /\ Fits
MCNext == Next /\ UNCHANGED size /\ Fits'
MCSpec == MCInit /\ [][MCNext]_<<vars, size>>
=============================================================================
