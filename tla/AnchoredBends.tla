---------------------------- MODULE AnchoredBends ----------------------------
(***************************************************************************)
(* What the multi-line explanation of a piece of code promises: "bends",   *)
(* each beside an interval of lines, appear one after the other from top   *)
(* to bottom, while a placeholder says that more are being retrieved.      *)
(***************************************************************************)
EXTENDS Integers, Sequences, SequencesExt

VARIABLES
    bends,    \* <<first line, last line>> of each bend, in order
    waiting   \* the placeholder is shown

vars == <<bends, waiting>>

\* The last line that has a bend.
Below(bs) == IF bs = << >> THEN 0 ELSE Last(bs)[2]

Init == bends = << >> /\ waiting = TRUE

Draw ==
    /\ bends' # << >>
    /\ LET b == Last(bends')
       IN /\ b \in Nat \X Nat
          /\ Below(bends) < b[1] /\ b[1] <= b[2]
          /\ bends' = Append(bends, b)

\* Another bend while more may come.
More == waiting /\ Draw /\ UNCHANGED waiting

\* The end of the answer, with or without a last bend.
Finish ==
    /\ waiting /\ waiting' = FALSE
    /\ Draw \/ UNCHANGED bends

Next == More \/ Finish

Spec == Init /\ [][Next]_vars
=============================================================================
