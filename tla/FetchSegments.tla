---------------------------- MODULE FetchSegments ----------------------------
(***************************************************************************)
(* How the answer about one line of code is cut into segments              *)
(* (OpenaiFetchAPI of codexExplainer.ts), and how their code lines, the    *)
(* rules under the code, are laid out (createSingleExplainer).             *)
(*                                                                         *)
(* Each line of the answer quotes a piece of the code line and explains    *)
(* it.  The quotes are looked up from left to right, each from the end of  *)
(* the one before.  A quote is abstract: the columns it occurs at, its     *)
(* length, and whether an explanation follows.  Columns count from 0, in   *)
(* the line with its tabs expanded.                                        *)
(***************************************************************************)
EXTENDS Integers, Sequences, SequencesExt, FiniteSets, FiniteSetsExt, Functions

CONSTANTS
    Width,      \* columns of the line with tabs expanded
    RangeEnd,   \* length of the line as it is in the file: a tab is one
    Quotes,     \* lines an answer can have
    MaxAnswer   \* bound: lines of the answer

Columns == 0 .. Width - 1

\* A line without "$#$" has no explanation (undefined); after "$#$" there
\* may be nothing.
Sayings == {"text", "blank", "undefined"}

ASSUME WidthAssumption ==
    /\ Width \in Nat /\ RangeEnd \in 0 .. Width
    /\ MaxAnswer \in Nat

ASSUME QuotesAssumption ==
    /\ Quotes \subseteq [at : SUBSET Columns, len : Nat, says : Sayings]
    /\ \A q \in Quotes : \A c \in q.at : c + q.len <= Width

VARIABLES
    read,        \* lines of the answer read so far
    summaryArr,  \* the segments kept
    lastLine     \* where the next search starts

vars == <<read, summaryArr, lastLine>>

Segments == [from : Columns, to : Columns, says : Sayings]

-----------------------------------------------------------------------------
\* lastLine + longText.slice(lastLine).indexOf(text), where indexOf gives -1
\* for a quote that does not occur and 0 for an empty one.
Begin(q) ==
    LET found == {c \in q.at : c >= lastLine}
    IN IF q.len = 0 THEN lastLine
       ELSE IF found = {} THEN lastLine - 1 ELSE Min(found)

End(q) == Begin(q) + q.len - 1
Segment(q) == [from |-> Begin(q), to |-> End(q), says |-> q.says]

\* Defect: a segment may begin right where the one before ends.
KeptTouching(q) == Begin(q) >= lastLine /\ Begin(q) < RangeEnd /\ q.len > 0

\* Defect: a quote that was not found is kept.
KeptUnfound(q) == Begin(q) + 1 >= lastLine /\ q.len > 0

\* The two "continue"s after the lookup.
Kept(q) == Begin(q) > lastLine + 1 /\ Begin(q) < RangeEnd

\* Defect: the next search starts where the segment does.
ReadFromBegin(q) ==
    /\ read < MaxAnswer
    /\ read' = read + 1
    /\ IF Kept(q)
       THEN /\ summaryArr' = Append(summaryArr, Segment(q))
            /\ lastLine' = Begin(q)
       ELSE UNCHANGED <<summaryArr, lastLine>>

\* One turn of the loop over the lines of the answer.
Read(q) ==
    /\ read < MaxAnswer
    /\ read' = read + 1
    /\ IF Kept(q)
       THEN /\ summaryArr' = Append(summaryArr, Segment(q))
            /\ lastLine' = End(q)
       ELSE UNCHANGED <<summaryArr, lastLine>>

Init == read = 0 /\ summaryArr = << >> /\ lastLine = 0

Next == \E q \in Quotes : Read(q)

Spec == Init /\ [][Next]_vars

-----------------------------------------------------------------------------
(* The code lines: one float with a left margin for each segment.          *)

\* Reading the length of an undefined explanation throws, and the segments
\* from there on are not drawn.
Drawn ==
    {i \in DOMAIN summaryArr : \A j \in 1 .. i : summaryArr[j].says # "undefined"}

\* The code line of a one-column segment that says nothing is not displayed
\* and takes no room.
Displayed(i) ==
    ~(summaryArr[i].from = summaryArr[i].to /\ summaryArr[i].says = "blank")

\* Defect: the first margin counted from column 0.
LastIdxFromZero(i) == IF i = 1 THEN 0 ELSE summaryArr[i - 1].to

\* lastIdx before segment i.
LastIdx(i) == IF i = 1 THEN -1 ELSE summaryArr[i - 1].to

MarginLeft(i) == summaryArr[i].from - LastIdx(i) - 1
LineWidth(i) == summaryArr[i].to - summaryArr[i].from + 1

\* Where a float ends up: after the margins and widths displayed before it.
LeftEdge(i) ==
    LET before == {j \in 1 .. i - 1 : Displayed(j)}
    IN MarginLeft(i) + MapThenSumSet(LAMBDA j : MarginLeft(j) + LineWidth(j),
                                     before)

-----------------------------------------------------------------------------
\* The segments lie on the line and lastLine is where the last one ends.
TypeOK ==
    /\ read \in 0 .. MaxAnswer
    /\ summaryArr \in Seq(Segments)
    /\ lastLine = IF summaryArr = << >> THEN 0 ELSE Last(summaryArr).to

\* Segments are in the order of the code and none touches another, whatever
\* the order of the quotes in the answer and however often they occur.
SegmentsApart ==
    \A i, j \in DOMAIN summaryArr : i < j =>
        summaryArr[i].to + 1 < summaryArr[j].from

\* A segment is where its explanation says: the quoted piece occurs there.
SegmentsQuoted ==
    \A i \in DOMAIN summaryArr :
        \E q \in Quotes : /\ summaryArr[i].from \in q.at
                          /\ summaryArr[i].to = summaryArr[i].from + q.len - 1
                          /\ summaryArr[i].says = q.says

\* While every segment before is displayed, a code line stands under the
\* columns of its segment.
DrawnUnderCode ==
    \A i \in Drawn : (\A j \in 1 .. i - 1 : Displayed(j)) =>
        MarginLeft(i) >= 0 /\ LeftEdge(i) = summaryArr[i].from

\* Segments are where their quotes are, in order and apart.
SegmentsInPlace == SegmentsApart /\ SegmentsQuoted
=============================================================================
