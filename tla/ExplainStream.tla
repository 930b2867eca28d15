---------------------------- MODULE ExplainStream ----------------------------
(***************************************************************************)
(* The multi-line explanation of a piece of code, read from a streamed     *)
(* answer (OpenaiStreamAPI and buildBendWithStream of codexExplainer.ts).  *)
(*                                                                         *)
(* The answer is a list of snippets, "$*" explanation "$$" code, that      *)
(* comes in chunks; a mark may be cut in two by the chunks.  A line of the *)
(* answer is abstract: the columns of its letters, on which a stateful     *)
(* regular expression depends, and the lines of the explained code that    *)
(* contain it.  A line carries its line break.  A lone "$" or "*" only     *)
(* occurs as a part of a mark, or "*" as the first character of a snippet  *)
(* of code; other stray ones belong to their lines.                        *)
(***************************************************************************)
EXTENDS Integers, Sequences, SequencesExt, FiniteSets, FiniteSetsExt

CONSTANTS
    CodeLines,   \* number of lines of the explained code
    AnswerLines, \* lines the answer can consist of
    MaxSnippet,  \* bound: marks and lines of one snippet
    MaxBends     \* bound: bends drawn

Marks == {"$", "*", "$*", "$$"}
Chunks == [is : Marks \cup {"line", "blank"}, letters : SUBSET Nat,
           where : SUBSET (1 .. CodeLines)]

Plain(is) == [is |-> is, letters |-> {}, where |-> {}]

ASSUME CodeAssumption ==
    /\ CodeLines \in Nat /\ MaxSnippet \in Nat /\ MaxBends \in Nat
    /\ AnswerLines \subseteq {c \in Chunks : c.is = "line"}

LineHeight == 18

VARIABLES
    phase,        \* of the stream: "open", "stop" (complete) or "ended"
    placeholder,  \* the element "Retrieving explanations..." is attached
    eachSnippet,  \* the snippet being received, as marks and lines
    lastChar,     \* the chunk before
    lastExplain,  \* <<first line, last line>> of the last bend
    bends         \* the elements drawn

vars == <<phase, placeholder, eachSnippet, lastChar, lastExplain, bends>>

Bends == [from : Nat, to : Nat, marginTop : Int, height : Int]
None == <<0, 0>>   \* no bend: buildBendWithStream returns undefined

-----------------------------------------------------------------------------
(* Marks and lines. *)

\* eachSnippet += value: two halves become one mark.
Grow(s, c) ==
    IF c.is = "$" /\ s # << >> /\ Last(s).is = "$"
    THEN Append(Front(s), Plain("$$")) ELSE Append(s, c)

\* eachSnippet.slice(0, -1): half a mark goes, or a line's break (not seen).
CutLast(s) ==
    IF s = << >> \/ Last(s).is \notin {"$", "$$"} THEN s
    ELSE IF Last(s).is = "$" THEN Front(s)
    ELSE Append(Front(s), Plain("$"))

Separators(s) == {i \in DOMAIN s : s[i].is = "$$"}

\* The lines behind the first "$$"; a later "$$" is read as a line break.
CodePart(s) ==
    LET first == Min(Separators(s))
        line(c) == IF c.is = "$$" THEN Plain("blank") ELSE c
    IN [i \in 1 .. Len(s) - first |-> line(s[first + i])]

HasCode(s) ==
    /\ Separators(s) # {}
    /\ \E i \in DOMAIN CodePart(s) : CodePart(s)[i].is # "blank"

\* codePart.split("\n") ends in an empty line when the text ends in a break.
LineNumber(code, cut) ==
    Len(code) + IF cut \/ Last(code).is = "$" THEN 0 ELSE 1

-----------------------------------------------------------------------------
(* Where a snippet belongs. *)

\* regExp.test: lastIndex after the search for a letter in a line from column
\* `from' on, which is 0 when there is none.
Test(line, from) ==
    LET hits == {p \in line.letters : p >= from}
    IN IF hits = {} THEN 0 ELSE Min(hits) + 1

\* Defect: one expression for all snippets, with the lastIndex of another.
LastIndexOfAnother(code) ==
    LET lastIndex[i \in 0 .. Len(code)] ==
            IF i = 0 THEN 1 ELSE Test(code[i], lastIndex[i - 1])
    IN lastIndex

\* lastIndex after each line: /[a-zA-Z]/g starts where it ended before.
LastIndex(code) ==
    LET lastIndex[i \in 0 .. Len(code)] ==
            IF i = 0 THEN 0 ELSE Test(code[i], lastIndex[i - 1])
    IN lastIndex

\* The lines that are looked up.
Tested(code) == {i \in DOMAIN code : LastIndex(code)[i] > 0}

\* matchText from line lastLine on: the first line that contains the text.
Matches(c, lastLine) == {l \in c.where : l > lastLine}

Places(code, lastLine) ==
    {Min(Matches(code[i], lastLine)) :
        i \in {j \in Tested(code) : Matches(code[j], lastLine) # {}}}

\* Defect: a bend that ends with its first place.
EndAtFirst(code, lastLine) == Min({lastLine + 1} \cup Places(code, lastLine))

EndLine(code, lastLine) == Max({lastLine + 1} \cup Places(code, lastLine))

\* A first line with letters that is not found sends the snippet right below
\* the last bend, as many lines as it has.
FirstLineLost(code, lastLine) ==
    1 \in Tested(code) /\ Matches(code[1], lastLine) = {}

Interval(code, cut, lastLine) ==
    IF FirstLineLost(code, lastLine)
    THEN <<lastLine + 1, lastLine + LineNumber(code, cut)>>
    ELSE IF 1 \in Tested(code)
    THEN <<Min(Places(code, lastLine)), EndLine(code, lastLine)>>
    ELSE <<lastLine + 1, EndLine(code, lastLine)>>

\* buildBendWithStream on snippet s, up to drawing.
Build(s, cut) ==
    IF ~HasCode(s) THEN None
    ELSE LET b == Interval(CodePart(s), cut, lastExplain[2])
         IN IF b[1] <= lastExplain[2] THEN None ELSE b

\* Defect: margins counted from the top.
BendFromTop(b) ==
    [from |-> b[1], to |-> b[2],
     marginTop |-> (b[1] - 1) * LineHeight + 2,
     height |-> (b[2] - b[1] + 1) * LineHeight - 2]

Bend(b) ==
    [from |-> b[1], to |-> b[2],
     marginTop |-> (b[1] - lastExplain[2] - 1) * LineHeight + 2,
     height |-> (b[2] - b[1] + 1) * LineHeight - 2]

Drawn(b) == IF b = None THEN bends ELSE Append(bends, Bend(b))

-----------------------------------------------------------------------------
(* The chunks of the stream. *)

Starts(c) ==
    \/ c.is = "*" /\ lastChar.is = "$"
    \/ c.is = "$*"

\* What can follow, of all that may be sent (see above).
Follows(c) ==
    /\ c.is = "*" => lastChar.is = "$"
    /\ eachSnippet # << >> /\ Last(eachSnippet).is = "$"
            => c.is \in {"$", "*"}

\* The break of the last line is the character that slice(0, -1) takes.
BreakCut ==
    eachSnippet # << >> /\ Last(eachSnippet).is \in {"line", "blank"}

\* Defect: the new bend is not remembered as the last one.
NextSnippetStale(c) ==
    /\ phase = "open" /\ Follows(c) /\ Starts(c)
    /\ Len(bends) < MaxBends
    /\ bends' = Drawn(Build(CutLast(eachSnippet), BreakCut))
    /\ eachSnippet' = << >>
    /\ lastChar' = c
    /\ UNCHANGED <<phase, placeholder, lastExplain>>

\* A new explanation begins: the snippet before it is complete.
NextSnippet(c) ==
    /\ phase = "open" /\ Follows(c) /\ Starts(c)
    /\ Len(bends) < MaxBends
    /\ LET b == Build(CutLast(eachSnippet), BreakCut)
       IN /\ bends' = Drawn(b)
          /\ lastExplain' = IF b = None THEN lastExplain ELSE b
    /\ eachSnippet' = << >>
    /\ lastChar' = c
    /\ UNCHANGED <<phase, placeholder>>

Continue(c) ==
    /\ phase = "open" /\ Follows(c) /\ ~Starts(c)
    /\ Len(eachSnippet) < MaxSnippet
    /\ eachSnippet' = Grow(eachSnippet, c)
    /\ lastChar' = c
    /\ UNCHANGED <<phase, placeholder, lastExplain, bends>>

\* finish_reason "stop": the last snippet, whose last line may have a break.
Stop ==
    /\ phase = "open"
    /\ eachSnippet # << >> => Last(eachSnippet).is # "$"
    /\ \E cut \in BOOLEAN : bends' = Drawn(Build(eachSnippet, cut))
    /\ placeholder' = FALSE
    /\ phase' = "stop"
    /\ UNCHANGED <<eachSnippet, lastChar, lastExplain>>

\* Any other end: finish_reason "length", or the connection fails.
EndOfStream ==
    /\ phase = "open"
    /\ phase' = "ended"
    /\ UNCHANGED <<placeholder, eachSnippet, lastChar, lastExplain, bends>>

Init ==
    /\ phase = "open"
    /\ placeholder = TRUE
    /\ eachSnippet = << >>
    /\ lastChar = Plain("blank")
    /\ lastExplain = <<0, 0>>
    /\ bends = << >>

Values == AnswerLines \cup {Plain(m) : m \in Marks \cup {"blank"}}

Next ==
    \/ \E c \in Values : NextSnippet(c) \/ Continue(c)
    \/ Stop
    \/ EndOfStream

Spec == Init /\ [][Next]_vars

-----------------------------------------------------------------------------
(* Properties. *)

\* The state has its shape, and until the stream stops lastExplain is the
\* last bend drawn.
TypeOK ==
    /\ phase \in {"open", "stop", "ended"}
    /\ placeholder \in BOOLEAN
    /\ eachSnippet \in Seq(Values)
    /\ lastChar \in Values
    /\ lastExplain \in Nat \X Nat
    /\ bends \in Seq(Bends)
    /\ phase # "stop" =>
        lastExplain = IF bends = << >> THEN None
                      ELSE <<Last(bends).from, Last(bends).to>>

\* The bends promise: one below the other, none changed, until the end.
AB == INSTANCE AnchoredBends WITH
        bends <- [i \in DOMAIN bends |-> <<bends[i].from, bends[i].to>>],
        waiting <- placeholder

ImplementsBends == AB!Spec

\* Where a bend ends up: the elements are stacked, each under its margin.
Top(k) ==
    MapThenSumSet(LAMBDA j : bends[j].marginTop, 1 .. k)
        + MapThenSumSet(LAMBDA j : bends[j].height, 1 .. k - 1)

\* Each bend starts beside its first line and ends above the line behind its
\* last one, whatever was drawn or rejected before.
BendsBesideLines ==
    \A k \in DOMAIN bends :
        /\ Top(k) = (bends[k].from - 1) * LineHeight + 2
        /\ Top(k) + bends[k].height = bends[k].to * LineHeight

\* The lines of a snippet that say where it belongs: they have letters and occur
\* in the code below the last bend.
Located(code, lastLine) ==
    {i \in DOMAIN code :
        code[i].letters # {} /\ Matches(code[i], lastLine) # {}}

Place(line, lastLine) == Min(Matches(line, lastLine))

\* A bend covers a line of its snippet, where that is found.
Covers(bend, line, lastLine) ==
    Place(line, lastLine) \in bend.from .. bend.to

\* A bend stands where its snippet was found, whenever it is drawn: the search
\* that goes on where the line before left off passes no two lines in a row,
\* and not the first; and the bend starts and ends at a place found, or right
\* below the one before it.  (A snippet whose first line has letters and is not
\* found has no place.)
StandsWhereFound(code, lastLine, bend) ==
    LET located == Located(code, lastLine)
        ends == {lastLine + 1} \cup {Place(code[i], lastLine) : i \in located}
    IN /\ \A i \in located :
            \/ Covers(bend, code[i], lastLine)
            \/ /\ i > 1 /\ code[i - 1].letters # {}
               /\ i - 1 \in located => Covers(bend, code[i - 1], lastLine)
       /\ {bend.from, bend.to} \subseteq ends

BendsCoverSnippets ==
    [][bends' # bends =>
          LET s == IF phase' = "stop" THEN eachSnippet ELSE CutLast(eachSnippet)
              code == CodePart(s)
              last == lastExplain[2]
          IN \/ code[1].letters # {} /\ Matches(code[1], last) = {}
             \/ StandsWhereFound(code, last, Last(bends'))]_vars
=============================================================================
