------------------------------ MODULE Explainer ------------------------------
(***************************************************************************)
(* The Ivie explainers of one code editor (ivieInitialize.ts).             *)
(*                                                                         *)
(* Every read of the active editor's language constructs one more          *)
(* Explainer on that editor, so several live side by side: they hear the   *)
(* same editor events, one after the other, and share one document.  Each  *)
(* reacts to the suggestion (ghost text) of the inline completions model   *)
(* by attaching a container with explanations, asks a language model       *)
(* about the code, and draws the answers when they arrive, whatever has    *)
(* happened since.                                                         *)
(*                                                                         *)
(* An editor event is a sequence of handler calls that nothing interrupts: *)
(* `dispatch' holds the event and the explainer whose turn it is.          *)
(* Answers arrive between events.  Text is abstract: a suggestion or a     *)
(* buffer is a name, of which only "which lines are comments" is known.    *)
(* Pixel geometry, styles and the mouse-over highlighting are left out.    *)
(***************************************************************************)
EXTENDS Integers, Sequences, SequencesExt, FiniteSets

CONSTANTS
    MaxExplainers,  \* bound: explainers constructed on the editor
    MaxIdx,         \* bound: an explainer's container counter
    MaxLine,        \* bound: line numbers of a file and what it is suggested
    HoverLines,     \* bound: lines the mouse is moved over
    Codes,          \* the suggestions that can be shown
    Buffers,        \* the contents the edited file can have
    IsComment,      \* IsComment[t][i]: is line i of text t a comment or blank?
    None            \* "undefined"

Lines == 1 .. MaxLine
Texts == Codes \cup Buffers

ASSUME BoundsAssumption ==
    /\ MaxExplainers \in Nat \ {0}
    /\ MaxIdx \in Nat
    /\ MaxLine \in Nat
    /\ HoverLines \subseteq Lines

ASSUME TextAssumption ==
    /\ IsComment \in [Texts -> Seq(BOOLEAN) \ {<< >>}]
    /\ \A b \in Buffers, c \in Codes :
            Len(IsComment[b]) + Len(IsComment[c]) <= MaxLine + 1

VARIABLES
    open,           \* the editor has not been disposed
    ghost,          \* the suggestion on display, None when blank or undefined
    cursor,         \* line number of the cursor
    buffer,         \* content of the file
    dispatch,       \* the editor event being delivered
    idOfExplainer,  \* explainers 0 .. idOfExplainer - 1 exist
    ex,             \* fields of each explainer
    doc,            \* attached "explainer-container" elements, document order
    singles,        \* requests for the explanation of a one-line suggestion
    fetches         \* requests for the explanation of one line of several

editorVars == <<open, ghost, cursor, buffer>>
requestVars == <<singles, fetches>>
vars == <<editorVars, dispatch, idOfExplainer, ex, doc, requestVars>>

-----------------------------------------------------------------------------
(* What the fields hold. *)

Explainers == 0 .. MaxExplainers - 1
Outcomes == {"nothing", "empty", "segments"}
Subjects == [text : Texts, at : Nat]
Entries == [subj : Subjects, line : Nat, out : Outcomes \cup {"comment"}]
Maps == [Lines -> Entries \cup {None}]
HoverBoxes == [line : Nat, content : Entries \cup {None}]
Containers == [idx : Nat, subj : Subjects, kind : {"single", "multi"}]
Answers == [by : Explainers, subj : Subjects]
Elements == [owner : Explainers, idx : Nat, subj : Subjects,
             drawn : SUBSET Answers]
Ranges == Nat \X Nat

ExplainerRecords ==
    [listening : BOOLEAN, allMode : BOOLEAN,
     box : Containers \cup {None}, box0 : Subjects \cup {None},
     box1 : HoverBoxes \cup {None}, box2 : HoverBoxes \cup {None},
     boxRange : Ranges \cup {None}, lastCode : Codes \cup {None},
     explainerIdx : Nat, lastHovered : Int, lineMap : Maps, allMap : Maps]

ASSUME NoneAssumption ==
    None \notin Codes \cup Subjects \cup Entries \cup HoverBoxes
                    \cup Containers \cup Ranges

-----------------------------------------------------------------------------
(* What is explained: a text and the line it starts at. *)

LineCount(t) == Len(IsComment[t])
SubjectLines(s) == s.at .. s.at + LineCount(s.text) - 1
CommentLines(s) == {l \in SubjectLines(s) : IsComment[s.text][l - s.at + 1]}
Entry(s, l, out) == [subj |-> s, line |-> l, out |-> out]

\* _multiSingleExplain / _allExplain as the loops leave them: comment lines
\* are filled in at once, the others when their answers arrive.
NewMap(s) ==
    [l \in Lines |-> IF l \in CommentLines(s) THEN Entry(s, l, "comment")
                                              ELSE None]

EmptyMap == [l \in Lines |-> None]

\* The OpenaiFetchAPI calls of those loops.
Requests(e, mode, idx, s) ==
    {[owner |-> e, mode |-> mode, idx |-> idx, subj |-> s, line |-> l]
        : l \in SubjectLines(s) \ CommentLines(s)}

\* The key an answer is kept under: each turn of the loops has its own.
LineKey(r) == r.line

-----------------------------------------------------------------------------
(* Parts of an explainer that its handlers call.  x is the explainer's     *)
(* record, d the document.                                                 *)

\* box, borderDiv and contentDiv are created and removed together: one field.
\* A hover box (box1, box2) has the line it was placed at, 0 for none, and
\* the entry it shows, None while it shows its placeholder.
Placeholder == [line |-> 0, content |-> None]

NewExplainer ==
    [listening |-> TRUE, box |-> None, box0 |-> None, box1 |-> None,
     box2 |-> None, boxRange |-> None, allMode |-> TRUE, lastCode |-> None,
     explainerIdx |-> 0, lastHovered |-> -1, lineMap |-> EmptyMap,
     allMap |-> EmptyMap]

\* Defect: the element is forgotten but not removed.
DetachNothing(d, e, b) == d

Detach(d, e, b) ==
    IF b = None THEN d
    ELSE RemoveFirstMatch(d, LAMBDA c : c.owner = e /\ c.idx = b.idx)

\* Defects: the counter stays; the hover box stays.
DisposeUncounted(x) == [x EXCEPT !.box = None, !.box2 = None]
DisposeHalf(x) == [x EXCEPT !.box = None, !.explainerIdx = @ + 1]

Dispose(x) ==
    [x EXCEPT !.box = None, !.box2 = None, !.explainerIdx = @ + 1]

\* Defect: the range of the suggestion's box goes with the overview.
DisposeAllAndRange(x) ==
    [x EXCEPT !.box0 = None, !.box1 = None, !.boxRange = None]

DisposeAllExplainer(x) == [x EXCEPT !.box0 = None, !.box1 = None]

\* Removing from a live collection while counting up skips every other one.
RemoveLive(d) == [k \in 1 .. Len(d) \div 2 |-> d[2 * k]]

DisposeExplanations(x) == [Dispose(x) EXCEPT !.boxRange = None]
\* Defect: only the explainer's own element is removed.
DetachOwn(d, e, x) == Detach(d, e, x.box)

DetachExplanations(d, e, x) == RemoveLive(Detach(d, e, x.box))

Outside(x, l) ==
    x.boxRange # None /\ (l < x.boxRange[1] \/ l > x.boxRange[2])

\* Is an element with the id "placeholderMulti" in the document?
PlaceholderShown ==
    \E f \in DOMAIN ex :
        \/ ex[f].box1 # None /\ ex[f].box1.content = None
        \/ ex[f].box2 # None /\ ex[f].box2.content = None

-----------------------------------------------------------------------------
(* Events of the editor. *)

Events == {"none", "ghost", "keydown", "keyup", "mousedown", "mousemove",
           "dispose"}
Places == {"text", "beside", "panel"}
Dispatches == [ev : Events, next : Nat, line : Nat, where : Places]
Idle == [ev |-> "none", next |-> 0, line |-> 0, where |-> "text"]
Quiet == dispatch = Idle

\* The bound on the counters: each handler of an event adds at most one.
Room == \A e \in DOMAIN ex : ex[e].explainerIdx < MaxIdx

Raise(ev, line, where) ==
    /\ open /\ Quiet /\ Room
    /\ dispatch' = IF idOfExplainer = 0 THEN Idle
                   ELSE [ev |-> ev, next |-> 0, line |-> line, where |-> where]

\* The turn of explainer e to handle event ev ...
Turn(ev, e) ==
    /\ dispatch.ev = ev
    /\ e = dispatch.next
    /\ e \in DOMAIN ex

\* Defect: one turn too many.
PassBeyond ==
    /\ dispatch' = IF dispatch.next < idOfExplainer
                   THEN [dispatch EXCEPT !.next = @ + 1]
                   ELSE Idle
    /\ UNCHANGED <<editorVars, idOfExplainer>>

\* ... and the end of that turn.
Pass ==
    /\ dispatch' = IF dispatch.next + 1 < idOfExplainer
                   THEN [dispatch EXCEPT !.next = @ + 1]
                   ELSE Idle
    /\ UNCHANGED <<editorVars, idOfExplainer>>

\* activeTextEditorLanguageId is read: `addExplainer' constructs one more.
AddExplainer ==
    /\ open /\ Quiet
    /\ idOfExplainer < MaxExplainers
    /\ idOfExplainer' = idOfExplainer + 1
    /\ ex' = [e \in 0 .. idOfExplainer |->
                IF e = idOfExplainer THEN NewExplainer ELSE ex[e]]
    /\ UNCHANGED <<editorVars, dispatch, doc, requestVars>>

\* The inline completions model fires onDidChange, with suggestion g.
SuggestionChanges(g) ==
    /\ ghost' = g
    /\ Raise("ghost", 0, "text")
    /\ UNCHANGED <<open, cursor, buffer, idOfExplainer, ex, doc, requestVars>>

\* The user or a program edits the file or moves the cursor.  A cursor that
\* leaves the line ends the suggestion, and the model fires.
Edit(b, l) ==
    /\ <<b, l>> # <<buffer, cursor>>
    /\ buffer' = b /\ cursor' = l
    /\ IF l # cursor /\ ghost # None
       THEN ghost' = None /\ Raise("ghost", 0, "text")
       ELSE open /\ Quiet /\ UNCHANGED <<ghost, dispatch>>
    /\ UNCHANGED <<open, idOfExplainer, ex, doc, requestVars>>

\* updateModelController replaces the model: the subscriptions made by the
\* constructors stay with the old one.
SwapModel ==
    /\ open /\ Quiet
    /\ ghost' = None
    /\ ex' = [e \in DOMAIN ex |-> [ex[e] EXCEPT !.listening = FALSE]]
    /\ UNCHANGED <<open, cursor, buffer, dispatch, idOfExplainer, doc,
                   requestVars>>

KeyDownEvent ==
    /\ Raise("keydown", 0, "text")
    /\ UNCHANGED <<editorVars, idOfExplainer, ex, doc, requestVars>>

KeyUpEvent ==
    /\ Raise("keyup", 0, "text")
    /\ UNCHANGED <<editorVars, idOfExplainer, ex, doc, requestVars>>

MouseDownEvent ==
    /\ Raise("mousedown", 0, "text")
    /\ UNCHANGED <<editorVars, idOfExplainer, ex, doc, requestVars>>

\* The mouse is over line l: on its text, beside it, or on a hover box.
MouseMoveEvent(l, where) ==
    /\ Raise("mousemove", l, where)
    /\ UNCHANGED <<editorVars, idOfExplainer, ex, doc, requestVars>>

EditorDisposed ==
    /\ Raise("dispose", 0, "text")
    /\ open' = FALSE
    /\ UNCHANGED <<ghost, cursor, buffer, idOfExplainer, ex, doc, requestVars>>

-----------------------------------------------------------------------------
(* ghostTextChange of explainer e. *)

NotListening(e) ==
    /\ Turn("ghost", e) /\ ~ex[e].listening
    /\ UNCHANGED <<ex, doc, requestVars>>
    /\ Pass

GhostBlank(e) ==
    /\ Turn("ghost", e) /\ ex[e].listening
    /\ ghost = None
    /\ ex' = [ex EXCEPT ![e] = DisposeExplanations(@)]
    /\ doc' = DetachExplanations(doc, e, ex[e])
    /\ UNCHANGED requestVars
    /\ Pass

GhostSame(e) ==
    /\ Turn("ghost", e) /\ ex[e].listening
    /\ ghost # None
    /\ ghost = ex[e].lastCode /\ ex[e].box # None
    /\ UNCHANGED <<ex, doc, requestVars>>
    /\ Pass

\* The suggestion is new to e: leave the all-lines mode and remember it.
NewGhost(e) ==
    /\ Turn("ghost", e) /\ ex[e].listening
    /\ ghost # None
    /\ ~(ghost = ex[e].lastCode /\ ex[e].box # None)

\* Defect: the overview is left in place.
RenewedBesideOverview(x) == [x EXCEPT !.allMode = FALSE, !.lastCode = ghost]

Renewed(x) ==
    [DisposeAllExplainer(x) EXCEPT !.allMode = FALSE, !.lastCode = ghost]

SingleLine == LineCount(ghost) = 1
Here == [text |-> ghost, at |-> cursor]

\* A one-line comment is not explained.
GhostComment(e) ==
    /\ NewGhost(e)
    /\ SingleLine /\ IsComment[ghost][1]
    /\ ex' = [ex EXCEPT ![e] = Renewed(@)]
    /\ UNCHANGED <<doc, requestVars>>
    /\ Pass

\* createExplainer: the id of the new container is read before
\* disposeExplanations counts up; ghostTextChange then attaches it in front.
Created(x, kind) ==
    [DisposeExplanations(Renewed(x)) EXCEPT
        !.box = [idx |-> x.explainerIdx, subj |-> Here, kind |-> kind],
        !.boxRange = <<cursor, cursor + LineCount(ghost) - 1>>]

Attached(d, e) ==
    <<[owner |-> e, idx |-> ex[e].explainerIdx, subj |-> Here, drawn |-> {}]>>
        \o DetachExplanations(d, e, ex[e])

GhostSingle(e) ==
    /\ NewGhost(e)
    /\ SingleLine /\ ~IsComment[ghost][1]
    /\ ex' = [ex EXCEPT ![e] = Created(@, "single")]
    /\ doc' = Attached(doc, e)
    /\ singles' = singles \cup
            {[owner |-> e, idx |-> ex[e].explainerIdx, subj |-> Here]}
    /\ UNCHANGED fetches
    /\ Pass

GhostMulti(e) ==
    /\ NewGhost(e)
    /\ ~SingleLine
    /\ ex' = [ex EXCEPT ![e] = [Created(@, "multi") EXCEPT
                                    !.box2 = Placeholder,
                                    !.lineMap = NewMap(Here)]]
    /\ doc' = Attached(doc, e)
    /\ fetches' = fetches \cup Requests(e, "multi", ex[e].explainerIdx, Here)
    /\ UNCHANGED singles
    /\ Pass

-----------------------------------------------------------------------------
(* Keys, mouse and the button. *)

\* onKeyUp: whatever the key, the explanations go.
KeyUp(e) ==
    /\ Turn("keyup", e)
    /\ ex' = [ex EXCEPT ![e] = DisposeExplanations(@)]
    /\ doc' = DetachExplanations(doc, e, ex[e])
    /\ UNCHANGED requestVars
    /\ Pass

\* onKeyDown and onMouseDown: the overview goes, and the explanations too
\* when the cursor has left their lines (a key: unless in all-lines mode).
LeaveOverview(ev, e, heedCursor) ==
    /\ Turn(ev, e)
    /\ LET x == DisposeAllExplainer(ex[e])
           leave == heedCursor /\ Outside(x, cursor)
       IN /\ ex' = [ex EXCEPT ![e] = IF leave THEN DisposeExplanations(x)
                                     ELSE x]
          /\ doc' = IF leave THEN DetachExplanations(doc, e, x) ELSE doc
    /\ UNCHANGED requestVars
    /\ Pass

KeyDown(e) == LeaveOverview("keydown", e, ~ex[e].allMode)
MouseDown(e) == LeaveOverview("mousedown", e, TRUE)

\* onMouseMove gives up when the hover box of the mode does not exist; the
\* all-lines mode takes the whole file for a missing range.
HoverReady(x) ==
    IF x.allMode THEN x.box1 # None ELSE x.box2 # None /\ x.boxRange # None

Ranged(x) ==
    IF x.allMode /\ x.boxRange = None
    THEN [x EXCEPT !.boxRange = <<1, LineCount(buffer)>>] ELSE x

\* The hover box is made anew (createSingleInMultiExplainer) and filled
\* (createSingleExplainer) if the map has an entry for the line.
Hovered(x, l) ==
    LET map == IF x.allMode THEN x.allMap ELSE x.lineMap
        box == [line |-> l,
                content |-> map[l]]
    IN IF x.allMode THEN [x EXCEPT !.lastHovered = l, !.box1 = box]
                    ELSE [x EXCEPT !.lastHovered = l, !.box2 = box]

MouseMove(e) ==
    /\ Turn("mousemove", e)
    /\ LET l == dispatch.line
           x == Ranged(ex[e])
       IN ex' = [ex EXCEPT ![e] =
            IF ~HoverReady(@) \/ dispatch.where = "panel" THEN @
            ELSE IF dispatch.where = "beside" \/ Outside(x, l) THEN x
            ELSE IF x.lastHovered # l \/ PlaceholderShown THEN Hovered(x, l)
            ELSE x]
    /\ UNCHANGED <<doc, requestVars>>
    /\ Pass

\* generateAllExplanations: the button in the document is the one of the
\* explainer constructed last.
GenerateAll(e) ==
    /\ open /\ Quiet
    /\ e + 1 = idOfExplainer
    /\ LET s == [text |-> buffer, at |-> 1]
       IN /\ ex' = [ex EXCEPT ![e] =
                [@ EXCEPT !.allMode = TRUE, !.allMap = NewMap(s),
                          !.boxRange = <<1, LineCount(buffer)>>,
                          !.box0 = s, !.box1 = Placeholder]]
          /\ fetches' = fetches \cup Requests(e, "all", ex[e].explainerIdx, s)
    /\ UNCHANGED <<editorVars, dispatch, idOfExplainer, doc, singles>>

\* onDidDispose of the editor.
DisposeEditor(e) ==
    /\ Turn("dispose", e)
    /\ ex' = [ex EXCEPT ![e] = Dispose(@)]
    /\ doc' = Detach(doc, e, ex[e].box)
    /\ UNCHANGED requestVars
    /\ Pass

-----------------------------------------------------------------------------
(* Answers.  An answer is "nothing" (the request failed), "empty" (no part  *)
(* of it could be anchored) or "segments".                                  *)

\* The first element of the document with the id of the container.
Target(idx) ==
    IF \E k \in DOMAIN doc : doc[k].idx = idx
    THEN CHOOSE k \in DOMAIN doc :
            doc[k].idx = idx /\ \A j \in 1 .. k - 1 : doc[j].idx # idx
    ELSE 0

SingleAnswer(r, out) ==
    /\ Quiet
    /\ r \in singles
    /\ singles' = singles \ {r}
    /\ LET k == Target(r.idx)
           draw == out = "segments" /\ ex[r.owner].box # None /\ k # 0
           answer == [by |-> r.owner, subj |-> r.subj]
       IN doc' = IF draw THEN [doc EXCEPT ![k].drawn = @ \cup {answer}]
                 ELSE doc
    /\ UNCHANGED <<editorVars, dispatch, idOfExplainer, ex, fetches>>

\* The answer for a line goes to the map the explainer has now.
LineAnswer(r, out) ==
    /\ Quiet
    /\ r \in fetches
    /\ fetches' = fetches \ {r}
    /\ LET v == Entry(r.subj, r.line, out)
       IN ex' = IF out = "nothing" THEN ex
                ELSE IF r.mode = "multi"
                THEN [ex EXCEPT ![r.owner].lineMap[LineKey(r)] = v]
                ELSE [ex EXCEPT ![r.owner].allMap[LineKey(r)] = v]
    /\ UNCHANGED <<editorVars, dispatch, idOfExplainer, doc, singles>>

-----------------------------------------------------------------------------
Init ==
    /\ open = TRUE
    /\ ghost = None
    /\ buffer \in Buffers
    /\ cursor = 1
    /\ dispatch = Idle
    /\ idOfExplainer = 0
    /\ ex = << >>
    /\ doc = << >>
    /\ singles = {}
    /\ fetches = {}

EditorEvent ==
    \/ AddExplainer
    \/ \E g \in Codes \cup {None} : SuggestionChanges(g)
    \/ \E b \in Buffers : \E l \in 1 .. LineCount(b) : Edit(b, l)
    \/ SwapModel
    \/ KeyDownEvent
    \/ KeyUpEvent
    \/ MouseDownEvent
    \/ \E l \in HoverLines, w \in Places :
            MouseMoveEvent(l, w)
    \/ EditorDisposed

Handler(e) ==
    \/ NotListening(e) \/ GhostBlank(e) \/ GhostSame(e)
    \/ GhostComment(e) \/ GhostSingle(e) \/ GhostMulti(e)
    \/ KeyUp(e) \/ KeyDown(e) \/ MouseDown(e) \/ MouseMove(e)
    \/ GenerateAll(e) \/ DisposeEditor(e)

Answer ==
    \/ \E r \in singles, out \in Outcomes : SingleAnswer(r, out)
    \/ \E r \in fetches, out \in Outcomes : LineAnswer(r, out)

Next ==
    \/ EditorEvent
    \/ \E e \in DOMAIN ex : Handler(e)
    \/ Answer

Spec == Init /\ [][Next]_vars

-----------------------------------------------------------------------------
(* The type invariant. *)

\* The state has its shape: the dispatcher names an explainer that exists,
\* and requests and elements belong to explainers that exist.
TypeOK ==
    /\ open \in BOOLEAN
    /\ ghost \in Codes \cup {None}
    /\ buffer \in Buffers
    /\ cursor \in Nat
    /\ idOfExplainer \in 0 .. MaxExplainers
    /\ ex \in [0 .. idOfExplainer - 1 -> ExplainerRecords]
    /\ dispatch \in Dispatches
    /\ Quiet \/ dispatch.next \in DOMAIN ex
    /\ dispatch.ev = "mousemove" => dispatch.line \in Lines
    /\ doc \in Seq(Elements)
    /\ \A k \in DOMAIN doc : doc[k].owner \in DOMAIN ex
    /\ singles \subseteq [owner : DOMAIN ex, idx : Nat, subj : Subjects]
    /\ fetches \subseteq [owner : DOMAIN ex, mode : {"multi", "all"},
                          idx : Nat, subj : Subjects, line : Nat]

-----------------------------------------------------------------------------
(* Safety. *)

\* The document never shows two suggestion explanations at once, whichever
\* explainers made them, although the loop of disposeExplanations removes
\* only every other element of the live collection it walks.
AtMostOneContainer == Len(doc) <= 1

\* An explanation on display is always one its explainer still holds, as
\* it made it: no element is left that no handler could remove any more.
NoOrphanContainer ==
    \A k \in DOMAIN doc :
        LET b == ex[doc[k].owner].box
        IN b # None /\ b.idx = doc[k].idx /\ b.subj = doc[k].subj

\* A held explanation carries the id counted just before the present one,
\* and no request was made for an id that is still to come: ids are not
\* given twice by one explainer.
IdsNeverReused ==
    /\ \A e \in DOMAIN ex :
            ex[e].box # None => ex[e].box.idx + 1 = ex[e].explainerIdx
    /\ \A r \in singles : r.idx < ex[r.owner].explainerIdx

\* An explainer draws in its own containers only what it asked about the
\* suggestion they were made for, however late the answer comes and whatever
\* other explainers have put in their place and taken away since.
OwnAnswersFresh ==
    \A k \in DOMAIN doc : \A a \in doc[k].drawn :
        a.by = doc[k].owner => a.subj = doc[k].subj

\* The overview of the file and its hover box exist in all-lines mode only,
\* so the two modes never draw in each other's boxes.
OverviewOnlyInAllMode ==
    \A e \in DOMAIN ex :
        ex[e].box0 # None \/ ex[e].box1 # None => ex[e].allMode

\* The per-line hover box lives exactly as long as the explanation of a
\* suggestion of several lines.
HoverBoxWithMulti ==
    \A e \in DOMAIN ex :
        ex[e].box2 # None <=>
            ex[e].box # None /\ ex[e].box.kind = "multi"

\* A held explanation can be left: the range that onKeyDown and onMouseDown
\* compare the cursor with is defined, whatever overview came in between.
ContainerHasRange ==
    \A e \in DOMAIN ex : ex[e].box # None => ex[e].boxRange # None

\* What the maps keep for a line explains that line, whatever the order in
\* which the answers of the loop come, and a hover box shows the line it
\* stands at.
LinesKeyedByLine ==
    \A e \in DOMAIN ex :
        /\ \A l \in Lines : ex[e].lineMap[l] # None => ex[e].lineMap[l].line = l
        /\ \A l \in Lines : ex[e].allMap[l] # None => ex[e].allMap[l].line = l
        /\ \A b \in {ex[e].box1, ex[e].box2} \ {None} :
                b.content # None => b.content.line = b.line

\* The parts of the display agree, in whatever order events, re-reads and
\* answers come: the two modes with their boxes, a held explanation with its
\* hover box and the range that decides its end, and the hover box and the
\* maps it is filled from with the lines they are about.
OverlaysAgree ==
    /\ OverviewOnlyInAllMode
    /\ HoverBoxWithMulti
    /\ ContainerHasRange
    /\ LinesKeyedByLine

\* What is on display is one explanation, and one that can be removed.
OneContainerHeld == AtMostOneContainer /\ NoOrphanContainer

-----------------------------------------------------------------------------
(* What the code does not keep.                                            *)

\* "Anchored Explanations of Just-Generated Code" (README.md:1): what is drawn
\* in a container is about the suggestion the container was made for.
SingleAnswersFresh ==
    \A k \in DOMAIN doc : \A a \in doc[k].drawn : a.subj = doc[k].subj
=============================================================================
