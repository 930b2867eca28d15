--------------------------- MODULE ExplainerProofs ---------------------------
(***************************************************************************)
(* Proofs about Explainer for every number of explainers, every set of     *)
(* suggestions and files, and every bound.                                 *)
(***************************************************************************)
EXTENDS Explainer, SequenceTheorems, TLAPS

-----------------------------------------------------------------------------
(* The document.  While at most one container is attached, a disposal of   *)
(* explanations empties it.                                                *)

\* The loop over the live list of children, which removes every second one,
\* leaves none of at most one.
LEMMA RemoveLiveEmpties ==
    ASSUME NEW S, NEW d \in Seq(S), Len(d) <= 1
    PROVE  RemoveLive(d) = << >>
<1>1. Len(d) \in Nat /\ Len(d) \div 2 = 0
  BY LenProperties
<1>2. 1 .. Len(d) \div 2 = {}
  BY <1>1
<1>. QED  BY <1>2 DEF RemoveLive

\* With at most one container, an explainer removes the one it holds or none.
LEMMA DetachOne ==
    ASSUME NEW S, NEW d \in Seq(S), Len(d) <= 1, NEW e, NEW b
    PROVE  /\ Detach(d, e, b) \in {d, << >>}
           /\ b # None /\ Len(d) = 1 /\ d[1].owner = e /\ d[1].idx = b.idx
                => Detach(d, e, b) = << >>
<1>. DEFINE Hit(c) == c.owner = e /\ c.idx = b.idx
            I == {i \in 1 .. Len(d) : Hit(d[i])}
<1>1. Len(d) \in {0, 1}
  <2>1. Len(d) \in Nat
    OBVIOUS
  <2>2. \A n \in Nat : n <= 1 => n \in {0, 1}
    OBVIOUS
  <2>. QED  BY <2>1, <2>2
<1>2. CASE b = None
  BY <1>2 DEF Detach
<1>3. CASE b # None /\ ~\E i \in 1 .. Len(d) : Hit(d[i])
  BY <1>3 DEF Detach, RemoveFirstMatch
<1>4. CASE b # None /\ \E i \in 1 .. Len(d) : Hit(d[i])
  <2>1. Len(d) = 1 /\ I = {1}
    BY <1>1, <1>4
  <2>2. Min(I) = 1
    BY <2>1 DEF Min
  <2>3. SelectInSeq(d, Hit) = 1
    BY <2>1, <2>2 DEF SelectInSeq
  <2>4. RemoveAt(d, 1) = << >>
    BY <2>1, SubSeqEmpty, ConcatEmptySeq, EmptySeq DEF RemoveAt
  <2>5. Detach(d, e, b) = RemoveAt(d, SelectInSeq(d, Hit))
    BY <1>4 DEF Detach, RemoveFirstMatch
  <2>. QED  BY <2>3, <2>4, <2>5
<1>. QED  BY <1>2, <1>3, <1>4

\* disposeExplanations leaves no container when there is at most one.
LEMMA DetachExplanationsEmpties ==
    ASSUME NEW S, NEW d \in Seq(S), Len(d) <= 1, NEW e, NEW x
    PROVE  DetachExplanations(d, e, x) = << >>
<1>1. Detach(d, e, x.box) \in {d, << >>}
  BY DetachOne
<1>2. Detach(d, e, x.box) \in Seq(S) /\ Len(Detach(d, e, x.box)) <= 1
  <2>1. CASE Detach(d, e, x.box) = d
    BY <2>1
  <2>2. CASE Detach(d, e, x.box) = << >>
    BY <2>2
  <2>. QED  BY <1>1, <2>1, <2>2
<1>. QED  BY <1>2, RemoveLiveEmpties DEF DetachExplanations

-----------------------------------------------------------------------------
(* What the parts of the handlers do to the record of an explainer.        *)

\* What dispose leaves of the document and of the explainer.
LEMMA DisposeFacts ==
    ASSUME NEW x \in ExplainerRecords
    PROVE  /\ Dispose(x) \in ExplainerRecords
           /\ Dispose(x).box = None /\ Dispose(x).box2 = None
           /\ Dispose(x).explainerIdx = x.explainerIdx + 1
           /\ Dispose(x).box0 = x.box0 /\ Dispose(x).box1 = x.box1
           /\ Dispose(x).boxRange = x.boxRange
           /\ Dispose(x).allMode = x.allMode
           /\ Dispose(x).listening = x.listening
           /\ Dispose(x).lineMap = x.lineMap /\ Dispose(x).allMap = x.allMap
<1>. DEFINE n == x.explainerIdx + 1
<1>1. n \in Nat
  BY DEF ExplainerRecords
<1>2. Dispose(x) = [x EXCEPT !.box = None, !.box2 = None, !.explainerIdx = n]
  BY DEF Dispose
<1>. HIDE DEF n
<1>3. Dispose(x) \in ExplainerRecords
  BY <1>1, <1>2 DEF ExplainerRecords
<1>4. Dispose(x).explainerIdx = n
  BY <1>2 DEF ExplainerRecords
<1>5. Dispose(x).explainerIdx = x.explainerIdx + 1
  BY <1>4 DEF n
<1>. QED  BY <1>2, <1>3, <1>5 DEF ExplainerRecords

\* What disposeExplanations leaves of them.
LEMMA DisposeExplanationsFacts ==
    ASSUME NEW x \in ExplainerRecords
    PROVE  LET y == DisposeExplanations(x) IN
           /\ y \in ExplainerRecords
           /\ y.box = None /\ y.box2 = None /\ y.boxRange = None
           /\ y.explainerIdx = x.explainerIdx + 1
           /\ y.box0 = x.box0 /\ y.box1 = x.box1
           /\ y.allMode = x.allMode /\ y.listening = x.listening
           /\ y.lineMap = x.lineMap /\ y.allMap = x.allMap
<1>. DEFINE z == Dispose(x)
<1>1. z \in ExplainerRecords
  BY DisposeFacts
<1>2. DisposeExplanations(x) = [z EXCEPT !.boxRange = None]
  BY DEF DisposeExplanations
<1>3. DisposeExplanations(x).explainerIdx = z.explainerIdx
  BY <1>1, <1>2 DEF ExplainerRecords
<1>4. z.explainerIdx = x.explainerIdx + 1
  BY DisposeFacts
<1>5. /\ z.box = None /\ z.box2 = None
      /\ z.box0 = x.box0 /\ z.box1 = x.box1
      /\ z.allMode = x.allMode /\ z.listening = x.listening
      /\ z.lineMap = x.lineMap /\ z.allMap = x.allMap
  BY DisposeFacts
<1>. HIDE DEF z
<1>6. DisposeExplanations(x) \in ExplainerRecords
  BY <1>1, <1>2 DEF ExplainerRecords
<1>7. DisposeExplanations(x).explainerIdx = x.explainerIdx + 1
  BY <1>3, <1>4
<1>. QED  BY <1>1, <1>2, <1>5, <1>6, <1>7 DEF ExplainerRecords

\* What disposeAllExplainer leaves of them.
LEMMA DisposeAllFacts ==
    ASSUME NEW x \in ExplainerRecords
    PROVE  LET y == DisposeAllExplainer(x) IN
           /\ y \in ExplainerRecords
           /\ y.box0 = None /\ y.box1 = None
           /\ y.box = x.box /\ y.box2 = x.box2
           /\ y.boxRange = x.boxRange /\ y.explainerIdx = x.explainerIdx
           /\ y.allMode = x.allMode /\ y.listening = x.listening
           /\ y.lineMap = x.lineMap /\ y.allMap = x.allMap
BY DEF DisposeAllExplainer, ExplainerRecords

\* What the renewal for a new suggestion leaves of them.
LEMMA RenewedFacts ==
    ASSUME NEW x \in ExplainerRecords, ghost \in Codes
    PROVE  LET y == Renewed(x) IN
           /\ y \in ExplainerRecords
           /\ y.box0 = None /\ y.box1 = None
           /\ y.box = x.box /\ y.box2 = x.box2
           /\ y.boxRange = x.boxRange /\ y.explainerIdx = x.explainerIdx
           /\ y.allMode = FALSE /\ y.listening = x.listening
           /\ y.lineMap = x.lineMap /\ y.allMap = x.allMap
BY DEF Renewed, DisposeAllExplainer, ExplainerRecords

\* A suggestion has at least one line.
LEMMA TextFacts ==
    ASSUME NEW t \in Texts
    PROVE  LineCount(t) \in Nat \ {0}
<1>1. IsComment[t] \in Seq(BOOLEAN) /\ IsComment[t] # << >>
  BY TextAssumption
<1>. QED  BY <1>1, EmptySeq DEF LineCount

\* What createExplainer adds to the document and to the explainer.
LEMMA CreatedFacts ==
    ASSUME NEW x \in ExplainerRecords, ghost \in Codes, cursor \in Nat,
           NEW kind \in {"single", "multi"}
    PROVE  LET y == Created(x, kind) IN
           /\ Here \in Subjects
           /\ y \in ExplainerRecords
           /\ y.box = [idx |-> x.explainerIdx, subj |-> Here, kind |-> kind]
           /\ y.box2 = None /\ y.boxRange # None
           /\ y.explainerIdx = x.explainerIdx + 1
           /\ y.box0 = None /\ y.box1 = None
           /\ y.allMode = FALSE /\ y.listening = x.listening
           /\ y.lineMap = x.lineMap /\ y.allMap = x.allMap
<1>. DEFINE z == DisposeExplanations(Renewed(x))
<1>1. /\ z \in ExplainerRecords
      /\ z.box2 = None /\ z.explainerIdx = x.explainerIdx + 1
      /\ z.box0 = None /\ z.box1 = None
      /\ z.allMode = FALSE /\ z.listening = x.listening
      /\ z.lineMap = x.lineMap /\ z.allMap = x.allMap
  <2>. DEFINE w == Renewed(x)
  <2>1. w \in ExplainerRecords
    BY RenewedFacts
  <2>2. /\ w.explainerIdx = x.explainerIdx
        /\ w.box0 = None /\ w.box1 = None
        /\ w.allMode = FALSE /\ w.listening = x.listening
        /\ w.lineMap = x.lineMap /\ w.allMap = x.allMap
    BY RenewedFacts
  <2>. HIDE DEF w
  <2>3. LET y == DisposeExplanations(w) IN
           /\ y \in ExplainerRecords
           /\ y.box2 = None
           /\ y.explainerIdx = w.explainerIdx + 1
           /\ y.box0 = w.box0 /\ y.box1 = w.box1
           /\ y.allMode = w.allMode /\ y.listening = w.listening
           /\ y.lineMap = w.lineMap /\ y.allMap = w.allMap
    BY <2>1, DisposeExplanationsFacts
  <2>4. z = DisposeExplanations(w)
    BY DEF w
  <2>. QED  BY <2>2, <2>3, <2>4
<1>2. Here \in Subjects
  BY DEF Here, Subjects, Texts
<1>3. [idx |-> x.explainerIdx, subj |-> Here, kind |-> kind] \in Containers
  BY <1>2 DEF Containers, ExplainerRecords
<1>4. <<cursor, cursor + LineCount(ghost) - 1>> \in Ranges
  BY TextFacts DEF Ranges, Texts
<1>5. <<cursor, cursor + LineCount(ghost) - 1>> # None
  BY <1>4, NoneAssumption
<1>. HIDE DEF z
<1>. QED  BY <1>1, <1>2, <1>3, <1>4, <1>5 DEF Created, z, ExplainerRecords

\* generateAllExplanations makes a map from lines to entries.
LEMMA NewMapType ==
    ASSUME NEW s \in Subjects
    PROVE  NewMap(s) \in Maps
<1>1. \A l \in Lines : Entry(s, l, "comment") \in Entries
  BY BoundsAssumption DEF Lines, Entry, Entries
<1>. QED  BY <1>1 DEF NewMap, Maps

\* Its requests are requests.
LEMMA RequestsType ==
    ASSUME NEW s \in Subjects, NEW D, NEW e \in D,
           NEW mode \in {"multi", "all"}, NEW idx \in Nat
    PROVE  Requests(e, mode, idx, s)
             \subseteq [owner : D, mode : {"multi", "all"}, idx : Nat,
                        subj : Subjects, line : Nat]
<1>1. s.at \in Nat /\ LineCount(s.text) \in Nat
  BY TextFacts DEF Subjects
<1>2. SubjectLines(s) \subseteq Nat
  BY <1>1 DEF SubjectLines
<1>. QED  BY <1>2 DEF Requests

-----------------------------------------------------------------------------
(* Types, and the single container, hold in every reachable state.         *)

TypedSingle == TypeOK /\ AtMostOneContainer

SingleType == [owner : DOMAIN ex, idx : Nat, subj : Subjects]
FetchType == [owner : DOMAIN ex, mode : {"multi", "all"}, idx : Nat,
              subj : Subjects, line : Nat]

\* An explainer with nothing to do is dispatching nothing.
LEMMA IdleType == Idle \in Dispatches /\ Idle.ev # "mousemove"
BY DEF Idle, Dispatches, Events, Places

\* Raising an event for the listeners gives a dispatch.
LEMMA RaiseType ==
    ASSUME TypeOK, NEW ev \in Events, NEW line \in Nat, NEW where \in Places,
           ev = "mousemove" => line \in Lines,
           Raise(ev, line, where), UNCHANGED <<idOfExplainer, ex>>
    PROVE  /\ dispatch' \in Dispatches
           /\ Quiet' \/ dispatch'.next \in DOMAIN ex'
           /\ dispatch'.ev = "mousemove" => dispatch'.line \in Lines
<1>1. CASE idOfExplainer = 0
  BY <1>1, IdleType DEF Raise, Quiet, TypeOK
<1>2. CASE idOfExplainer # 0
  <2>1. dispatch' = [ev |-> ev, next |-> 0, line |-> line, where |-> where]
    BY <1>2 DEF Raise
  <2>2. 0 \in DOMAIN ex
    BY <1>2 DEF TypeOK
  <2>. QED  BY <2>1, <2>2 DEF Dispatches
<1>. QED  BY <1>1, <1>2

\* So does passing it on to the next.
LEMMA PassType ==
    ASSUME TypeOK, NEW e, NEW ev, Turn(ev, e), Pass, DOMAIN ex' = DOMAIN ex
    PROVE  /\ dispatch' \in Dispatches
           /\ Quiet' \/ dispatch'.next \in DOMAIN ex'
           /\ dispatch'.ev = "mousemove" => dispatch'.line \in Lines
           /\ e \in DOMAIN ex
           /\ open' \in BOOLEAN /\ ghost' \in Codes \cup {None}
           /\ buffer' \in Buffers /\ cursor' \in Nat
           /\ idOfExplainer' = idOfExplainer
<1>1. CASE dispatch.next + 1 < idOfExplainer
  <2>. DEFINE n == dispatch.next + 1
  <2>1. n \in 0 .. idOfExplainer - 1 /\ n \in Nat
    BY <1>1 DEF TypeOK, Dispatches
  <2>2. dispatch' = [dispatch EXCEPT !.next = n]
    BY <1>1 DEF Pass
  <2>. HIDE DEF n
  <2>3. /\ dispatch' \in Dispatches
        /\ dispatch'.next = n
        /\ dispatch'.ev = dispatch.ev /\ dispatch'.line = dispatch.line
    BY <2>1, <2>2 DEF TypeOK, Dispatches
  <2>. QED  BY <2>1, <2>3 DEF TypeOK, Pass, Turn, editorVars
<1>2. CASE ~(dispatch.next + 1 < idOfExplainer)
  BY <1>2, IdleType DEF TypeOK, Pass, Turn, Quiet, editorVars
<1>. QED  BY <1>1, <1>2

\* Every handler leaves explainers and documents of the right type.
LEMMA HandlerType ==
    ASSUME TypedSingle, NEW e, NEW ev, Turn(ev, e), Pass,
           NEW y \in ExplainerRecords, ex' = [ex EXCEPT ![e] = y],
           doc' \in Seq(Elements), Len(doc') <= 1,
           \A k \in DOMAIN doc' : doc'[k].owner \in DOMAIN ex,
           singles' \subseteq SingleType, fetches' \subseteq FetchType
    PROVE  TypedSingle'
<1>1. DOMAIN ex' = DOMAIN ex
  OBVIOUS
<1>2. ex' \in [0 .. idOfExplainer - 1 -> ExplainerRecords]
  BY DEF TypedSingle, TypeOK
<1>. QED  BY <1>1, <1>2, PassType
          DEF TypedSingle, TypeOK, AtMostOneContainer, SingleType, FetchType

NewElement(e) ==
    [owner |-> e, idx |-> ex[e].explainerIdx, subj |-> Here, drawn |-> {}]

\* Attaching a new container leaves it alone in the document.
LEMMA AttachedOne ==
    ASSUME TypedSingle, NEW e \in DOMAIN ex, ghost \in Codes
    PROVE  /\ NewElement(e) \in Elements
           /\ Attached(doc, e) = <<NewElement(e)>>
           /\ Attached(doc, e) \in Seq(Elements)
<1>1. e \in Explainers /\ ex[e].explainerIdx \in Nat
  BY BoundsAssumption
     DEF TypedSingle, TypeOK, Explainers, ExplainerRecords
<1>2. NewElement(e) \in Elements
  BY <1>1 DEF NewElement, Elements, Here, Subjects, Texts, TypedSingle, TypeOK
<1>3. DetachExplanations(doc, e, ex[e]) = << >>
  BY DetachExplanationsEmpties DEF TypedSingle, TypeOK, AtMostOneContainer
<1>4. Attached(doc, e) = <<NewElement(e)>> \o << >>
  BY <1>3 DEF Attached, NewElement
<1>5. <<NewElement(e)>> \o << >> = <<NewElement(e)>>
  BY <1>2, ConcatEmptySeq
<1>. QED  BY <1>2, <1>4, <1>5

\* Every handler preserves the invariant.
LEMMA HandlerKeepsTypes ==
    ASSUME TypedSingle, NEW e \in DOMAIN ex, Handler(e)
    PROVE  TypedSingle'
<1>. USE DEF requestVars
<1>1. ex[e] \in ExplainerRecords
  BY DEF TypedSingle, TypeOK
<1>2. /\ doc \in Seq(Elements) /\ Len(doc) <= 1
      /\ \A k \in DOMAIN doc : doc[k].owner \in DOMAIN ex
      /\ singles \subseteq SingleType /\ fetches \subseteq FetchType
  BY DEF TypedSingle, TypeOK, AtMostOneContainer, SingleType, FetchType
<1>3. ex = [ex EXCEPT ![e] = ex[e]]
  BY DEF TypedSingle, TypeOK
<1>4. DetachExplanations(doc, e, ex[e]) = << >>
  BY <1>2, DetachExplanationsEmpties
<1>5. ASSUME doc' \in {doc, << >>}
      PROVE  /\ doc' \in Seq(Elements) /\ Len(doc') <= 1
             /\ \A k \in DOMAIN doc' : doc'[k].owner \in DOMAIN ex
  <2>1. CASE doc' = doc
    BY <1>2, <2>1
  <2>2. CASE doc' = << >>
    BY <2>2
  <2>. QED  BY <1>5, <2>1, <2>2
<1>6. ASSUME NewGhost(e) PROVE ghost \in Codes /\ cursor \in Nat
  BY <1>6 DEF NewGhost, TypedSingle, TypeOK
<1>7. CASE NotListening(e) \/ GhostSame(e)
  BY <1>1, <1>2, <1>3, <1>7, HandlerType DEF NotListening, GhostSame
<1>8. CASE GhostBlank(e) \/ KeyUp(e)
  <2>1. DisposeExplanations(ex[e]) \in ExplainerRecords
    BY <1>1, DisposeExplanationsFacts
  <2>2. /\ doc' \in Seq(Elements) /\ Len(doc') <= 1
        /\ \A k \in DOMAIN doc' : doc'[k].owner \in DOMAIN ex
    BY <1>4, <1>5, <1>8 DEF GhostBlank, KeyUp
  <2>. QED  BY <1>2, <1>8, <2>1, <2>2, HandlerType DEF GhostBlank, KeyUp
<1>9. CASE GhostComment(e)
  <2>1. Renewed(ex[e]) \in ExplainerRecords
    BY <1>1, <1>6, <1>9, RenewedFacts DEF GhostComment
  <2>. QED  BY <1>2, <1>9, <2>1, HandlerType DEF GhostComment, NewGhost
<1>10. CASE GhostSingle(e) \/ GhostMulti(e)
  <2>1. ghost \in Codes /\ cursor \in Nat /\ Turn("ghost", e) /\ Pass
    BY <1>6, <1>10 DEF GhostSingle, GhostMulti, NewGhost
  <2>2. /\ Here \in Subjects /\ ex[e].explainerIdx \in Nat
        /\ Created(ex[e], "single") \in ExplainerRecords
        /\ Created(ex[e], "multi") \in ExplainerRecords
    BY <1>1, <2>1, CreatedFacts DEF ExplainerRecords
  <2>3. /\ Attached(doc, e) = <<NewElement(e)>>
        /\ Attached(doc, e) \in Seq(Elements)
    BY <2>1, AttachedOne
  <2>4. /\ doc' \in Seq(Elements) /\ Len(doc') <= 1
        /\ \A k \in DOMAIN doc' : doc'[k].owner \in DOMAIN ex
    <3>1. doc' = <<NewElement(e)>> /\ doc' \in Seq(Elements)
      BY <1>10, <2>3 DEF GhostSingle, GhostMulti
    <3>2. Len(doc') = 1 /\ DOMAIN doc' = {1} /\ doc'[1] = NewElement(e)
      BY <3>1
    <3>3. doc'[1].owner = e
      BY <3>2 DEF NewElement
    <3>. QED  BY <3>1, <3>2, <3>3
  <2>5. CASE GhostSingle(e)
    <3>1. singles' \subseteq SingleType
      BY <1>2, <2>2, <2>5 DEF GhostSingle, SingleType
    <3>. QED  BY <1>2, <2>1, <2>2, <2>4, <2>5, <3>1, HandlerType
              DEF GhostSingle
  <2>6. CASE GhostMulti(e)
    <3>. DEFINE y == [Created(ex[e], "multi") EXCEPT
                        !.box2 = Placeholder, !.lineMap = NewMap(Here)]
    <3>1. Placeholder \in HoverBoxes
      BY DEF Placeholder, HoverBoxes
    <3>2. y \in ExplainerRecords
      BY <2>2, <3>1, NewMapType DEF ExplainerRecords
    <3>3. ex' = [ex EXCEPT ![e] = y]
      BY <2>6 DEF GhostMulti
    <3>4. fetches' \subseteq FetchType
      BY <1>2, <2>2, <2>6, RequestsType DEF GhostMulti, FetchType
    <3>. HIDE DEF y
    <3>. QED  BY <1>2, <2>1, <2>4, <2>6, <3>2, <3>3, <3>4, HandlerType
              DEF GhostMulti
  <2>. QED  BY <1>10, <2>5, <2>6
<1>11. CASE KeyDown(e) \/ MouseDown(e)
  <2>. DEFINE x == DisposeAllExplainer(ex[e])
  <2>1. x \in ExplainerRecords /\ DisposeExplanations(x) \in ExplainerRecords
    BY <1>1, DisposeAllFacts, DisposeExplanationsFacts
  <2>2. DetachExplanations(doc, e, x) = << >>
    BY <1>2, DetachExplanationsEmpties
  <2>. HIDE DEF x
  <2>3. PICK y \in ExplainerRecords : ex' = [ex EXCEPT ![e] = y]
    BY <1>11, <2>1 DEF KeyDown, MouseDown, LeaveOverview, x
  <2>4. /\ doc' \in {doc, << >>}
        /\ Turn("keydown", e) \/ Turn("mousedown", e)
        /\ Pass /\ UNCHANGED requestVars
    BY <1>11, <2>2 DEF KeyDown, MouseDown, LeaveOverview, x
  <2>5. /\ doc' \in Seq(Elements) /\ Len(doc') <= 1
        /\ \A k \in DOMAIN doc' : doc'[k].owner \in DOMAIN ex
    BY <1>5, <2>4
  <2>. QED  BY <1>2, <2>3, <2>4, <2>5, HandlerType
<1>12. CASE MouseMove(e)
  <2>1. dispatch.line \in Nat /\ LineCount(buffer) \in Nat
    BY TextFacts DEF TypedSingle, TypeOK, Texts, Dispatches
  <2>. DEFINE x == Ranged(ex[e])
  <2>2. x \in ExplainerRecords
    <3>1. <<1, LineCount(buffer)>> \in Ranges
      BY <2>1 DEF Ranges
    <3>. QED  BY <1>1, <3>1 DEF Ranged, ExplainerRecords
  <2>. HIDE DEF x
  <2>. DEFINE l == dispatch.line
              map == IF x.allMode THEN x.allMap ELSE x.lineMap
              hover == [line |-> l, content |-> map[l]]
  <2>3. Hovered(x, l) \in ExplainerRecords
    <3>1. l \in Lines
      BY <1>12 DEF MouseMove, Turn, TypedSingle, TypeOK
    <3>2. map \in [Lines -> Entries \cup {None}]
      BY <2>2 DEF ExplainerRecords, Maps
    <3>3. hover \in HoverBoxes
      BY <2>1, <3>1, <3>2 DEF HoverBoxes
    <3>4. Hovered(x, l) = IF x.allMode
                THEN [x EXCEPT !.lastHovered = l, !.box1 = hover]
                ELSE [x EXCEPT !.lastHovered = l, !.box2 = hover]
      BY DEF Hovered
    <3>. HIDE DEF hover, map, l
    <3>5. l \in Int
      BY <2>1 DEF l
    <3>6. [x EXCEPT !.lastHovered = l, !.box1 = hover] \in ExplainerRecords
      BY <2>2, <3>3, <3>5 DEF ExplainerRecords
    <3>7. [x EXCEPT !.lastHovered = l, !.box2 = hover] \in ExplainerRecords
      BY <2>2, <3>3, <3>5 DEF ExplainerRecords
    <3>. QED  BY <3>4, <3>6, <3>7
  <2>. HIDE DEF l
  <2>4. PICK y \in ExplainerRecords : ex' = [ex EXCEPT ![e] = y]
    BY <1>1, <1>12, <2>2, <2>3 DEF MouseMove, x, l
  <2>. QED  BY <1>2, <1>12, <2>4, HandlerType DEF MouseMove
<1>13. CASE GenerateAll(e)
  <2>. DEFINE s == [text |-> buffer, at |-> 1]
              y == [ex[e] EXCEPT !.allMode = TRUE, !.allMap = NewMap(s),
                          !.boxRange = <<1, LineCount(buffer)>>,
                          !.box0 = s, !.box1 = Placeholder]
  <2>1. s \in Subjects /\ LineCount(buffer) \in Nat
    BY TextFacts DEF Subjects, Texts, TypedSingle, TypeOK
  <2>2. /\ NewMap(s) \in Maps /\ Placeholder \in HoverBoxes
        /\ <<1, LineCount(buffer)>> \in Ranges
    BY <2>1, NewMapType DEF Placeholder, HoverBoxes, Ranges
  <2>. HIDE DEF s
  <2>3. y \in ExplainerRecords
    BY <1>1, <2>1, <2>2 DEF ExplainerRecords
  <2>4. ex' = [ex EXCEPT ![e] = y]
    BY <1>13 DEF GenerateAll, s
  <2>5. fetches' = fetches \cup Requests(e, "all", ex[e].explainerIdx, s)
    BY <1>13 DEF GenerateAll, s
  <2>6. fetches' \subseteq FetchType
    BY <1>1, <1>2, <2>1, <2>5, RequestsType DEF FetchType, ExplainerRecords
  <2>. HIDE DEF y
  <2>7. UNCHANGED <<editorVars, dispatch, idOfExplainer, doc, singles>>
    BY <1>13 DEF GenerateAll
  <2>8. /\ ex' \in [0 .. idOfExplainer - 1 -> ExplainerRecords]
        /\ DOMAIN ex' = DOMAIN ex
    BY <2>3, <2>4 DEF TypedSingle, TypeOK
  <2>. QED  BY <2>6, <2>7, <2>8
            DEF TypedSingle, TypeOK, AtMostOneContainer, FetchType, Quiet,
                editorVars
<1>14. CASE DisposeEditor(e)
  <2>1. Dispose(ex[e]) \in ExplainerRecords
    BY <1>1, DisposeFacts
  <2>2. Detach(doc, e, ex[e].box) \in {doc, << >>}
    BY <1>2, DetachOne
  <2>3. /\ doc' \in Seq(Elements) /\ Len(doc') <= 1
        /\ \A k \in DOMAIN doc' : doc'[k].owner \in DOMAIN ex
    BY <1>5, <1>14, <2>2 DEF DisposeEditor
  <2>. QED  BY <1>2, <1>14, <2>1, <2>3, HandlerType DEF DisposeEditor
<1>. QED  BY <1>7, <1>8, <1>9, <1>10, <1>11, <1>12, <1>13, <1>14 DEF Handler

\* So does every event.
LEMMA EventKeepsTypes ==
    ASSUME TypedSingle, EditorEvent
    PROVE  TypedSingle'
<1>. USE DEF requestVars
<1>1. CASE AddExplainer
  <2>1. NewExplainer \in ExplainerRecords
    BY DEF NewExplainer, ExplainerRecords, EmptyMap, Maps
  <2>2. idOfExplainer \in Nat /\ idOfExplainer + 1 <= MaxExplainers
    BY <1>1, BoundsAssumption DEF AddExplainer, TypedSingle, TypeOK
  <2>3. ex' \in [0 .. idOfExplainer -> ExplainerRecords]
    BY <1>1, <2>1, <2>2 DEF AddExplainer, TypedSingle, TypeOK
  <2>4. /\ idOfExplainer' - 1 = idOfExplainer
        /\ idOfExplainer' \in 0 .. MaxExplainers
    BY <1>1, <2>2, BoundsAssumption DEF AddExplainer
  <2>5. ex' \in [0 .. idOfExplainer' - 1 -> ExplainerRecords]
    BY <2>3, <2>4
  <2>6. DOMAIN ex \subseteq DOMAIN ex'
    BY <2>2, <2>3 DEF TypedSingle, TypeOK
  <2>7. UNCHANGED <<editorVars, dispatch, doc, requestVars>>
    BY <1>1 DEF AddExplainer
  <2>8. Quiet'
    BY <1>1 DEF AddExplainer, Quiet
  <2>. QED  BY <2>4, <2>5, <2>6, <2>7, <2>8
            DEF TypedSingle, TypeOK, AtMostOneContainer, editorVars
<1>2. CASE SwapModel
  <2>1. ASSUME NEW x \in ExplainerRecords
        PROVE  [x EXCEPT !.listening = FALSE] \in ExplainerRecords
    BY DEF ExplainerRecords
  <2>2. ex \in [0 .. idOfExplainer - 1 -> ExplainerRecords]
    BY DEF TypedSingle, TypeOK
  <2>3. ex' = [e \in DOMAIN ex |-> [ex[e] EXCEPT !.listening = FALSE]]
    BY <1>2 DEF SwapModel
  <2>4. ex' \in [0 .. idOfExplainer - 1 -> ExplainerRecords]
    BY <2>1, <2>2, <2>3
  <2>5. DOMAIN ex' = DOMAIN ex
    BY <2>2, <2>4
  <2>6. /\ UNCHANGED <<open, cursor, buffer, dispatch, idOfExplainer, doc,
                      requestVars>>
        /\ ghost' = None
    BY <1>2 DEF SwapModel
  <2>. QED  BY <2>4, <2>5, <2>6
            DEF TypedSingle, TypeOK, AtMostOneContainer, Quiet
<1>3. ASSUME UNCHANGED <<idOfExplainer, ex, doc, requestVars>>,
             dispatch' \in Dispatches, Quiet' \/ dispatch'.next \in DOMAIN ex',
             dispatch'.ev = "mousemove" => dispatch'.line \in Lines,
             open' \in BOOLEAN, ghost' \in Codes \cup {None},
             buffer' \in Buffers, cursor' \in Nat
      PROVE  TypedSingle'
  BY <1>3 DEF TypedSingle, TypeOK, AtMostOneContainer
<1>4. /\ TypeOK /\ 0 \in Nat /\ "text" \in Places
      /\ {"ghost", "keydown", "keyup", "mousedown", "mousemove", "dispose"}
            \subseteq Events
  BY DEF TypedSingle, Places, Events
<1>5. CASE \E g \in Codes \cup {None} : SuggestionChanges(g)
  BY <1>3, <1>4, <1>5, RaiseType DEF SuggestionChanges, TypeOK
<1>6. CASE \E b \in Buffers : \E l \in 1 .. LineCount(b) : Edit(b, l)
  <2>. PICK b \in Buffers : \E l \in 1 .. LineCount(b) : Edit(b, l)
    BY <1>6
  <2>. PICK l \in 1 .. LineCount(b) : Edit(b, l)
    OBVIOUS
  <2>1. l \in Nat
    BY TextFacts DEF Texts
  <2>2. CASE l # cursor /\ ghost # None
    BY <1>3, <1>4, <2>1, <2>2, RaiseType DEF Edit, TypeOK
  <2>3. CASE ~(l # cursor /\ ghost # None)
    <3>1. UNCHANGED <<ghost, dispatch, open, idOfExplainer, ex, doc,
                      requestVars>>
      BY <2>3 DEF Edit
    <3>2. buffer' \in Buffers /\ cursor' \in Nat
      BY <2>1 DEF Edit
    <3>. QED  BY <3>1, <3>2 DEF TypedSingle, TypeOK, AtMostOneContainer, Quiet
  <2>. QED  BY <2>2, <2>3
<1>7. CASE KeyDownEvent \/ KeyUpEvent \/ MouseDownEvent
  BY <1>3, <1>4, <1>7, RaiseType
     DEF KeyDownEvent, KeyUpEvent, MouseDownEvent, TypeOK, editorVars
<1>8. CASE \E l \in HoverLines, w \in Places : MouseMoveEvent(l, w)
  <2>1. HoverLines \subseteq Lines /\ Lines \subseteq Nat
    BY BoundsAssumption DEF Lines
  <2>. QED  BY <1>3, <1>4, <1>8, <2>1, RaiseType
            DEF MouseMoveEvent, TypeOK, editorVars
<1>9. CASE EditorDisposed
  BY <1>3, <1>4, <1>9, RaiseType DEF EditorDisposed, TypeOK
<1>. QED  BY <1>1, <1>2, <1>5, <1>6, <1>7, <1>8, <1>9 DEF EditorEvent

\* So does every answer.
LEMMA AnswerKeepsTypes ==
    ASSUME TypedSingle, Answer
    PROVE  TypedSingle'
<1>1. ASSUME NEW r \in singles, NEW out \in Outcomes, SingleAnswer(r, out)
      PROVE  TypedSingle'
  <2>. DEFINE k == Target(r.idx)
              a == [by |-> r.owner, subj |-> r.subj]
              c == [doc[k] EXCEPT !.drawn = @ \cup {a}]
  <2>1. doc' \in {doc, [doc EXCEPT ![k] = c]}
    BY <1>1 DEF SingleAnswer
  <2>2. /\ doc \in Seq(Elements) /\ a \in Answers
        /\ \A j \in DOMAIN doc : doc[j].owner \in DOMAIN ex
    <3>1. r.subj \in Subjects /\ r.owner \in 0 .. idOfExplainer - 1
      BY <1>1 DEF TypedSingle, TypeOK
    <3>2. r.owner \in Explainers
      BY <3>1, BoundsAssumption DEF TypedSingle, TypeOK, Explainers
    <3>. QED  BY <3>1, <3>2 DEF TypedSingle, TypeOK, Answers
  <2>. HIDE DEF k
  <2>3. /\ doc' \in Seq(Elements) /\ Len(doc') = Len(doc)
        /\ \A j \in DOMAIN doc' : doc'[j].owner \in DOMAIN ex
    <3>1. CASE doc' = doc
      BY <2>2, <3>1
    <3>2. CASE doc' = [doc EXCEPT ![k] = c] /\ k \in DOMAIN doc
      <4>1. doc[k] \in Elements /\ k \in 1 .. Len(doc)
        BY <2>2, <3>2
      <4>2. c \in Elements /\ c.owner = doc[k].owner
        BY <2>2, <4>1 DEF Elements
      <4>. HIDE DEF c
      <4>3. /\ doc' \in Seq(Elements) /\ Len(doc') = Len(doc)
            /\ \A j \in 1 .. Len(doc) :
                    doc'[j] = IF j = k THEN c ELSE doc[j]
        BY <2>2, <3>2, <4>1, <4>2, ExceptSeq
      <4>4. DOMAIN doc' = 1 .. Len(doc) /\ DOMAIN doc = 1 .. Len(doc)
        BY <2>2, <4>3
      <4>. QED  BY <2>2, <4>1, <4>2, <4>3, <4>4
    <3>3. CASE doc' = [doc EXCEPT ![k] = c] /\ k \notin DOMAIN doc
      <4>1. doc' = doc
        BY <2>2, <3>3
      <4>. QED  BY <2>2, <4>1
    <3>. QED  BY <2>1, <3>1, <3>2, <3>3
  <2>4. /\ UNCHANGED <<editorVars, dispatch, idOfExplainer, ex, fetches>>
        /\ singles' \subseteq singles
    BY <1>1 DEF SingleAnswer
  <2>. QED  BY <2>3, <2>4
            DEF TypedSingle, TypeOK, AtMostOneContainer, editorVars, Quiet
<1>2. ASSUME NEW r \in fetches, NEW out \in Outcomes, LineAnswer(r, out)
      PROVE  TypedSingle'
  <2>. DEFINE v == Entry(r.subj, r.line, out)
  <2>1. r.owner \in DOMAIN ex /\ v \in Entries
    BY <1>2 DEF TypedSingle, TypeOK, Entry, Entries
  <2>2. /\ ex[r.owner] \in ExplainerRecords
        /\ ex[r.owner].lineMap \in Maps /\ ex[r.owner].allMap \in Maps
    BY <2>1 DEF TypedSingle, TypeOK, ExplainerRecords
  <2>. HIDE DEF v
  <2>3. \A m \in Maps : \A l : [m EXCEPT ![l] = v] \in Maps
    BY <2>1 DEF Maps
  <2>4. PICK y \in ExplainerRecords : ex' = [ex EXCEPT ![r.owner] = y]
    <3>1. CASE out = "nothing"
      BY <1>2, <2>1, <2>2, <3>1 DEF LineAnswer, TypedSingle, TypeOK
    <3>2. CASE out # "nothing" /\ r.mode = "multi"
      <4>. DEFINE m == [ex[r.owner].lineMap EXCEPT ![LineKey(r)] = v]
      <4>1. m \in Maps
        BY <2>2, <2>3
      <4>2. ex' = [ex EXCEPT ![r.owner] = [ex[r.owner] EXCEPT !.lineMap = m]]
        BY <1>2, <3>2 DEF LineAnswer, v
      <4>. HIDE DEF m
      <4>. QED  BY <2>2, <4>1, <4>2 DEF ExplainerRecords
    <3>3. CASE out # "nothing" /\ r.mode # "multi"
      <4>. DEFINE m == [ex[r.owner].allMap EXCEPT ![LineKey(r)] = v]
      <4>1. m \in Maps
        BY <2>2, <2>3
      <4>2. ex' = [ex EXCEPT ![r.owner] = [ex[r.owner] EXCEPT !.allMap = m]]
        BY <1>2, <3>3 DEF LineAnswer, v
      <4>. HIDE DEF m
      <4>. QED  BY <2>2, <4>1, <4>2 DEF ExplainerRecords
    <3>. QED  BY <3>1, <3>2, <3>3
  <2>5. /\ ex' \in [0 .. idOfExplainer - 1 -> ExplainerRecords]
        /\ DOMAIN ex' = DOMAIN ex
    BY <2>4 DEF TypedSingle, TypeOK
  <2>6. /\ UNCHANGED <<editorVars, dispatch, idOfExplainer, doc, singles>>
        /\ fetches' \subseteq fetches
    BY <1>2 DEF LineAnswer
  <2>. QED  BY <2>5, <2>6
            DEF TypedSingle, TypeOK, AtMostOneContainer, editorVars, Quiet
<1>. QED  BY <1>1, <1>2 DEF Answer

\* The invariant holds at the start.
LEMMA InitTypes ==
    ASSUME Init
    PROVE  TypedSingle
<1>1. ex \in [0 .. idOfExplainer - 1 -> ExplainerRecords]
  BY DEF Init
<1>2. doc \in Seq(Elements) /\ Len(doc) = 0 /\ DOMAIN doc = {}
  BY DEF Init
<1>3. idOfExplainer \in 0 .. MaxExplainers
  BY BoundsAssumption DEF Init
<1>. QED  BY <1>1, <1>2, <1>3, IdleType
          DEF Init, TypedSingle, TypeOK, AtMostOneContainer, Quiet

\* Every step preserves the invariant.
LEMMA NextKeepsTypes == TypedSingle /\ [Next]_vars => TypedSingle'
<1>1. ASSUME TypedSingle, UNCHANGED vars PROVE TypedSingle'
  BY <1>1 DEF TypedSingle, TypeOK, AtMostOneContainer, vars, editorVars,
              requestVars, Quiet
<1>. QED  BY <1>1, HandlerKeepsTypes, EventKeepsTypes, AnswerKeepsTypes DEF Next

\* The invariant holds of every behaviour.
LEMMA TypedSingleCorrect == Spec => []TypedSingle
<1>1. Init => TypedSingle
  BY InitTypes
<1>. QED  BY <1>1, NextKeepsTypes, PTL DEF Spec

\* The state keeps its shape: the dispatcher of editor events never names
\* an explainer that does not exist, whatever the order of constructions,
\* handlers and answers.
THEOREM TypeCorrect == Spec => []TypeOK
<1>1. TypedSingle => TypeOK
  BY DEF TypedSingle
<1>. QED  BY <1>1, TypedSingleCorrect, PTL

\* At most one explanation is attached, for any number of explainers: the
\* loop of disposeExplanations over a live collection is enough, because
\* whoever attaches a container first empties the document.
THEOREM SingleContainer == Spec => []AtMostOneContainer
<1>1. TypedSingle => AtMostOneContainer
  BY DEF TypedSingle
<1>. QED  BY <1>1, TypedSingleCorrect, PTL

-----------------------------------------------------------------------------
(* The safety of Explainer beyond its types.  The inductive invariant IInv   *)
(* says of each explainer that its fields agree with each other (Sound), of  *)
(* each request for a one-line suggestion that its id was counted and        *)
(* belongs to one subject, and of each attached container that its explainer *)
(* still holds it.                                                           *)

Keyed(m) == \A l \in Lines : m[l] # None => m[l].line = l

\* What the fields of an explainer owe each other.
Sound(x) ==
    /\ x.box # None => x.box.idx + 1 = x.explainerIdx /\ x.boxRange # None
    /\ x.box0 # None \/ x.box1 # None => x.allMode
    /\ x.box2 # None <=> x.box # None /\ x.box.kind = "multi"
    /\ Keyed(x.lineMap) /\ Keyed(x.allMap)
    /\ \A b \in {x.box1, x.box2} \ {None} :
            b.content # None => b.content.line = b.line

\* The ids of requests were counted, and the request made under the id of
\* the container its explainer holds is about what the container is about.
Counted(x, e, reqs) ==
    \A r \in reqs : r.owner = e =>
        /\ r.idx < x.explainerIdx
        /\ x.box # None /\ r.idx = x.box.idx => r.subj = x.box.subj

IInv ==
    /\ TypedSingle
    /\ \A e \in DOMAIN ex : Sound(ex[e]) /\ Counted(ex[e], e, singles)
    /\ NoOrphanContainer

\* None is no subject, entry, box, container, range or code.
LEMMA NoneIsOutside ==
    /\ \A s \in Subjects : s # None
    /\ \A s \in Entries : s # None
    /\ \A s \in HoverBoxes : s # None
    /\ \A s \in Containers : s # None
    /\ \A s \in Ranges : s # None
    /\ \A s \in Codes : s # None
BY NoneAssumption

-----------------------------------------------------------------------------
(* The parts of the handlers keep a record sound.                          *)

\* disposeExplanations preserves what holds of one explainer.
LEMMA DisposeExplanationsSound ==
    ASSUME NEW x \in ExplainerRecords, Sound(x)
    PROVE  Sound(DisposeExplanations(x))
<1>. DEFINE y == DisposeExplanations(x)
<1>1. /\ y.box = None /\ y.box2 = None
      /\ y.box0 = x.box0 /\ y.box1 = x.box1 /\ y.allMode = x.allMode
      /\ y.lineMap = x.lineMap /\ y.allMap = x.allMap
  BY DisposeExplanationsFacts
<1>. HIDE DEF y
<1>2. Sound(y)
  BY <1>1 DEF Sound
<1>. QED  BY <1>2 DEF y

\* So does dispose.
LEMMA DisposeSound ==
    ASSUME NEW x \in ExplainerRecords, Sound(x)
    PROVE  Sound(Dispose(x))
<1>. DEFINE y == Dispose(x)
<1>1. /\ y.box = None /\ y.box2 = None
      /\ y.box0 = x.box0 /\ y.box1 = x.box1 /\ y.allMode = x.allMode
      /\ y.lineMap = x.lineMap /\ y.allMap = x.allMap
  BY DisposeFacts
<1>. HIDE DEF y
<1>2. Sound(y)
  BY <1>1 DEF Sound
<1>. QED  BY <1>2 DEF y

\* So does disposeAllExplainer.
LEMMA DisposeAllSound ==
    ASSUME NEW x \in ExplainerRecords, Sound(x)
    PROVE  Sound(DisposeAllExplainer(x))
<1>. DEFINE y == DisposeAllExplainer(x)
<1>1. /\ y.box0 = None /\ y.box1 = None
      /\ y.box = x.box /\ y.box2 = x.box2
      /\ y.boxRange = x.boxRange /\ y.explainerIdx = x.explainerIdx
      /\ y.lineMap = x.lineMap /\ y.allMap = x.allMap
  BY DisposeAllFacts
<1>. HIDE DEF y
<1>2. Sound(y)
  BY <1>1 DEF Sound
<1>. QED  BY <1>2 DEF y

\* So does the renewal for a new suggestion.
LEMMA RenewedSound ==
    ASSUME NEW x \in ExplainerRecords, Sound(x), ghost \in Codes
    PROVE  Sound(Renewed(x))
<1>. DEFINE y == Renewed(x)
<1>1. /\ y.box0 = None /\ y.box1 = None
      /\ y.box = x.box /\ y.box2 = x.box2
      /\ y.boxRange = x.boxRange /\ y.explainerIdx = x.explainerIdx
      /\ y.lineMap = x.lineMap /\ y.allMap = x.allMap
  BY RenewedFacts
<1>. HIDE DEF y
<1>2. Sound(y)
  BY <1>1 DEF Sound
<1>. QED  BY <1>2 DEF y

\* A new map has at each line the entry of that line.
LEMMA NewMapKeyed ==
    ASSUME NEW s
    PROVE  Keyed(NewMap(s))
BY DEF Keyed, NewMap, Entry

\* Both forms of a created explanation: a one-line one has no hover box.
LEMMA CreatedSound ==
    ASSUME NEW x \in ExplainerRecords, Sound(x), ghost \in Codes, cursor \in Nat
    PROVE  /\ Sound(Created(x, "single"))
           /\ Sound([Created(x, "multi") EXCEPT !.box2 = Placeholder,
                                                !.lineMap = NewMap(Here)])
<1>1. ASSUME NEW kind \in {"single", "multi"}
      PROVE  LET y == Created(x, kind) IN
           /\ y \in ExplainerRecords
           /\ y.box = [idx |-> x.explainerIdx, subj |-> Here, kind |-> kind]
           /\ y.box \in Containers
           /\ y.box2 = None /\ y.boxRange # None
           /\ y.explainerIdx = x.explainerIdx + 1
           /\ y.box0 = None /\ y.box1 = None
           /\ y.lineMap = x.lineMap /\ y.allMap = x.allMap
  <2>1. [idx |-> x.explainerIdx, subj |-> Here, kind |-> kind] \in Containers
    BY CreatedFacts DEF Containers, ExplainerRecords
  <2>. QED  BY <2>1, CreatedFacts
<1>2. x.explainerIdx \in Nat
  BY DEF ExplainerRecords
<1>3. Sound(Created(x, "single"))
  <2>. DEFINE y == Created(x, "single")
  <2>1. /\ y.box = [idx |-> x.explainerIdx, subj |-> Here, kind |-> "single"]
        /\ y.box2 = None /\ y.boxRange # None
        /\ y.explainerIdx = x.explainerIdx + 1
        /\ y.box0 = None /\ y.box1 = None
        /\ y.lineMap = x.lineMap /\ y.allMap = x.allMap
    BY <1>1
  <2>. HIDE DEF y
  <2>2. Sound(y)
    BY <1>2, <2>1 DEF Sound
  <2>. QED  BY <2>2 DEF y
<1>4. Sound([Created(x, "multi") EXCEPT !.box2 = Placeholder,
                                        !.lineMap = NewMap(Here)])
  <2>. DEFINE z == Created(x, "multi")
              y == [z EXCEPT !.box2 = Placeholder, !.lineMap = NewMap(Here)]
  <2>1. /\ z \in ExplainerRecords
        /\ z.box = [idx |-> x.explainerIdx, subj |-> Here, kind |-> "multi"]
        /\ z.box \in Containers
        /\ z.boxRange # None
        /\ z.explainerIdx = x.explainerIdx + 1
        /\ z.box0 = None /\ z.box1 = None /\ z.allMap = x.allMap
    BY <1>1
  <2>. HIDE DEF z
  <2>2. /\ y.box = z.box /\ y.boxRange = z.boxRange
        /\ y.explainerIdx = z.explainerIdx
        /\ y.box0 = None /\ y.box1 = None /\ y.allMap = z.allMap
        /\ y.box2 = Placeholder /\ y.lineMap = NewMap(Here)
    BY <2>1 DEF ExplainerRecords
  <2>3. Placeholder # None /\ Placeholder.content = None
    BY NoneIsOutside DEF Placeholder, HoverBoxes
  <2>4. z.box # None
    BY <2>1, NoneIsOutside
  <2>. HIDE DEF y
  <2>5. Sound(y)
    BY <1>2, <2>1, <2>2, <2>3, <2>4, NewMapKeyed DEF Sound
  <2>. QED  BY <2>5 DEF y, z
<1>. QED  BY <1>3, <1>4

-----------------------------------------------------------------------------
(* The handlers.                                                           *)

\* An explainer whose counter does not go back still counts above the ids it
\* was asked about.
LEMMA CountedKept ==
    ASSUME NEW e, NEW D, NEW reqs \in SUBSET [owner : D, idx : Nat, subj : Subjects],
           NEW x \in ExplainerRecords, NEW y \in ExplainerRecords,
           Counted(x, e, reqs), y.box \in {None, x.box},
           y.explainerIdx \in {x.explainerIdx, x.explainerIdx + 1}
    PROVE  Counted(y, e, reqs)
<1>1. x.explainerIdx \in Nat /\ y.explainerIdx >= x.explainerIdx
  BY DEF ExplainerRecords
<1>2. ASSUME NEW r \in reqs, r.owner = e
      PROVE  /\ r.idx < y.explainerIdx
             /\ y.box # None /\ r.idx = y.box.idx => r.subj = y.box.subj
  <2>1. r.idx \in Nat /\ y.explainerIdx \in Nat
    BY DEF ExplainerRecords
  <2>. QED  BY <1>1, <1>2, <2>1 DEF Counted
<1>. QED  BY <1>2 DEF Counted

\* What it takes for a handler to preserve the invariant.
LEMMA HandlerSafe ==
    ASSUME IInv, TypedSingle', NEW e \in DOMAIN ex, NEW y \in ExplainerRecords,
           ex' = [ex EXCEPT ![e] = y], Sound(y), Counted(y, e, singles'),
           \A r \in singles' : r.owner # e => r \in singles,
           NoOrphanContainer'
    PROVE  IInv'
<1>1. ASSUME NEW f \in DOMAIN ex'
      PROVE  Sound(ex'[f]) /\ Counted(ex'[f], f, singles')
  <2>1. CASE f = e
    BY <2>1
  <2>2. CASE f # e
    <3>1. ex'[f] = ex[f] /\ f \in DOMAIN ex
      BY <2>2
    <3>. QED  BY <2>2, <3>1 DEF IInv, Counted
  <2>. QED  BY <2>1, <2>2
<1>. QED  BY <1>1 DEF IInv

\* A handler that leaves the document alone and keeps or forgets ...
LEMMA HandlerSafeKept ==
    ASSUME IInv, TypedSingle', NEW e \in DOMAIN ex, NEW y \in ExplainerRecords,
           ex' = [ex EXCEPT ![e] = y], Sound(y), UNCHANGED singles,
           y.explainerIdx \in {ex[e].explainerIdx, ex[e].explainerIdx + 1},
           \/ y.box = ex[e].box /\ doc' \in {doc, << >>}
           \/ y.box = None /\ doc' = << >>
    PROVE  IInv'
<1>1. ex[e] \in ExplainerRecords /\ singles \subseteq SingleType
  BY DEF IInv, TypedSingle, TypeOK, SingleType
<1>2. Counted(y, e, singles')
  <2>1. Counted(ex[e], e, singles)
    BY DEF IInv
  <2>. QED  BY <1>1, <2>1, CountedKept DEF SingleType
<1>3. NoOrphanContainer'
  <2>1. CASE doc' = << >>
    BY <2>1 DEF NoOrphanContainer
  <2>2. CASE doc' = doc /\ y.box = ex[e].box
    <3>1. \A f \in DOMAIN ex : ex'[f].box = ex[f].box
      BY <2>2
    <3>2. \A k \in DOMAIN doc : doc[k].owner \in DOMAIN ex
      BY DEF IInv, TypedSingle, TypeOK
    <3>. QED  BY <2>2, <3>1, <3>2 DEF IInv, NoOrphanContainer
  <2>. QED  BY <2>1, <2>2
<1>. QED  BY <1>2, <1>3, HandlerSafe

\* Every way a suggestion change is handled preserves the invariant.
LEMMA GhostSafe ==
    ASSUME IInv, TypedSingle', NEW e \in DOMAIN ex,
           GhostSingle(e) \/ GhostMulti(e)
    PROVE  IInv'
<1>. DEFINE x == ex[e]
            y == ex'[e]
            req == [owner |-> e, idx |-> x.explainerIdx, subj |-> Here]
<1>1. /\ x \in ExplainerRecords /\ Sound(x) /\ Counted(x, e, singles)
      /\ x.explainerIdx \in Nat
      /\ ex \in [0 .. idOfExplainer - 1 -> ExplainerRecords]
      /\ singles \subseteq SingleType
  BY DEF IInv, TypedSingle, TypeOK, ExplainerRecords, SingleType
<1>2. ghost \in Codes /\ cursor \in Nat
  BY DEF GhostSingle, GhostMulti, NewGhost, IInv, TypedSingle, TypeOK
<1>3. PICK kind \in {"single", "multi"} :
        /\ y.box = [idx |-> x.explainerIdx, subj |-> Here, kind |-> kind]
        /\ y.explainerIdx = x.explainerIdx + 1
        /\ y \in ExplainerRecords /\ Sound(y)
        /\ ex' = [ex EXCEPT ![e] = y]
  <2>1. CASE GhostSingle(e)
    <3>1. ex' = [ex EXCEPT ![e] = Created(x, "single")]
      BY <2>1 DEF GhostSingle
    <3>. DEFINE w == Created(x, "single")
    <3>2. y = w
      BY <3>1
    <3>3. /\ w \in ExplainerRecords
          /\ w.explainerIdx = x.explainerIdx + 1
          /\ w.box = [idx |-> x.explainerIdx, subj |-> Here, kind |-> "single"]
      BY <1>1, <1>2, CreatedFacts
    <3>4. Sound(w)
      BY <1>1, <1>2, CreatedSound
    <3>. HIDE DEF w
    <3>. QED  BY <3>1, <3>2, <3>3, <3>4
  <2>2. CASE GhostMulti(e)
    <3>. DEFINE w == Created(x, "multi")
                z == [w EXCEPT !.box2 = Placeholder,
                               !.lineMap = NewMap(Here)]
    <3>1. ex' = [ex EXCEPT ![e] = z]
      BY <2>2 DEF GhostMulti
    <3>2. /\ w \in ExplainerRecords /\ Here \in Subjects
          /\ w.explainerIdx = x.explainerIdx + 1
          /\ w.box = [idx |-> x.explainerIdx, subj |-> Here, kind |-> "multi"]
      BY <1>1, <1>2, CreatedFacts
    <3>3. Sound(z)
      BY <1>1, <1>2, CreatedSound
    <3>. HIDE DEF w
    <3>4. Placeholder \in HoverBoxes
      BY DEF Placeholder, HoverBoxes
    <3>5. /\ z \in ExplainerRecords /\ z.box = w.box
          /\ z.explainerIdx = w.explainerIdx
      BY <3>2, <3>4, NewMapType DEF ExplainerRecords
    <3>. HIDE DEF z
    <3>6. y = z
      BY <3>1
    <3>. QED  BY <3>1, <3>2, <3>3, <3>5, <3>6
  <2>. QED  BY <2>1, <2>2
<1>4. singles' \in {singles, singles \cup {req}}
  BY DEF GhostSingle, GhostMulti
<1>5. Counted(y, e, singles')
  <2>1. ASSUME NEW r \in singles, r.owner = e
        PROVE  r.idx < y.explainerIdx /\ r.idx # y.box.idx
    <3>1. r.idx \in Nat /\ r.idx < x.explainerIdx
      BY <1>1, <2>1 DEF Counted, SingleType
    <3>. QED  BY <1>1, <1>3, <3>1
  <2>2. req.idx < y.explainerIdx /\ req.subj = y.box.subj
    BY <1>1, <1>3
  <2>. HIDE DEF x, y, req
  <2>. QED  BY <1>4, <2>1, <2>2 DEF Counted
<1>6. NoOrphanContainer'
  <2>1. doc' = <<NewElement(e)>>
    BY <1>2, AttachedOne DEF GhostSingle, GhostMulti, IInv
  <2>2. DOMAIN doc' = {1} /\ doc'[1] = NewElement(e)
    BY <2>1
  <2>3. doc'[1].owner = e /\ doc'[1].idx = x.explainerIdx /\ doc'[1].subj = Here
    BY <2>2 DEF NewElement
  <2>4. y.box # None
    <3>1. y.box \in Containers
      BY <1>1, <1>2, <1>3
         DEF Containers, Here, Subjects, Texts
    <3>. QED  BY <3>1, NoneIsOutside
  <2>. QED  BY <1>3, <2>2, <2>3, <2>4 DEF NoOrphanContainer
<1>7. \A r \in singles' : r.owner # e => r \in singles
  BY <1>4
<1>. HIDE DEF y
<1>. QED  BY <1>3, <1>5, <1>6, <1>7, HandlerSafe

\* So does every other handler.
LEMMA HandlersSafe ==
    ASSUME IInv, TypedSingle', NEW e \in DOMAIN ex, Handler(e)
    PROVE  IInv'
<1>. USE DEF requestVars
<1>. DEFINE x == ex[e]
<1>1. /\ x \in ExplainerRecords /\ Sound(x) /\ Counted(x, e, singles)
      /\ doc \in Seq(Elements) /\ Len(doc) <= 1
  BY DEF IInv, TypedSingle, TypeOK, AtMostOneContainer
<1>2. ex = [ex EXCEPT ![e] = ex[e]]
  BY DEF IInv, TypedSingle, TypeOK
<1>3. \A z : DetachExplanations(doc, e, z) = << >>
  BY <1>1, DetachExplanationsEmpties
<1>4. CASE NotListening(e) \/ GhostSame(e)
  BY <1>1, <1>2, <1>4, HandlerSafeKept DEF NotListening, GhostSame
<1>5. CASE GhostBlank(e) \/ KeyUp(e)
  <2>. DEFINE y == DisposeExplanations(x)
  <2>1. /\ y \in ExplainerRecords /\ Sound(y) /\ y.box = None
        /\ y.explainerIdx = x.explainerIdx + 1
    BY <1>1, DisposeExplanationsFacts, DisposeExplanationsSound
  <2>2. /\ ex' = [ex EXCEPT ![e] = y] /\ doc' = << >> /\ UNCHANGED singles
    BY <1>3, <1>5 DEF GhostBlank, KeyUp
  <2>. HIDE DEF y
  <2>. QED  BY <2>1, <2>2, HandlerSafeKept
<1>6. CASE GhostComment(e)
  <2>. DEFINE y == Renewed(x)
  <2>1. ghost \in Codes
    BY <1>6 DEF GhostComment, NewGhost, IInv, TypedSingle, TypeOK
  <2>2. /\ y \in ExplainerRecords /\ Sound(y) /\ y.box = x.box
        /\ y.explainerIdx = x.explainerIdx
    BY <1>1, <2>1, RenewedFacts, RenewedSound
  <2>3. /\ ex' = [ex EXCEPT ![e] = y] /\ doc' = doc /\ UNCHANGED singles
    BY <1>6 DEF GhostComment
  <2>. HIDE DEF y
  <2>. QED  BY <2>2, <2>3, HandlerSafeKept
<1>7. CASE GhostSingle(e) \/ GhostMulti(e)
  BY <1>7, GhostSafe
<1>8. CASE KeyDown(e) \/ MouseDown(e)
  <2>. DEFINE w == DisposeAllExplainer(x)
              y == DisposeExplanations(w)
  <2>1. /\ w \in ExplainerRecords /\ Sound(w) /\ w.box = x.box
        /\ w.explainerIdx = x.explainerIdx
    BY <1>1, DisposeAllFacts, DisposeAllSound
  <2>2. PICK leave \in BOOLEAN :
          /\ ex' = [ex EXCEPT ![e] = IF leave THEN y ELSE w]
          /\ doc' = IF leave THEN DetachExplanations(doc, e, w) ELSE doc
    BY <1>8 DEF KeyDown, MouseDown, LeaveOverview
  <2>3. UNCHANGED singles
    BY <1>8 DEF KeyDown, MouseDown, LeaveOverview
  <2>. HIDE DEF w
  <2>4. /\ y \in ExplainerRecords /\ Sound(y) /\ y.box = None
        /\ y.explainerIdx = w.explainerIdx + 1
    BY <2>1, DisposeExplanationsFacts, DisposeExplanationsSound
  <2>. HIDE DEF y
  <2>5. CASE leave
    <3>1. ex' = [ex EXCEPT ![e] = y] /\ doc' = << >>
      BY <1>3, <2>2, <2>5
    <3>. QED  BY <2>1, <2>3, <2>4, <3>1, HandlerSafeKept
  <2>6. CASE ~leave
    <3>1. ex' = [ex EXCEPT ![e] = w] /\ doc' = doc
      BY <2>2, <2>6
    <3>. QED  BY <2>1, <2>3, <3>1, HandlerSafeKept
  <2>. QED  BY <2>5, <2>6
<1>9. CASE MouseMove(e)
  <2>. DEFINE l == dispatch.line
              w == Ranged(x)
              map == IF w.allMode THEN w.allMap ELSE w.lineMap
              hover == [line |-> l, content |-> map[l]]
              z == Hovered(w, l)
  <2>1. l \in Lines /\ l \in Int /\ LineCount(buffer) \in Nat
    BY <1>9, BoundsAssumption, TextFacts
       DEF MouseMove, Turn, IInv, TypedSingle, TypeOK, Lines, Texts
  <2>2. /\ w \in ExplainerRecords /\ Sound(w) /\ w.box = x.box
        /\ w.explainerIdx = x.explainerIdx
        /\ w.box1 = x.box1 /\ w.box2 = x.box2 /\ w.allMode = x.allMode
    <3>1. <<1, LineCount(buffer)>> \in Ranges
      BY <2>1 DEF Ranges
    <3>2. <<1, LineCount(buffer)>> # None
      BY <3>1, NoneIsOutside
    <3>3. /\ w \in ExplainerRecords /\ w.box = x.box
          /\ w.explainerIdx = x.explainerIdx
          /\ w.box0 = x.box0 /\ w.box1 = x.box1 /\ w.box2 = x.box2
          /\ w.allMode = x.allMode
          /\ w.lineMap = x.lineMap /\ w.allMap = x.allMap
          /\ w.boxRange = x.boxRange \/ w.boxRange # None
      BY <1>1, <3>1, <3>2 DEF Ranged, ExplainerRecords
    <3>. HIDE DEF w
    <3>4. Sound(w)
      BY <1>1, <3>3 DEF Sound
    <3>. QED  BY <3>3, <3>4
  <2>3. ex' \in {ex, [ex EXCEPT ![e] = w], [ex EXCEPT ![e] = z]}
    BY <1>2, <1>9 DEF MouseMove
  <2>4. HoverReady(x) \/ ex' = ex
    BY <1>2, <1>9 DEF MouseMove
  <2>5. UNCHANGED singles /\ doc' = doc
    BY <1>9 DEF MouseMove
  <2>6. z = IF w.allMode THEN [w EXCEPT !.lastHovered = l, !.box1 = hover]
                         ELSE [w EXCEPT !.lastHovered = l, !.box2 = hover]
    BY DEF Hovered
  <2>. HIDE DEF w, l
  <2>7. Keyed(w.allMap) /\ Keyed(w.lineMap)
    BY <2>2 DEF Sound
  <2>8. hover.content # None => hover.content.line = hover.line
    BY <2>1, <2>7 DEF Keyed
  <2>9. map \in [Lines -> Entries \cup {None}]
    BY <2>2 DEF ExplainerRecords, Maps
  <2>10. hover \in HoverBoxes
    <3>1. l \in Nat
      BY <2>1, BoundsAssumption DEF Lines
    <3>. HIDE DEF map
    <3>. QED  BY <2>1, <2>9, <3>1 DEF HoverBoxes
  <2>11. hover # None
    BY <2>10, NoneIsOutside
  <2>. HIDE DEF hover, z, map
  <2>12. ASSUME HoverReady(x)
         PROVE  /\ z \in ExplainerRecords /\ Sound(z) /\ z.box = w.box
                /\ z.explainerIdx = w.explainerIdx
    <3>1. CASE w.allMode
      <4>1. z = [w EXCEPT !.lastHovered = l, !.box1 = hover]
        BY <2>6, <3>1
      <4>2. /\ z \in ExplainerRecords
            /\ z.box = w.box /\ z.explainerIdx = w.explainerIdx
            /\ z.boxRange = w.boxRange
            /\ z.box0 = w.box0 /\ z.box1 = hover /\ z.box2 = w.box2
            /\ z.allMode = w.allMode
            /\ z.lineMap = w.lineMap /\ z.allMap = w.allMap
        BY <2>1, <2>2, <2>10, <4>1 DEF ExplainerRecords
      <4>3. Sound(z)
        BY <2>2, <2>8, <3>1, <4>2 DEF Sound
      <4>. QED  BY <4>2, <4>3
    <3>2. CASE ~w.allMode
      <4>1. z = [w EXCEPT !.lastHovered = l, !.box2 = hover]
        BY <2>6, <3>2
      <4>2. /\ z \in ExplainerRecords
            /\ z.box = w.box /\ z.explainerIdx = w.explainerIdx
            /\ z.boxRange = w.boxRange
            /\ z.box0 = w.box0 /\ z.box1 = w.box1 /\ z.box2 = hover
            /\ z.allMode = w.allMode
            /\ z.lineMap = w.lineMap /\ z.allMap = w.allMap
        BY <2>1, <2>2, <2>10, <4>1 DEF ExplainerRecords
      <4>3. w.box2 # None
        BY <2>2, <2>12, <3>2 DEF HoverReady
      <4>4. Sound(z)
        BY <2>2, <2>8, <2>11, <4>2, <4>3 DEF Sound
      <4>. QED  BY <4>2, <4>4
    <3>. QED  BY <3>1, <3>2
  <2>13. CASE ex' = ex
    BY <1>1, <1>2, <2>5, <2>13, HandlerSafeKept
  <2>14. CASE ex' = [ex EXCEPT ![e] = w]
    BY <2>2, <2>5, <2>14, HandlerSafeKept
  <2>15. CASE ex' = [ex EXCEPT ![e] = z] /\ HoverReady(x)
    BY <2>2, <2>5, <2>12, <2>15, HandlerSafeKept
  <2>. QED  BY <2>3, <2>4, <2>13, <2>14, <2>15
<1>10. CASE GenerateAll(e)
  <2>. DEFINE s == [text |-> buffer, at |-> 1]
              y == [x EXCEPT !.allMode = TRUE, !.allMap = NewMap(s),
                          !.boxRange = <<1, LineCount(buffer)>>,
                          !.box0 = s, !.box1 = Placeholder]
  <2>1. s \in Subjects /\ LineCount(buffer) \in Nat
    BY TextFacts DEF Subjects, Texts, IInv, TypedSingle, TypeOK
  <2>2. /\ NewMap(s) \in Maps /\ Placeholder \in HoverBoxes
        /\ <<1, LineCount(buffer)>> \in Ranges
    BY <2>1, NewMapType DEF Placeholder, HoverBoxes, Ranges
  <2>3. /\ ex' = [ex EXCEPT ![e] = y] /\ doc' = doc /\ UNCHANGED singles
    BY <1>10 DEF GenerateAll
  <2>. HIDE DEF s
  <2>4. /\ y \in ExplainerRecords /\ y.box = x.box
        /\ y.explainerIdx = x.explainerIdx
        /\ y.allMode = TRUE /\ y.allMap = NewMap(s)
        /\ y.boxRange = <<1, LineCount(buffer)>>
        /\ y.box1 = Placeholder /\ y.box2 = x.box2
        /\ y.lineMap = x.lineMap
    BY <1>1, <2>1, <2>2 DEF ExplainerRecords
  <2>5. Placeholder.content = None /\ y.boxRange # None
    BY <2>2, <2>4, NoneIsOutside DEF Placeholder
  <2>. HIDE DEF y
  <2>6. Sound(y)
    BY <1>1, <2>4, <2>5, NewMapKeyed DEF Sound
  <2>. QED  BY <2>3, <2>4, <2>6, HandlerSafeKept
<1>11. CASE DisposeEditor(e)
  <2>. DEFINE y == Dispose(x)
  <2>1. /\ y \in ExplainerRecords /\ Sound(y) /\ y.box = None
        /\ y.explainerIdx = x.explainerIdx + 1
    BY <1>1, DisposeFacts, DisposeSound
  <2>2. /\ ex' = [ex EXCEPT ![e] = y] /\ doc' = Detach(doc, e, x.box)
        /\ UNCHANGED singles
    BY <1>11 DEF DisposeEditor
  <2>. HIDE DEF y
  <2>3. CASE doc' = << >>
    BY <2>1, <2>2, <2>3, HandlerSafeKept
  <2>4. CASE doc' = doc /\ doc # << >>
    <3>1. Len(doc) = 1 /\ DOMAIN doc = {1} /\ doc[1].owner \in DOMAIN ex
      <4>1. Len(doc) \in Nat /\ Len(doc) # 0
        BY <1>1, <2>4, EmptySeq
      <4>2. \A n \in Nat : n <= 1 /\ n # 0 => n = 1
        OBVIOUS
      <4>3. Len(doc) <= 1
        BY <1>1
      <4>4. Len(doc) = 1
        BY <4>1, <4>2, <4>3
      <4>5. DOMAIN doc = 1 .. Len(doc)
        BY <1>1
      <4>. QED  BY <4>4, <4>5 DEF IInv, TypedSingle, TypeOK
    <3>2. doc[1].owner # e
      <4>1. SUFFICES ASSUME doc[1].owner = e PROVE FALSE
        OBVIOUS
      <4>2. x.box # None /\ x.box.idx = doc[1].idx
        BY <3>1, <4>1 DEF IInv, NoOrphanContainer
      <4>. QED  BY <1>1, <2>2, <2>4, <3>1, <4>1, <4>2, DetachOne
    <3>3. NoOrphanContainer'
      BY <2>2, <2>4, <3>1, <3>2 DEF IInv, NoOrphanContainer
    <3>4. Counted(y, e, singles')
      <4>1. singles \subseteq SingleType
        BY DEF IInv, TypedSingle, TypeOK, SingleType
      <4>. QED  BY <1>1, <2>1, <2>2, <4>1, CountedKept DEF SingleType
    <3>. QED  BY <2>1, <2>2, <3>3, <3>4, HandlerSafe
  <2>5. Detach(doc, e, x.box) \in {doc, << >>}
    BY <1>1, DetachOne
  <2>. QED  BY <2>2, <2>3, <2>4, <2>5
<1>. QED  BY <1>4, <1>5, <1>6, <1>7, <1>8, <1>9, <1>10, <1>11 DEF Handler

-----------------------------------------------------------------------------
(* The events of the editor and the answers.                               *)

\* So does every event.
LEMMA EventsSafe ==
    ASSUME IInv, TypedSingle', EditorEvent
    PROVE  IInv'
<1>. USE DEF requestVars
<1>1. CASE AddExplainer
  <2>1. /\ ex \in [0 .. idOfExplainer - 1 -> ExplainerRecords]
        /\ idOfExplainer \in Nat
        /\ singles \subseteq SingleType
        /\ \A k \in DOMAIN doc : doc[k].owner \in DOMAIN ex
    BY DEF IInv, TypedSingle, TypeOK, SingleType
  <2>2. /\ DOMAIN ex' = 0 .. idOfExplainer
        /\ ex'[idOfExplainer] = NewExplainer
        /\ \A e \in DOMAIN ex : ex'[e] = ex[e]
    BY <1>1, <2>1 DEF AddExplainer
  <2>3. UNCHANGED <<doc, singles>>
    BY <1>1 DEF AddExplainer
  <2>4. Sound(NewExplainer)
    BY DEF Sound, NewExplainer, EmptyMap, Keyed
  <2>5. Counted(NewExplainer, idOfExplainer, singles)
    BY <2>1 DEF Counted, SingleType
  <2>6. \A e \in DOMAIN ex' : Sound(ex'[e]) /\ Counted(ex'[e], e, singles')
    <3>1. \A e \in DOMAIN ex' : e = idOfExplainer \/ e \in DOMAIN ex
      BY <2>1, <2>2
    <3>. QED  BY <2>2, <2>3, <2>4, <2>5, <3>1 DEF IInv
  <2>7. NoOrphanContainer'
    BY <2>1, <2>2, <2>3 DEF IInv, NoOrphanContainer
  <2>. QED  BY <2>6, <2>7 DEF IInv
<1>2. CASE SwapModel
  <2>1. /\ DOMAIN ex' = DOMAIN ex
        /\ \A e \in DOMAIN ex : ex'[e] = [ex[e] EXCEPT !.listening = FALSE]
        /\ UNCHANGED <<doc, singles>>
    BY <1>2 DEF SwapModel
  <2>2. ASSUME NEW e \in DOMAIN ex
        PROVE  Sound(ex'[e]) /\ Counted(ex'[e], e, singles') /\ ex'[e].box = ex[e].box
    <3>. DEFINE x == ex[e]
                y == ex'[e]
    <3>1. x \in ExplainerRecords /\ Sound(x) /\ Counted(x, e, singles)
      BY DEF IInv, TypedSingle, TypeOK
    <3>2. y = [x EXCEPT !.listening = FALSE]
      BY <2>1
    <3>. HIDE DEF x, y
    <3>3. /\ y.box = x.box /\ y.box0 = x.box0 /\ y.box1 = x.box1
          /\ y.box2 = x.box2 /\ y.boxRange = x.boxRange
          /\ y.explainerIdx = x.explainerIdx /\ y.allMode = x.allMode
          /\ y.lineMap = x.lineMap /\ y.allMap = x.allMap
      BY <3>1, <3>2 DEF ExplainerRecords
    <3>4. Sound(y)
      BY <3>1, <3>3 DEF Sound
    <3>5. Counted(y, e, singles)
      BY <3>1, <3>3 DEF Counted
    <3>. QED  BY <2>1, <3>3, <3>4, <3>5 DEF x, y
  <2>3. NoOrphanContainer'
    <3>1. \A k \in DOMAIN doc : doc[k].owner \in DOMAIN ex
      BY DEF IInv, TypedSingle, TypeOK
    <3>. QED  BY <2>1, <2>2, <3>1 DEF IInv, NoOrphanContainer
  <2>. QED  BY <2>1, <2>2, <2>3 DEF IInv
<1>3. CASE UNCHANGED <<ex, doc, singles>>
  BY <1>3 DEF IInv, NoOrphanContainer
<1>. QED  BY <1>1, <1>2, <1>3
          DEF EditorEvent, SuggestionChanges, Edit, KeyDownEvent, KeyUpEvent,
              MouseDownEvent, MouseMoveEvent, EditorDisposed

\* So does every answer.
LEMMA AnswersSafe ==
    ASSUME IInv, TypedSingle', Answer
    PROVE  IInv'
<1>1. ASSUME NEW r \in singles, NEW out \in Outcomes, SingleAnswer(r, out)
      PROVE  IInv'
  <2>. DEFINE k == Target(r.idx)
              a == [by |-> r.owner, subj |-> r.subj]
              c == [doc[k] EXCEPT !.drawn = @ \cup {a}]
  <2>1. doc' \in {doc, [doc EXCEPT ![k] = c]}
    BY <1>1 DEF SingleAnswer
  <2>2. ex' = ex /\ singles' \subseteq singles
    BY <1>1 DEF SingleAnswer
  <2>3. \A e \in DOMAIN ex' : Sound(ex'[e]) /\ Counted(ex'[e], e, singles')
    BY <2>2 DEF IInv, Counted
  <2>4. doc \in Seq(Elements)
    BY DEF IInv, TypedSingle, TypeOK
  <2>. HIDE DEF k
  <2>5. /\ DOMAIN doc' = DOMAIN doc
        /\ \A j \in DOMAIN doc : /\ doc'[j].owner = doc[j].owner
                                 /\ doc'[j].idx = doc[j].idx
                                 /\ doc'[j].subj = doc[j].subj
    <3>1. CASE doc' = doc
      BY <3>1
    <3>2. CASE doc' = [doc EXCEPT ![k] = c]
      <4>1. k \in DOMAIN doc => doc[k] \in Elements
        BY <2>4
      <4>2. k \in DOMAIN doc => /\ c.owner = doc[k].owner
                                /\ c.idx = doc[k].idx /\ c.subj = doc[k].subj
        BY <4>1 DEF Elements
      <4>. HIDE DEF c
      <4>3. /\ DOMAIN doc' = DOMAIN doc
            /\ \A j \in DOMAIN doc : doc'[j] = IF j = k THEN c ELSE doc[j]
        BY <2>4, <3>2
      <4>. QED  BY <4>2, <4>3
    <3>. QED  BY <2>1, <3>1, <3>2
  <2>6. NoOrphanContainer'
    BY <2>2, <2>5 DEF IInv, NoOrphanContainer
  <2>. QED  BY <2>3, <2>6 DEF IInv
<1>2. ASSUME NEW r \in fetches, NEW out \in Outcomes, LineAnswer(r, out)
      PROVE  IInv'
  <2>. DEFINE v == Entry(r.subj, r.line, out)
              x == ex[r.owner]
  <2>1. /\ r.owner \in DOMAIN ex /\ x \in ExplainerRecords
        /\ x.lineMap \in Maps /\ x.allMap \in Maps
        /\ Sound(x) /\ Counted(x, r.owner, singles)
    BY <1>2 DEF IInv, TypedSingle, TypeOK, ExplainerRecords
  <2>2. v.line = r.line
    BY DEF Entry
  <2>3. ASSUME NEW m \in Maps, Keyed(m)
        PROVE  Keyed([m EXCEPT ![r.line] = v])
    BY <2>2, <2>3 DEF Keyed, Maps
  <2>. DEFINE newLine == [x.lineMap EXCEPT ![r.line] = v]
              newAll == [x.allMap EXCEPT ![r.line] = v]
  <2>4. Keyed(newLine) /\ Keyed(newAll)
    BY <2>1, <2>3 DEF Sound
  <2>5. ex' \in {ex, [ex EXCEPT ![r.owner] = [x EXCEPT !.lineMap = newLine]],
                     [ex EXCEPT ![r.owner] = [x EXCEPT !.allMap = newAll]]}
    BY <1>2 DEF LineAnswer, LineKey
  <2>6. UNCHANGED <<doc, singles>>
    BY <1>2 DEF LineAnswer
  <2>. HIDE DEF newLine, newAll
  <2>7. PICK y : /\ ex' = [ex EXCEPT ![r.owner] = y]
                 /\ y \in {x, [x EXCEPT !.lineMap = newLine],
                              [x EXCEPT !.allMap = newAll]}
    <3>1. ex = [ex EXCEPT ![r.owner] = x]
      BY DEF IInv, TypedSingle, TypeOK
    <3>. QED  BY <2>5, <3>1
  <2>. HIDE DEF x
  <2>8. /\ y.box = x.box /\ y.box0 = x.box0 /\ y.box1 = x.box1
        /\ y.box2 = x.box2 /\ y.boxRange = x.boxRange
        /\ y.explainerIdx = x.explainerIdx /\ y.allMode = x.allMode
        /\ y.lineMap \in {x.lineMap, newLine}
        /\ y.allMap \in {x.allMap, newAll}
    BY <2>1, <2>7 DEF ExplainerRecords
  <2>9. Sound(y)
    BY <2>1, <2>4, <2>8 DEF Sound
  <2>10. Counted(y, r.owner, singles)
    BY <2>1, <2>8 DEF Counted
  <2>11. DOMAIN ex' = DOMAIN ex /\ \A e \in DOMAIN ex : ex'[e].box = ex[e].box
    BY <2>1, <2>7, <2>8 DEF x
  <2>12. NoOrphanContainer'
    <3>1. \A j \in DOMAIN doc : doc[j].owner \in DOMAIN ex
      BY DEF IInv, TypedSingle, TypeOK
    <3>. QED  BY <2>6, <2>11, <3>1 DEF IInv, NoOrphanContainer
  <2>13. \A e \in DOMAIN ex' : Sound(ex'[e]) /\ Counted(ex'[e], e, singles')
    BY <2>1, <2>6, <2>7, <2>9, <2>10, <2>11 DEF IInv
  <2>. QED  BY <2>12, <2>13 DEF IInv
<1>. QED  BY <1>1, <1>2 DEF Answer

\* The invariant holds at the start.
LEMMA InitSafe ==
    ASSUME Init
    PROVE  IInv
<1>1. DOMAIN ex = {} /\ DOMAIN doc = {}
  BY DEF Init
<1>. QED  BY <1>1, InitTypes DEF IInv, NoOrphanContainer

\* Every step preserves the invariant.
LEMMA NextSafe == IInv /\ [Next]_vars => IInv'
<1>1. ASSUME IInv, [Next]_vars PROVE TypedSingle'
  BY <1>1, NextKeepsTypes DEF IInv
<1>2. ASSUME IInv, UNCHANGED vars PROVE IInv'
  BY <1>1, <1>2 DEF IInv, NoOrphanContainer, vars, requestVars
<1>3. ASSUME IInv, Next PROVE IInv'
  BY <1>1, <1>3, HandlersSafe, EventsSafe, AnswersSafe DEF Next
<1>. QED  BY <1>2, <1>3

\* The invariant holds of every behaviour.
LEMMA InvariantHolds == Spec => []IInv
<1>. QED  BY InitSafe, NextSafe, PTL DEF Spec

-----------------------------------------------------------------------------
(* The theorems. *)

\* No container is left attached that its explainer has forgotten, for any
\* number of explainers: every one on display can still be removed.
THEOREM NoOrphan == Spec => []NoOrphanContainer
<1>1. IInv => NoOrphanContainer
  BY DEF IInv
<1>. QED  BY <1>1, InvariantHolds, PTL

\* An explainer never gives a container id twice.
THEOREM IdsFresh == Spec => []IdsNeverReused
<1>1. IInv => IdsNeverReused
  BY DEF IInv, IdsNeverReused, Sound, Counted, TypedSingle, TypeOK
<1>. QED  BY <1>1, InvariantHolds, PTL

\* The overview and its hover box exist in all-lines mode only.
THEOREM ModesApart == Spec => []OverviewOnlyInAllMode
<1>1. IInv => OverviewOnlyInAllMode
  BY DEF IInv, OverviewOnlyInAllMode, Sound
<1>. QED  BY <1>1, InvariantHolds, PTL

\* The per-line hover box comes and goes with a container of several lines.
THEOREM HoverBoxLife == Spec => []HoverBoxWithMulti
<1>1. IInv => HoverBoxWithMulti
  BY DEF IInv, HoverBoxWithMulti, Sound
<1>. QED  BY <1>1, InvariantHolds, PTL

\* A held explanation always has the range that decides when to leave it.
THEOREM RangeDefined == Spec => []ContainerHasRange
<1>1. IInv => ContainerHasRange
  BY DEF IInv, ContainerHasRange, Sound
<1>. QED  BY <1>1, InvariantHolds, PTL

\* An answer for a line is only ever kept, and shown, at that line.
THEOREM KeyedByLine == Spec => []LinesKeyedByLine
<1>1. IInv => LinesKeyedByLine
  BY DEF IInv, LinesKeyedByLine, Sound, Keyed
<1>. QED  BY <1>1, InvariantHolds, PTL

-----------------------------------------------------------------------------
(* What an explainer draws in its own container is about its suggestion.   *)

\* If the document holds a container, it is the first.
LEMMA DocAtMostOne ==
    ASSUME TypedSingle
    PROVE  \A k \in DOMAIN doc : k = 1 /\ DOMAIN doc = {1}
<1>1. doc \in Seq(Elements) /\ Len(doc) <= 1
  BY DEF TypedSingle, TypeOK, AtMostOneContainer
<1>2. Len(doc) \in Nat /\ DOMAIN doc = 1 .. Len(doc)
  BY <1>1
<1>3. \A n \in Nat : n <= 1 => \A k \in 1 .. n : k = 1 /\ 1 .. n = {1}
  OBVIOUS
<1>. QED  BY <1>1, <1>2, <1>3

\* The container an answer is drawn in is one with the id it was asked for.
LEMMA TargetFacts ==
    ASSUME TypedSingle, NEW i, Target(i) # 0
    PROVE  Target(i) \in DOMAIN doc /\ doc[Target(i)].idx = i
<1>1. PICK k \in DOMAIN doc : doc[k].idx = i
  BY DEF Target
<1>2. k = 1 /\ DOMAIN doc = {1}
  BY DocAtMostOne
<1>3. \A j \in 1 .. k - 1 : doc[j].idx # i
  BY <1>2
<1>. QED  BY <1>1, <1>3 DEF Target

\* An answer that comes to a container of the explainer that asked is about
\* the suggestion of that container.
LEMMA AnswerDrawnFresh ==
    ASSUME IInv, OwnAnswersFresh,
           NEW r \in singles, NEW out \in Outcomes, SingleAnswer(r, out)
    PROVE  OwnAnswersFresh'
<1>. DEFINE k == Target(r.idx)
            a == [by |-> r.owner, subj |-> r.subj]
            c == [doc[k] EXCEPT !.drawn = @ \cup {a}]
<1>1. CASE doc' = doc
  BY <1>1 DEF OwnAnswersFresh
<1>2. CASE doc' = [doc EXCEPT ![k] = c] /\ k # 0
  <2>1. k \in DOMAIN doc /\ doc[k].idx = r.idx
    BY <1>2, TargetFacts DEF IInv
  <2>2. /\ doc[k] \in Elements /\ doc[k].owner \in DOMAIN ex
        /\ r.owner \in DOMAIN ex
    BY <2>1 DEF IInv, TypedSingle, TypeOK
  <2>3. a.by = doc[k].owner => a.subj = doc[k].subj
    <3>1. SUFFICES ASSUME r.owner = doc[k].owner PROVE r.subj = doc[k].subj
      OBVIOUS
    <3>. DEFINE b == ex[r.owner].box
    <3>2. b # None /\ b.idx = r.idx /\ b.subj = doc[k].subj
      BY <2>1, <3>1 DEF IInv, NoOrphanContainer
    <3>3. Counted(ex[r.owner], r.owner, singles)
      BY <2>2 DEF IInv
    <3>. QED  BY <3>2, <3>3 DEF Counted
  <2>. HIDE DEF k, a
  <2>4. \A z \in doc[k].drawn : z.by = doc[k].owner => z.subj = doc[k].subj
    BY <2>1 DEF OwnAnswersFresh
  <2>5. \A z \in c.drawn : z.by = c.owner => z.subj = c.subj
    BY <2>2, <2>3, <2>4 DEF Elements
  <2>. HIDE DEF c
  <2>6. /\ DOMAIN doc' = DOMAIN doc
        /\ \A j \in DOMAIN doc : doc'[j] = IF j = k THEN c ELSE doc[j]
    BY <1>2
  <2>. QED  BY <2>5, <2>6 DEF OwnAnswersFresh
<1>. QED  BY <1>1, <1>2 DEF SingleAnswer

\* A handler draws nothing of an earlier answer.
LEMMA HandlerDrawnFresh ==
    ASSUME IInv, OwnAnswersFresh, NEW e \in DOMAIN ex, Handler(e)
    PROVE  OwnAnswersFresh'
<1>. USE DEF requestVars
<1>1. doc \in Seq(Elements) /\ Len(doc) <= 1
  BY DEF IInv, TypedSingle, TypeOK, AtMostOneContainer
<1>2. \A z : DetachExplanations(doc, e, z) = << >>
  BY <1>1, DetachExplanationsEmpties
<1>3. Detach(doc, e, ex[e].box) \in {doc, << >>}
  BY <1>1, DetachOne
<1>4. CASE doc' \in {doc, << >>}
  BY <1>4 DEF OwnAnswersFresh
<1>5. CASE doc' = <<NewElement(e)>>
  <2>1. \A k \in DOMAIN doc' : doc'[k].drawn = {}
    BY <1>5 DEF NewElement
  <2>. QED  BY <2>1 DEF OwnAnswersFresh
<1>6. CASE GhostSingle(e) \/ GhostMulti(e)
  <2>1. ghost \in Codes
    BY <1>6 DEF GhostSingle, GhostMulti, NewGhost, IInv, TypedSingle, TypeOK
  <2>2. doc' = <<NewElement(e)>>
    BY <1>6, <2>1, AttachedOne DEF GhostSingle, GhostMulti, IInv
  <2>. QED  BY <1>5, <2>2
<1>7. CASE ~(GhostSingle(e) \/ GhostMulti(e))
  <2>1. doc' \in {doc, << >>}
    BY <1>2, <1>3, <1>7
       DEF Handler, NotListening, GhostBlank, GhostSame, GhostComment, KeyUp,
           KeyDown, MouseDown, LeaveOverview, MouseMove, GenerateAll,
           DisposeEditor
  <2>. QED  BY <1>4, <2>1
<1>. QED  BY <1>6, <1>7

\* However many explainers share the editor, and whatever they put in each
\* other's place, an explainer draws in its own container only what it asked
\* about that container's suggestion.  (What another explainer draws there may
\* be about another suggestion: run explainer_crossed.)
THEOREM AnswersFresh == Spec => []OwnAnswersFresh
<1>1. Init => OwnAnswersFresh
  BY DEF Init, OwnAnswersFresh
<1>2. ASSUME IInv, OwnAnswersFresh, [Next]_vars
      PROVE  OwnAnswersFresh'
  <2>1. CASE UNCHANGED doc
    BY <1>2, <2>1 DEF OwnAnswersFresh
  <2>2. CASE EditorEvent
    BY <2>1, <2>2
       DEF EditorEvent, AddExplainer, SuggestionChanges, Edit, SwapModel,
           KeyDownEvent, KeyUpEvent, MouseDownEvent, MouseMoveEvent,
           EditorDisposed
  <2>3. CASE \E e \in DOMAIN ex : Handler(e)
    BY <1>2, <2>3, HandlerDrawnFresh
  <2>4. CASE Answer
    BY <1>2, <2>1, <2>4, AnswerDrawnFresh DEF Answer, LineAnswer
  <2>. QED  BY <1>2, <2>1, <2>2, <2>3, <2>4 DEF Next, vars
<1>3. IInv /\ OwnAnswersFresh /\ [Next]_vars => OwnAnswersFresh'
  BY <1>2
<1>. QED  BY <1>1, <1>3, InvariantHolds, PTL DEF Spec

\* The boxes, modes, ranges and the lines they are about agree, for any number
\* of explainers, lines and events.
THEOREM OverlaysAlwaysAgree == Spec => []OverlaysAgree
  BY ModesApart, HoverBoxLife, RangeDefined, KeyedByLine, PTL
     DEF OverlaysAgree

\* There is one explanation at most, and its explainer can remove it.
THEOREM OneHeldContainer == Spec => []OneContainerHeld
  BY SingleContainer, NoOrphan, PTL DEF OneContainerHeld

-----------------------------------------------------------------------------
(* A key that is released, and the end of the editor, leave nothing on     *)
(* display, however many explainers there are.                             *)

Clears == {"keyup", "dispose"}

NothingHeld == \A e \in DOMAIN ex : ex[e].box = None

\* Those that had their turn hold nothing any more; and when the editor is
\* closed its explainers are being told, or have been.
Cleared ==
    /\ dispatch.ev \in Clears =>
        \A e \in DOMAIN ex : e < dispatch.next => ex[e].box = None
    /\ ~open => dispatch.ev = "dispose" \/ (Quiet /\ NothingHeld)

\* What is attached is held.
LEMMA NothingAttached ==
    ASSUME TypeOK, NoOrphanContainer, NothingHeld
    PROVE  doc = << >>
<1>1. \A k \in DOMAIN doc : FALSE
  BY DEF TypeOK, NoOrphanContainer, NothingHeld
<1>2. doc \in Seq(Elements) /\ DOMAIN doc = 1 .. Len(doc) /\ Len(doc) \in Nat
  BY DEF TypeOK
<1>3. Len(doc) = 0
  <2>1. 1 \notin DOMAIN doc
    BY <1>1
  <2>. QED  BY <1>2, <2>1
<1>. QED  BY <1>2, <1>3

\* A turn passes to the next explainer, or was the last.
LEMMA PassFacts ==
    ASSUME TypeOK, NEW e, NEW ev, Turn(ev, e), Pass
    PROVE  /\ e \in DOMAIN ex /\ e \in Nat /\ open' = open
           /\ \/ /\ dispatch' = Idle /\ \A f \in DOMAIN ex : f <= e
              \/ dispatch'.ev = ev /\ dispatch'.next = e + 1
<1>1. /\ DOMAIN ex = 0 .. idOfExplainer - 1 /\ idOfExplainer \in Nat
      /\ e = dispatch.next /\ e \in DOMAIN ex /\ dispatch.ev = ev
      /\ dispatch \in Dispatches /\ open' = open
  BY DEF TypeOK, Turn, Pass, editorVars
<1>2. CASE dispatch.next + 1 < idOfExplainer
  BY <1>1, <1>2 DEF Pass, Dispatches
<1>3. CASE ~(dispatch.next + 1 < idOfExplainer)
  BY <1>1, <1>3 DEF Pass
<1>. QED  BY <1>1, <1>2, <1>3

\* Another event is handled while the editor is open.
LEMMA OtherTurn ==
    ASSUME TypeOK, Cleared, NEW e, NEW ev \in Events \ (Clears \cup {"none"}),
           Turn(ev, e), Pass
    PROVE  Cleared'
<1>1. open' = open /\ dispatch'.ev \in {ev, "none"}
  BY PassFacts DEF Idle
<1>2. open
  BY DEF Cleared, Turn, Clears, Quiet, Idle
<1>. QED  BY <1>1, <1>2 DEF Cleared, Clears

\* An explainer whose turn it is lets go of what it holds.
LEMMA ClearingTurn ==
    ASSUME TypeOK, Cleared, NEW e, NEW ev \in Clears, Turn(ev, e), Pass,
           NEW y, y.box = None, ex' = [ex EXCEPT ![e] = y]
    PROVE  Cleared' /\ (dispatch' = Idle => NothingHeld')
<1>1. /\ e \in DOMAIN ex /\ e \in Nat /\ open' = open
      /\ \/ /\ dispatch' = Idle /\ \A f \in DOMAIN ex : f <= e
         \/ dispatch'.ev = ev /\ dispatch'.next = e + 1
  BY PassFacts
<1>2. dispatch.ev = ev /\ dispatch.next = e /\ DOMAIN ex \subseteq Int
  BY DEF Turn, TypeOK
<1>3. \A f \in DOMAIN ex' : f <= e => ex'[f].box = None
  BY <1>1, <1>2 DEF Cleared
<1>4. ~open => ev = "dispose"
  BY <1>2 DEF Cleared, Quiet, Idle, Clears
<1>5. CASE dispatch' = Idle
  <2>1. NothingHeld'
    BY <1>1, <1>3, <1>5, <1>2 DEF NothingHeld, Idle
  <2>. QED  BY <1>5, <2>1 DEF Cleared, Quiet, Idle, Clears
<1>6. CASE dispatch' # Idle
  BY <1>1, <1>2, <1>3, <1>4, <1>6 DEF Cleared
<1>. QED  BY <1>5, <1>6

\* An event begins while the editor is open and no other is being told.
LEMMA OpenAndQuiet ==
    ASSUME EditorEvent \/ \E e \in DOMAIN ex : GenerateAll(e)
    PROVE  open /\ Quiet
<1>1. ASSUME NEW ev, NEW line, NEW where, Raise(ev, line, where)
      PROVE  open /\ Quiet
  BY <1>1 DEF Raise
<1>2. ASSUME NEW c, NEW l, Edit(c, l)
      PROVE  open /\ Quiet
  BY <1>1, <1>2 DEF Edit
<1>3. CASE AddExplainer \/ SwapModel \/ \E e \in DOMAIN ex : GenerateAll(e)
  BY <1>3 DEF AddExplainer, SwapModel, GenerateAll
<1>. QED
  BY <1>1, <1>2, <1>3
     DEF EditorEvent, SuggestionChanges, KeyDownEvent, KeyUpEvent,
         MouseDownEvent, MouseMoveEvent, EditorDisposed

\* While the editor is open and nothing is being told, anything may begin.
LEMMA EventClears ==
    ASSUME TypeOK, EditorEvent \/ \E e \in DOMAIN ex : GenerateAll(e)
    PROVE  Cleared'
<1>1. open /\ Quiet /\ dispatch.ev = "none"
  <2>1. open /\ Quiet
    BY OpenAndQuiet
  <2>. QED  BY <2>1 DEF Quiet, Idle
<1>2. CASE open' = open /\ dispatch' = dispatch
  BY <1>1, <1>2 DEF Cleared, Clears
<1>3. ASSUME NEW ev, NEW line, NEW where, Raise(ev, line, where), ex' = ex,
             open' = open \/ ev = "dispose"
      PROVE  Cleared'
  <2>1. CASE idOfExplainer = 0
    <3>1. dispatch' = Idle /\ DOMAIN ex = {}
      BY <1>3, <2>1 DEF Raise, TypeOK
    <3>. QED  BY <1>3, <3>1 DEF Cleared, Quiet, NothingHeld, Idle, Clears
  <2>2. CASE idOfExplainer # 0
    <3>1. dispatch'.ev = ev /\ dispatch'.next = 0
      BY <1>3, <2>2 DEF Raise
    <3>2. \A e \in DOMAIN ex : ~(e < 0)
      BY DEF TypeOK
    <3>. QED  BY <1>1, <1>3, <3>1, <3>2 DEF Cleared
  <2>. QED  BY <2>1, <2>2
<1>4. CASE AddExplainer \/ SwapModel \/ \E e \in DOMAIN ex : GenerateAll(e)
  BY <1>2, <1>4 DEF AddExplainer, SwapModel, GenerateAll, editorVars
<1>5. CASE \/ \E g \in Codes \cup {None} : SuggestionChanges(g)
           \/ KeyDownEvent \/ KeyUpEvent \/ MouseDownEvent
           \/ \E l \in HoverLines, w \in Places : MouseMoveEvent(l, w)
           \/ EditorDisposed
  BY <1>3, <1>5 DEF SuggestionChanges, KeyDownEvent, KeyUpEvent,
     MouseDownEvent, MouseMoveEvent, EditorDisposed, editorVars
<1>6. ASSUME NEW c \in Buffers, NEW l, Edit(c, l)
      PROVE  Cleared'
  <2>1. CASE Raise("ghost", 0, "text")
    BY <1>3, <1>6, <2>1 DEF Edit
  <2>2. CASE ~Raise("ghost", 0, "text")
    BY <1>2, <1>6, <2>2 DEF Edit
  <2>. QED  BY <2>1, <2>2
<1>. QED  BY <1>4, <1>5, <1>6 DEF EditorEvent

\* Answers, late as they may be, attach nothing.
LEMMA AnswerClears ==
    ASSUME TypeOK, Cleared, Answer
    PROVE  Cleared'
<1>1. UNCHANGED <<open, dispatch>> /\ Quiet
  BY DEF Answer, SingleAnswer, LineAnswer, editorVars
<1>2. DOMAIN ex' = DOMAIN ex /\ \A e \in DOMAIN ex : ex'[e].box = ex[e].box
  <2>1. ASSUME NEW r \in singles, NEW out, SingleAnswer(r, out)
        PROVE  ex' = ex
    BY <2>1 DEF SingleAnswer
  <2>2. ASSUME NEW r \in fetches, NEW out, LineAnswer(r, out)
        PROVE  \/ ex' = ex
               \/ \E m : \/ ex' = [ex EXCEPT ![r.owner].lineMap = m]
                         \/ ex' = [ex EXCEPT ![r.owner].allMap = m]
    BY <2>2 DEF LineAnswer
  <2>3. ASSUME NEW o, NEW m, \/ ex' = [ex EXCEPT ![o].lineMap = m]
                             \/ ex' = [ex EXCEPT ![o].allMap = m]
        PROVE  DOMAIN ex' = DOMAIN ex
               /\ \A e \in DOMAIN ex : ex'[e].box = ex[e].box
    <3>1. \A e \in DOMAIN ex : ex[e] \in ExplainerRecords
      BY DEF TypeOK
    <3>2. \A x \in ExplainerRecords :
              /\ [x EXCEPT !.lineMap = m].box = x.box
              /\ [x EXCEPT !.allMap = m].box = x.box
      BY DEF ExplainerRecords
    <3>3. CASE ex' = [ex EXCEPT ![o] = [ex[o] EXCEPT !.lineMap = m]]
      BY <3>1, <3>2, <3>3
    <3>4. CASE ex' = [ex EXCEPT ![o] = [ex[o] EXCEPT !.allMap = m]]
      BY <3>1, <3>2, <3>4
    <3>. QED  BY <2>3, <3>3, <3>4
  <2>. QED  BY <2>1, <2>2, <2>3 DEF Answer
<1>. QED  BY <1>1, <1>2 DEF Cleared, Quiet, NothingHeld

\* The turns of an event: those of a key that is released, and of the end of
\* the editor, clear; the others come before that end.
LEMMA HandlerClears ==
    ASSUME TypeOK, Cleared, NEW e \in DOMAIN ex, Handler(e), ~GenerateAll(e)
    PROVE  /\ Cleared'
           /\ dispatch.ev \in Clears /\ dispatch' = Idle => NothingHeld'
<1>1. ex[e] \in ExplainerRecords
  BY DEF TypeOK
<1>2. CASE KeyUp(e)
  BY <1>1, <1>2, ClearingTurn, DisposeExplanationsFacts DEF KeyUp, Clears
<1>3. CASE DisposeEditor(e)
  BY <1>1, <1>3, ClearingTurn, DisposeFacts DEF DisposeEditor, Clears
<1>4. CASE ~KeyUp(e) /\ ~DisposeEditor(e)
  <2>1. \E ev \in {"ghost", "keydown", "mousedown", "mousemove"} :
            Turn(ev, e) /\ Pass
    BY <1>4 DEF Handler, NotListening, GhostBlank, GhostSame, GhostComment,
       GhostSingle, GhostMulti, NewGhost, KeyDown, MouseDown, LeaveOverview,
       MouseMove
  <2>2. PICK ev \in Events \ (Clears \cup {"none"}) : Turn(ev, e) /\ Pass
    BY <2>1 DEF Events, Clears
  <2>3. dispatch.ev \notin Clears
    BY <2>2 DEF Turn
  <2>. QED  BY <2>2, <2>3, OtherTurn
<1>. QED  BY <1>2, <1>3, <1>4

\* Every step.
LEMMA ClearedStep ==
    ASSUME TypeOK, Cleared, [Next]_vars
    PROVE  /\ Cleared'
           /\ dispatch.ev \in Clears /\ dispatch' = Idle => NothingHeld'
<1>1. CASE EditorEvent \/ \E e \in DOMAIN ex : GenerateAll(e)
  <2>1. Quiet
    BY <1>1, OpenAndQuiet
  <2>. QED  BY <1>1, <2>1, EventClears DEF Quiet, Idle, Clears
<1>2. CASE Answer
  <2>1. dispatch.ev \notin Clears
    <3>1. Quiet
      BY <1>2 DEF Answer, SingleAnswer, LineAnswer
    <3>. QED  BY <3>1 DEF Quiet, Idle, Clears
  <2>. QED  BY <1>2, <2>1, AnswerClears
<1>3. ASSUME NEW e \in DOMAIN ex, Handler(e), ~GenerateAll(e)
      PROVE  /\ Cleared'
             /\ dispatch.ev \in Clears /\ dispatch' = Idle => NothingHeld'
  BY <1>3, HandlerClears
<1>4. CASE UNCHANGED vars
  BY <1>4 DEF vars, editorVars, Cleared, Quiet, NothingHeld, Idle, Clears
<1>. QED  BY <1>1, <1>2, <1>3, <1>4 DEF Next

\* Each explainer that had its turn of the event has let go.
LEMMA ClearedHolds == Spec => []Cleared
<1>1. Init => Cleared
  BY DEF Init, Cleared, Idle, Clears
<1>2. IInv /\ Cleared /\ [Next]_vars => Cleared'
  BY ClearedStep DEF IInv, TypedSingle
<1>. QED  BY <1>1, <1>2, InvariantHolds, PTL DEF Spec

NothingOutlivesEditor == ~open /\ Quiet => doc = << >>

\* When the editor was disposed and its explainers were told, nothing is on
\* display: none of them loses its container to another, and no answer that
\* comes later brings one back.
THEOREM EditorLeavesNothing == Spec => []NothingOutlivesEditor
<1>1. IInv /\ Cleared => NothingOutlivesEditor
  BY NothingAttached
     DEF IInv, TypedSingle, Cleared, NothingOutlivesEditor, Quiet, Idle
<1>. QED  BY <1>1, InvariantHolds, ClearedHolds, PTL

\* When a key was released and the last explainer was told, the document shows
\* no explanation, whichever explainer made it and whatever suggestion it
\* listens to (onKeyUp).
THEOREM KeyUpLeavesNothing ==
    Spec => [][dispatch.ev = "keyup" /\ dispatch' = Idle => doc' = << >>]_vars
<1>1. IInv /\ Cleared /\ [Next]_vars =>
        [dispatch.ev = "keyup" /\ dispatch' = Idle => doc' = << >>]_vars
  <2>1. ASSUME IInv, Cleared, Next, dispatch.ev = "keyup", dispatch' = Idle
        PROVE  doc' = << >>
    <3>1. NothingHeld'
      BY <2>1, ClearedStep DEF IInv, TypedSingle, Clears
    <3>2. TypeOK' /\ NoOrphanContainer'
      BY <2>1, NextSafe DEF IInv, TypedSingle
    <3>3. (TypeOK /\ NoOrphanContainer /\ NothingHeld => doc = << >>)'
      BY NothingAttached, PTL
    <3>. QED  BY <3>1, <3>2, <3>3
  <2>. QED  BY <2>1
<1>. QED  BY <1>1, InvariantHolds, ClearedHolds, PTL DEF Spec
=============================================================================
