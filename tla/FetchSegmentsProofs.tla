------------------------- MODULE FetchSegmentsProofs -------------------------
(***************************************************************************)
(* The segments of a line are apart and where they were quoted from, for   *)
(* every line, every answer and every length of answer.                    *)
(***************************************************************************)
EXTENDS FetchSegments, SetLemmas, SequenceTheorems

\* No segment is empty and none ends beyond the place of the next search.
Closed ==
    \A i \in DOMAIN summaryArr :
        summaryArr[i].from <= summaryArr[i].to /\ summaryArr[i].to <= lastLine

IInv == TypeOK /\ SegmentsApart /\ SegmentsQuoted /\ Closed

\* A quote that is kept was found, behind the place of the search.
LEMMA KeptFacts ==
    ASSUME TypeOK, NEW q \in Quotes, Kept(q), lastLine \in Nat
    PROVE  /\ Begin(q) \in q.at /\ Begin(q) \in Nat
           /\ lastLine + 1 < Begin(q) /\ Begin(q) <= End(q)
           /\ Segment(q) \in Segments
<1>. DEFINE found == {c \in q.at : c >= lastLine}
<1>1. /\ q \in [at : SUBSET Columns, len : Nat, says : Sayings]
      /\ \A c \in q.at : c + q.len <= Width
      /\ Width \in Nat
  BY QuotesAssumption, WidthAssumption
<1>2. q.len # 0 /\ found # {}
  BY <1>1 DEF Kept, Begin
<1>3. Begin(q) = Min(found)
  BY <1>2 DEF Begin
<1>4. found \subseteq Nat
  BY <1>1 DEF Columns
<1>5. Begin(q) \in found
  BY <1>2, <1>3, <1>4, MinOfNats
<1>6. Begin(q) \in Columns /\ Begin(q) \in Nat
  BY <1>1, <1>5 DEF Columns
<1>7. lastLine + 1 < Begin(q)
  BY <1>6 DEF Kept
<1>8. q.len \in Nat \ {0} /\ Begin(q) + q.len <= Width
  BY <1>1, <1>2, <1>5
<1>9. Begin(q) <= End(q) /\ End(q) \in Columns
  BY <1>1, <1>6, <1>8 DEF End, Columns
<1>10. Segment(q) \in Segments
  BY <1>1, <1>6, <1>9 DEF Segment, Segments
<1>. QED  BY <1>5, <1>6, <1>7, <1>9, <1>10

\* The next search starts on the line.
LEMMA LastLineNat ==
    ASSUME TypeOK
    PROVE  lastLine \in Nat
<1>1. CASE summaryArr = << >>
  BY <1>1 DEF TypeOK
<1>2. CASE summaryArr # << >>
  <2>1. summaryArr \in Seq(Segments) /\ Len(summaryArr) \in DOMAIN summaryArr
    BY <1>2, EmptySeq DEF TypeOK
  <2>2. Last(summaryArr) \in Segments
    BY <2>1 DEF Last
  <2>. QED  BY <1>2, <2>2 DEF TypeOK, Segments, Columns
<1>. QED  BY <1>1, <1>2

\* Reading a line of the answer preserves the invariant.
LEMMA ReadKeeps ==
    ASSUME IInv, NEW q \in Quotes, Read(q)
    PROVE  IInv'
<1>1. read' \in 0 .. MaxAnswer
  BY WidthAssumption DEF Read, IInv, TypeOK
<1>2. CASE ~Kept(q)
  BY <1>1, <1>2 DEF Read, IInv, TypeOK, SegmentsApart, SegmentsQuoted, Closed
<1>3. CASE Kept(q)
  <2>. DEFINE n == Len(summaryArr)
              s == Segment(q)
  <2>1. /\ Begin(q) \in q.at /\ Begin(q) \in Nat
        /\ lastLine + 1 < Begin(q) /\ Begin(q) <= End(q)
        /\ s \in Segments /\ lastLine \in Nat
    BY <1>3, KeptFacts, LastLineNat DEF IInv
  <2>2. /\ s.from = Begin(q) /\ s.to = End(q) /\ s.says = q.says
    BY DEF Segment
  <2>3. summaryArr' = Append(summaryArr, s) /\ lastLine' = End(q)
    BY <1>3 DEF Read
  <2>4. summaryArr \in Seq(Segments) /\ n \in Nat /\ DOMAIN summaryArr = 1 .. n
    BY DEF IInv, TypeOK
  <2>. HIDE DEF s
  <2>5. /\ summaryArr' \in Seq(Segments) /\ summaryArr' # << >>
        /\ Len(summaryArr') = n + 1 /\ DOMAIN summaryArr' = 1 .. n + 1
        /\ \A i \in 1 .. n : summaryArr'[i] = summaryArr[i]
        /\ summaryArr'[n + 1] = s
    BY <2>1, <2>3, <2>4, AppendProperties
  <2>. HIDE DEF n
  <2>6. \A i \in 1 .. n + 1 : i \in 1 .. n \/ i = n + 1
    BY <2>4
  <2>7. \A i \in 1 .. n : summaryArr[i] \in Segments
    BY <2>4
  <2>8. TypeOK'
    <3>1. Last(summaryArr') = s
      BY <2>5 DEF Last
    <3>. QED  BY <1>1, <2>2, <2>3, <2>5, <3>1 DEF TypeOK
  <2>9. End(q) \in Nat /\ lastLine <= End(q)
    <3>1. End(q) \in Int
      BY <2>1, QuotesAssumption DEF End
    <3>. QED  BY <2>1, <3>1
  <2>10. Closed'
    <3>1. ASSUME NEW i \in 1 .. n + 1
          PROVE  /\ summaryArr'[i].from <= summaryArr'[i].to
                 /\ summaryArr'[i].to <= lastLine'
      <4>1. CASE i = n + 1
        BY <2>1, <2>2, <2>3, <2>5, <2>9, <4>1
      <4>2. CASE i \in 1 .. n
        <5>1. /\ summaryArr[i].from <= summaryArr[i].to
              /\ summaryArr[i].to <= lastLine
          BY <2>4, <4>2 DEF IInv, Closed
        <5>2. summaryArr[i].to \in Int
          BY <2>7, <4>2 DEF Segments, Columns
        <5>. QED  BY <2>1, <2>3, <2>5, <2>9, <4>2, <5>1, <5>2
      <4>. QED  BY <2>6, <4>1, <4>2
    <3>. QED  BY <2>5, <3>1 DEF Closed
  <2>11. SegmentsApart'
    <3>1. ASSUME NEW i \in 1 .. n + 1, NEW j \in 1 .. n + 1, i < j
          PROVE  summaryArr'[i].to + 1 < summaryArr'[j].from
      <4>1. i \in 1 .. n
        BY <2>4, <3>1
      <4>2. CASE j \in 1 .. n
        BY <2>4, <2>5, <3>1, <4>1, <4>2 DEF IInv, SegmentsApart
      <4>3. CASE j = n + 1
        <5>1. summaryArr[i].to <= lastLine /\ summaryArr[i].to \in Int
          BY <2>4, <2>7, <4>1 DEF IInv, Closed, Segments, Columns
        <5>. QED  BY <2>1, <2>2, <2>5, <4>1, <4>3, <5>1
      <4>. QED  BY <2>6, <4>2, <4>3
    <3>. QED  BY <2>5, <3>1 DEF SegmentsApart
  <2>12. SegmentsQuoted'
    <3>1. ASSUME NEW i \in 1 .. n + 1
          PROVE  \E p \in Quotes :
                    /\ summaryArr'[i].from \in p.at
                    /\ summaryArr'[i].to = summaryArr'[i].from + p.len - 1
                    /\ summaryArr'[i].says = p.says
      <4>1. CASE i = n + 1
        BY <2>1, <2>2, <2>5, <4>1 DEF End
      <4>2. CASE i \in 1 .. n
        BY <2>4, <2>5, <4>2 DEF IInv, SegmentsQuoted
      <4>. QED  BY <2>6, <4>1, <4>2
    <3>. QED  BY <2>5, <3>1 DEF SegmentsQuoted
  <2>. QED  BY <2>8, <2>10, <2>11, <2>12 DEF IInv
<1>. QED  BY <1>2, <1>3

\* The invariant holds of every behaviour.
LEMMA InvariantHolds == Spec => []IInv
<1>1. Init => IInv
  BY WidthAssumption
     DEF Init, IInv, TypeOK, SegmentsApart, SegmentsQuoted, Closed
<1>2. IInv /\ [Next]_vars => IInv'
  <2>1. ASSUME IInv, UNCHANGED vars PROVE IInv'
    BY <2>1 DEF IInv, TypeOK, SegmentsApart, SegmentsQuoted, Closed, vars
  <2>. QED  BY <2>1, ReadKeeps DEF Next
<1>. QED  BY <1>1, <1>2, PTL DEF Spec

\* The segments of a line are in order and do not touch, for every answer.
THEOREM Apart == Spec => []SegmentsApart
<1>1. IInv => SegmentsApart
  BY DEF IInv
<1>. QED  BY <1>1, InvariantHolds, PTL

\* Every segment is an occurrence of the piece it explains.
THEOREM Quoted == Spec => []SegmentsQuoted
<1>1. IInv => SegmentsQuoted
  BY DEF IInv
<1>. QED  BY <1>1, InvariantHolds, PTL

\* The segments lie on the line, and the next search starts at the last one.
THEOREM TypeCorrect == Spec => []TypeOK
<1>1. IInv => TypeOK
  BY DEF IInv
<1>. QED  BY <1>1, InvariantHolds, PTL

\* Segments are at their quotes, in order and apart, for answers of any length.
THEOREM InPlace == Spec => []SegmentsInPlace
  BY Apart, Quoted, PTL DEF SegmentsInPlace

-----------------------------------------------------------------------------
(* Where the code lines are drawn.                                         *)

\* The room that the floats of some segments take.
Room(S) == MapThenSumSet(LAMBDA j : MarginLeft(j) + LineWidth(j), S)

\* Segments are at columns.
LEMMA PlacesOfSegments ==
    ASSUME TypeOK
    PROVE  /\ Len(summaryArr) \in Nat
           /\ DOMAIN summaryArr = 1 .. Len(summaryArr)
           /\ \A j \in 1 .. Len(summaryArr) :
                 summaryArr[j].from \in Nat /\ summaryArr[j].to \in Nat
<1>1. summaryArr \in Seq(Segments)
  BY DEF TypeOK
<1>2. \A j \in 1 .. Len(summaryArr) : summaryArr[j] \in Segments
  BY <1>1
<1>3. \A s \in Segments : s.from \in Nat /\ s.to \in Nat
  BY DEF Segments, Columns
<1>. QED  BY <1>1, <1>2, <1>3

\* It is the sum of what each takes.
LEMMA RoomBefore ==
    ASSUME NEW n \in Nat, NEW F, NEW P, PrefixSums(P, F, n), NEW k \in 0 .. n,
           \A j \in 1 .. n : F[j] = MarginLeft(j) + LineWidth(j)
    PROVE  Room(1 .. k) = P[k]
<1>. DEFINE S == 1 .. k
            Adds(g) == g = [s \in SUBSET S |->
                              IF s = {} THEN 0
                              ELSE MarginLeft(Pick(s)) + LineWidth(Pick(s))
                                     + g[s \ {Pick(s)}]]
<1>1. \A g : Adds(g) <=> Unfolds(g, F, S)
  <2>1. \A s \in SUBSET S : s # {} =>
            F[Pick(s)] = MarginLeft(Pick(s)) + LineWidth(Pick(s))
    <3>1. \A x \in S : x \in 1 .. n
      OBVIOUS
    <3>. QED  BY <3>1, PickIn
  <2>. HIDE DEF S
  <2>. QED  BY <2>1 DEF Unfolds
<1>2. S = 1 .. k
  OBVIOUS
<1>3. (\E g : Unfolds(g, F, S)) /\ \A g : Unfolds(g, F, S) => g[S] = P[k]
  <2>. HIDE DEF S
  <2>1. \A T : T = 1 .. k => \E g : Unfolds(g, F, T)
    BY IntervalSumExists
  <2>2. \A T, g : T = 1 .. k /\ Unfolds(g, F, T) => g[T] = P[k]
    BY IntervalSum
  <2>. QED  BY <1>2, <2>1, <2>2, Zenon
<1>. DEFINE room == CHOOSE g : Adds(g)
<1>4. Room(S) = room[S]
  BY Zenon DEF Room, MapThenSumSet, MapThenFoldSet, Pick
<1>. HIDE DEF Adds
<1>5. Adds(room)
  BY <1>1, <1>3, Zenon
<1>. HIDE DEF room
<1>. QED  BY <1>1, <1>3, <1>4, <1>5

\* Up to the end of a segment, margins and widths fill the line.
LEMMA FilledUpTo ==
    ASSUME TypeOK, NEW n, n = Len(summaryArr), NEW F, NEW P, PrefixSums(P, F, n),
           \A j \in 1 .. n : F[j] = MarginLeft(j) + LineWidth(j)
    PROVE  \A k \in 0 .. n : P[k] = IF k = 0 THEN 0 ELSE summaryArr[k].to + 1
<1>1. /\ n \in Nat
      /\ \A j \in 1 .. n : summaryArr[j].from \in Int /\ summaryArr[j].to \in Int
  BY PlacesOfSegments
<1>. DEFINE At(k) == IF k = 0 THEN 0 ELSE summaryArr[k].to + 1
            G == {k \in Nat : k <= n => P[k] = At(k)}
<1>2. 0 \in G
  BY DEF PrefixSums
<1>3. ASSUME NEW k \in Nat, k \in G PROVE k + 1 \in G
  <2>. SUFFICES ASSUME k + 1 <= n PROVE P[k + 1] = At(k + 1)
    OBVIOUS
  <2>1. P[k + 1] = P[k] + F[k + 1] /\ P[k] = At(k)
    BY <1>1, <1>3 DEF PrefixSums
  <2>2. F[k + 1] = summaryArr[k + 1].to - LastIdx(k + 1)
    BY <1>1 DEF MarginLeft, LineWidth, LastIdx
  <2>3. At(k) = LastIdx(k + 1) + 1 /\ LastIdx(k + 1) \in Int
    BY <1>1 DEF LastIdx
  <2>4. summaryArr[k + 1].to \in Int
    BY <1>1
  <2>. QED  BY <2>1, <2>2, <2>3, <2>4
<1>. HIDE DEF G
<1>4. \A k \in Nat : k \in G
  BY <1>2, <1>3, NumberInduction
<1>. QED  BY <1>4 DEF G

\* A code line whose predecessors are all displayed is under its segment.
LEMMA UnderCode ==
    ASSUME IInv
    PROVE  DrawnUnderCode
<1>. DEFINE n == Len(summaryArr)
            F == [j \in 1 .. n |-> MarginLeft(j) + LineWidth(j)]
<1>1. /\ TypeOK /\ n \in Nat /\ DOMAIN summaryArr = 1 .. n
      /\ \A j \in 1 .. n : summaryArr[j].from \in Nat /\ summaryArr[j].to \in Nat
  BY PlacesOfSegments DEF IInv
<1>2. \A j \in 1 .. n : F[j] = MarginLeft(j) + LineWidth(j)
  OBVIOUS
<1>. HIDE DEF F
<1>3. \A j \in 1 .. n : F[j] \in Int
  <2>. HIDE DEF n
  <2>. SUFFICES ASSUME NEW j \in 1 .. n PROVE MarginLeft(j) + LineWidth(j) \in Int
    BY <1>2
  <2>1. LastIdx(j) \in Int
    BY <1>1 DEF LastIdx
  <2>. QED  BY <1>1, <2>1 DEF MarginLeft, LineWidth
<1>4. PICK P : PrefixSums(P, F, n)
  <2>. HIDE DEF n
  <2>. QED  BY <1>1, <1>3, IntervalSums
<1>5. \A k \in 0 .. n : P[k] = IF k = 0 THEN 0 ELSE summaryArr[k].to + 1
  BY <1>1, <1>2, <1>4, FilledUpTo
<1>6. ASSUME NEW i \in Drawn, \A j \in 1 .. i - 1 : Displayed(j)
      PROVE  MarginLeft(i) >= 0 /\ LeftEdge(i) = summaryArr[i].from
  <2>1. i \in 1 .. n /\ i - 1 \in 0 .. n
    BY <1>1 DEF Drawn
  <2>2. {j \in 1 .. i - 1 : Displayed(j)} = 1 .. i - 1
    BY <1>6
  <2>3. Room(1 .. i - 1) = P[i - 1]
    <3>. HIDE DEF n
    <3>. QED  BY <1>1, <1>2, <1>4, <2>1, RoomBefore
  <2>4. LeftEdge(i) = MarginLeft(i) + P[i - 1]
    BY <2>2, <2>3, Zenon DEF LeftEdge, Room
  <2>5. MarginLeft(i) = summaryArr[i].from - LastIdx(i) - 1
    BY DEF MarginLeft
  <2>6. P[i - 1] = LastIdx(i) + 1 /\ LastIdx(i) \in Int
    BY <1>1, <1>5, <2>1 DEF LastIdx
  <2>7. LastIdx(i) < summaryArr[i].from
    <3>1. CASE i = 1
      BY <1>1, <2>1, <3>1 DEF LastIdx
    <3>2. CASE i # 1
      <4>1. i - 1 \in DOMAIN summaryArr /\ i \in DOMAIN summaryArr /\ i - 1 < i
        BY <1>1, <2>1, <3>2
      <4>2. summaryArr[i - 1].to + 1 < summaryArr[i].from
        BY <4>1 DEF IInv, SegmentsApart
      <4>. QED  BY <1>1, <2>1, <3>2, <4>1, <4>2 DEF LastIdx
    <3>. QED  BY <3>1, <3>2
  <2>8. summaryArr[i].from \in Int
    BY <1>1, <2>1
  <2>. QED  BY <2>4, <2>5, <2>6, <2>7, <2>8
<1>. QED  BY <1>6 DEF DrawnUnderCode

\* Under every line, whatever was quoted, the rules stand under the columns of
\* their segments up to the first that is not displayed (createSingleExplainer).
THEOREM RulesUnderCode == Spec => []DrawnUnderCode
<1>1. IInv => DrawnUnderCode
  BY UnderCode
<1>. QED  BY <1>1, InvariantHolds, PTL
=============================================================================
