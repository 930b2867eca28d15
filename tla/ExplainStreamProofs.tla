------------------------- MODULE ExplainStreamProofs -------------------------
(***************************************************************************)
(* The streamed explanation keeps the promise of AnchoredBends, for every  *)
(* code, every answer and every way it is cut into chunks.                 *)
(***************************************************************************)
EXTENDS ExplainStream, SetLemmas, SequenceTheorems

-----------------------------------------------------------------------------
(* A snippet stays a sequence of marks and lines.                          *)

\* What a stream can bring are chunks.
LEMMA ValuesAreChunks == Values \subseteq Chunks
BY CodeAssumption DEF Values, Chunks, Plain, Marks

\* Marks are among them.
LEMMA PlainValues ==
    /\ Plain("$") \in Values /\ Plain("$$") \in Values
    /\ Plain("blank") \in Values
BY DEF Values, Marks

\* A snippet that grows consists of values.
LEMMA GrowType ==
    ASSUME NEW s \in Seq(Values), NEW c \in Values
    PROVE  Grow(s, c) \in Seq(Values)
<1>1. CASE c.is = "$" /\ s # << >> /\ Last(s).is = "$"
  <2>1. Front(s) \in Seq(Values)
    BY <1>1, EmptySeq DEF Front
  <2>. QED  BY <1>1, <2>1, PlainValues DEF Grow
<1>2. CASE ~(c.is = "$" /\ s # << >> /\ Last(s).is = "$")
  BY <1>2 DEF Grow
<1>. QED  BY <1>1, <1>2

\* A snippet cut by one character consists of values.
LEMMA CutLastType ==
    ASSUME NEW s \in Seq(Values)
    PROVE  CutLast(s) \in Seq(Values)
<1>1. CASE s = << >> \/ Last(s).is \notin {"$", "$$"}
  BY <1>1 DEF CutLast
<1>2. CASE ~(s = << >> \/ Last(s).is \notin {"$", "$$"})
  <2>1. Front(s) \in Seq(Values)
    BY <1>2, EmptySeq DEF Front
  <2>. QED  BY <1>2, <2>1, PlainValues DEF CutLast
<1>. QED  BY <1>1, <1>2

\* The code of a snippet is a nonempty sequence of chunks.
LEMMA CodePartType ==
    ASSUME NEW s \in Seq(Values), HasCode(s)
    PROVE  CodePart(s) \in Seq(Chunks) /\ Len(CodePart(s)) \in Nat \ {0}
<1>. DEFINE first == Min(Separators(s))
            code == CodePart(s)
            n == Len(s) - first
<1>1. first \in Separators(s) /\ first \in 1 .. Len(s)
  <2>1. Separators(s) \subseteq Nat /\ Separators(s) # {}
    BY DEF Separators, HasCode
  <2>2. first \in Separators(s)
    BY <2>1, MinOfNats
  <2>. QED  BY <2>2 DEF Separators
<1>2. n \in Nat
  BY <1>1
<1>3. code = [i \in 1 .. n |-> IF s[first + i].is = "$$" THEN Plain("blank")
                               ELSE s[first + i]]
  BY DEF CodePart
<1>4. \A i \in 1 .. n : s[first + i] \in Values
  <2>1. \A i \in 1 .. n : first + i \in 1 .. Len(s)
    BY <1>1, <1>2
  <2>. QED  BY <2>1
<1>. HIDE DEF first, n
<1>5. \A i \in 1 .. n : code[i] \in Chunks
  BY <1>3, <1>4, PlainValues, ValuesAreChunks
<1>6. code \in Seq(Chunks) /\ Len(code) = n
  BY <1>2, <1>3, <1>5
<1>7. n # 0
  <2>1. PICK i \in DOMAIN code : TRUE
    BY DEF HasCode
  <2>. QED  BY <1>2, <1>3, <2>1
<1>. QED  BY <1>2, <1>6, <1>7

-----------------------------------------------------------------------------
(* The interval found for a snippet lies below the last bend.              *)

\* Places found are below the last bend and on lines.
LEMMA PlacesBelow ==
    ASSUME NEW code \in Seq(Chunks), NEW last \in Nat
    PROVE  /\ Places(code, last) \subseteq 0 .. last + 1 + CodeLines
           /\ \A p \in Places(code, last) : p > last
           /\ 1 \in Tested(code) /\ Matches(code[1], last) # {}
                => Places(code, last) # {}
<1>1. ASSUME NEW i \in DOMAIN code, Matches(code[i], last) # {}
      PROVE  /\ Min(Matches(code[i], last)) \in 1 .. CodeLines
             /\ Min(Matches(code[i], last)) > last
  <2>1. code[i] \in Chunks
    BY <1>1
  <2>2. Matches(code[i], last) \subseteq 1 .. CodeLines
    BY <2>1 DEF Matches, Chunks
  <2>3. Min(Matches(code[i], last)) \in Matches(code[i], last)
    BY <1>1, <2>2, CodeAssumption, MinOfNats
  <2>. QED  BY <2>2, <2>3 DEF Matches
<1>2. Tested(code) \subseteq DOMAIN code
  BY DEF Tested
<1>3. \A p \in Places(code, last) : p \in 1 .. CodeLines /\ p > last
  BY <1>1, <1>2 DEF Places
<1>4. Places(code, last) \subseteq 0 .. last + 1 + CodeLines
  <2>1. 1 .. CodeLines \subseteq 0 .. last + 1 + CodeLines
    BY CodeAssumption
  <2>. QED  BY <1>3, <2>1
<1>5. ASSUME 1 \in Tested(code), Matches(code[1], last) # {}
      PROVE  Min(Matches(code[1], last)) \in Places(code, last)
  BY <1>5 DEF Places
<1>. QED  BY <1>3, <1>4, <1>5

\* So is the interval of a snippet.
LEMMA IntervalBelow ==
    ASSUME NEW code \in Seq(Chunks), Len(code) # 0, NEW cut \in BOOLEAN,
           NEW last \in Nat
    PROVE  LET b == Interval(code, cut, last) IN
           b \in Nat \X Nat /\ last < b[1] /\ b[1] <= b[2]
<1>. DEFINE P == Places(code, last)
            E == EndLine(code, last)
<1>1. P \subseteq 0 .. last + 1 + CodeLines /\ \A p \in P : p > last
  BY PlacesBelow
<1>2. /\ {last + 1} \cup P \subseteq 0 .. last + 1 + CodeLines
      /\ last + 1 + CodeLines \in Nat
  BY <1>1, CodeAssumption
<1>3. E \in {last + 1} \cup P /\ \A p \in {last + 1} \cup P : p <= E
  BY <1>2, MaxOfBounded DEF EndLine
<1>4. E \in Nat /\ last + 1 <= E
  BY <1>2, <1>3
<1>5. CASE FirstLineLost(code, last)
  <2>1. Len(code) \in Nat /\ LineNumber(code, cut) \in Nat
        /\ 1 <= LineNumber(code, cut)
    BY DEF LineNumber
  <2>. QED  BY <1>5, <2>1 DEF Interval
<1>6. CASE ~FirstLineLost(code, last) /\ 1 \in Tested(code)
  <2>1. P # {}
    BY <1>6, PlacesBelow DEF FirstLineLost
  <2>2. Min(P) \in P
    BY <1>1, <2>1, CodeAssumption, MinOfNats
  <2>3. Min(P) \in Nat /\ last < Min(P) /\ Min(P) <= E
    BY <1>1, <1>3, <2>2, CodeAssumption
  <2>. QED  BY <1>4, <1>6, <2>3 DEF Interval
<1>7. CASE ~FirstLineLost(code, last) /\ 1 \notin Tested(code)
  BY <1>4, <1>7 DEF Interval
<1>. QED  BY <1>5, <1>6, <1>7

\* So is the bend built for it, if there is one.
LEMMA BuildBelow ==
    ASSUME NEW s \in Seq(Values), NEW cut \in BOOLEAN,
           lastExplain \in Nat \X Nat, Build(s, cut) # None
    PROVE  LET b == Build(s, cut) IN
           b \in Nat \X Nat /\ lastExplain[2] < b[1] /\ b[1] <= b[2]
<1>1. HasCode(s)
  BY DEF Build
<1>2. CodePart(s) \in Seq(Chunks) /\ Len(CodePart(s)) # 0
  BY <1>1, CodePartType
<1>. DEFINE b == Interval(CodePart(s), cut, lastExplain[2])
<1>3. b \in Nat \X Nat /\ lastExplain[2] < b[1] /\ b[1] <= b[2]
  BY <1>2, IntervalBelow
<1>4. Build(s, cut) = b
  BY <1>1, <1>3 DEF Build
<1>. QED  BY <1>3, <1>4

-----------------------------------------------------------------------------
(* The refinement.                                                         *)

IInv ==
    /\ TypeOK
    /\ phase = "open" => placeholder

\* The value of AB!bends.
Spans == [i \in DOMAIN bends |-> <<bends[i].from, bends[i].to>>]

\* A bend is a bend.
LEMMA BendType ==
    ASSUME NEW b \in Nat \X Nat, lastExplain \in Nat \X Nat
    PROVE  Bend(b) \in Bends /\ Bend(b).from = b[1] /\ Bend(b).to = b[2]
BY DEF Bend, Bends, LineHeight

\* The last line with a bend, of the abstract bends, is that of the last bend.
LEMMA BelowSpans ==
    ASSUME TypeOK, phase = "open"
    PROVE  /\ Spans \in Seq(Nat \X Nat)
           /\ AB!Below(Spans) = lastExplain[2]
<1>1. /\ bends \in Seq(Bends)
      /\ lastExplain = IF bends = << >> THEN None
                       ELSE <<Last(bends).from, Last(bends).to>>
  BY DEF TypeOK
<1>2. \A i \in DOMAIN bends : <<bends[i].from, bends[i].to>> \in Nat \X Nat
  <2>1. \A i \in DOMAIN bends : bends[i] \in Bends
    BY <1>1
  <2>. QED  BY <2>1 DEF Bends
<1>3. /\ Spans \in Seq(Nat \X Nat) /\ Len(Spans) = Len(bends)
      /\ DOMAIN Spans = DOMAIN bends
  BY <1>1, <1>2 DEF Spans
<1>4. CASE bends = << >>
  <2>1. Spans = << >>
    BY <1>3, <1>4, EmptySeq
  <2>. QED  BY <1>1, <1>3, <1>4, <2>1 DEF AB!Below, None
<1>5. CASE bends # << >>
  <2>1. Len(bends) \in DOMAIN bends /\ Spans # << >>
    BY <1>1, <1>3, <1>5, EmptySeq
  <2>2. Last(Spans) = <<Last(bends).from, Last(bends).to>>
    BY <1>3, <2>1 DEF Last, Spans
  <2>. QED  BY <1>1, <1>3, <1>5, <2>1, <2>2 DEF AB!Below, AB!Last, Last
<1>. QED  BY <1>4, <1>5

\* A sequence to which an element is appended ends in it.
LEMMA AppendLast ==
    ASSUME NEW S, NEW seq \in Seq(S), NEW e \in S
    PROVE  Append(seq, e) # << >> /\ Last(Append(seq, e)) = e
BY AppendProperties DEF Last

\* Drawing what was built is a step of the abstract bends, or none.
LEMMA DrawsOrNot ==
    ASSUME IInv, phase = "open", NEW s \in Seq(Values), NEW cut \in BOOLEAN,
           NEW b, b = Build(s, cut), bends' = Drawn(b)
    PROVE  /\ bends' \in Seq(Bends)
           /\ b = None => bends' = bends /\ Spans' = Spans
           /\ b # None => /\ b \in Nat \X Nat
                          /\ bends' # << >>
                          /\ b = <<Last(bends').from, Last(bends').to>>
                          /\ Spans' # << >> /\ Last(Spans') = b
                          /\ AB!Below(Spans) < b[1] /\ b[1] <= b[2]
                          /\ Spans' = Append(Spans, b)
<1>1. lastExplain \in Nat \X Nat /\ bends \in Seq(Bends)
  BY DEF IInv, TypeOK
<1>2. CASE b = None
  BY <1>1, <1>2 DEF Drawn, Spans
<1>3. CASE b # None
  <2>1. b \in Nat \X Nat /\ lastExplain[2] < b[1] /\ b[1] <= b[2]
    BY <1>1, <1>3, BuildBelow
  <2>2. bends' = Append(bends, Bend(b))
    BY <1>3 DEF Drawn
  <2>3. Bend(b) \in Bends /\ Bend(b).from = b[1] /\ Bend(b).to = b[2]
    BY <1>1, <2>1, BendType
  <2>. DEFINE n == Len(bends)
              v == Bend(b)
  <2>. HIDE DEF v
  <2>4. /\ bends' \in Seq(Bends) /\ bends' # << >> /\ n \in Nat
        /\ Len(bends') = n + 1 /\ DOMAIN bends' = 1 .. n + 1
        /\ \A i \in 1 .. n : bends'[i] = bends[i]
        /\ bends'[n + 1] = v
    BY <1>1, <2>2, <2>3, AppendProperties DEF v
  <2>5. b = <<v.from, v.to>>
    BY <2>1, <2>3 DEF v
  <2>6. Spans \in Seq(Nat \X Nat) /\ AB!Below(Spans) = lastExplain[2]
    BY BelowSpans DEF IInv
  <2>7. Last(bends') = v
    BY <2>4 DEF Last
  <2>8. Spans' = Append(Spans, b)
    <3>1. /\ Len(Spans) = n /\ DOMAIN Spans = 1 .. n
          /\ \A i \in 1 .. n : Spans[i] = <<bends[i].from, bends[i].to>>
      BY <1>1, <2>6 DEF Spans
    <3>2. /\ Append(Spans, b) \in Seq(Nat \X Nat)
          /\ Len(Append(Spans, b)) = n + 1
          /\ \A i \in 1 .. n : Append(Spans, b)[i] = Spans[i]
          /\ Append(Spans, b)[n + 1] = b
      BY <2>1, <2>6, <3>1, AppendProperties
    <3>3. /\ DOMAIN Spans' = 1 .. n + 1
          /\ \A i \in 1 .. n + 1 : Spans'[i] = <<bends'[i].from, bends'[i].to>>
      BY <2>4 DEF Spans
    <3>4. \A i \in 1 .. n + 1 : i \in 1 .. n \/ i = n + 1
      BY <2>4
    <3>5. \A i \in 1 .. n + 1 : Spans'[i] = Append(Spans, b)[i]
      BY <2>4, <2>5, <3>1, <3>2, <3>3, <3>4
    <3>6. \A i \in 1 .. n + 1 : Spans'[i] \in Nat \X Nat
      BY <2>1, <2>6, <3>1, <3>2, <3>4, <3>5
    <3>7. Spans' \in Seq(Nat \X Nat) /\ Len(Spans') = n + 1
      BY <2>4, <3>3, <3>6 DEF Spans
    <3>. HIDE DEF Spans
    <3>. QED  BY <3>2, <3>5, <3>7, SeqEqual
  <2>9. Spans' # << >> /\ Last(Spans') = b
    <3>1. Append(Spans, b) # << >> /\ Last(Append(Spans, b)) = b
      BY <2>1, <2>6, AppendLast
    <3>. QED  BY <2>8, <3>1
  <2>. QED  BY <1>3, <2>1, <2>4, <2>5, <2>6, <2>7, <2>8, <2>9
<1>. QED  BY <1>2, <1>3

\* Every step is a step of AnchoredBends or changes nothing of it.
LEMMA StepRefines ==
    ASSUME IInv, [Next]_vars
    PROVE  IInv' /\ [AB!Next]_(AB!vars)
<1>1. \A c : Plain(c).is = c
  BY DEF Plain
<1>2. CASE \E c \in Values : NextSnippet(c)
  <2>. PICK c \in Values : NextSnippet(c)
    BY <1>2
  <2>. DEFINE b == Build(CutLast(eachSnippet), BreakCut)
  <2>1. /\ phase = "open" /\ placeholder /\ bends' = Drawn(b)
        /\ lastExplain' = IF b = None THEN lastExplain ELSE b
        /\ eachSnippet' = << >> /\ lastChar' = c
        /\ UNCHANGED <<phase, placeholder>>
    BY DEF NextSnippet, IInv
  <2>2. CutLast(eachSnippet) \in Seq(Values) /\ BreakCut \in BOOLEAN
    BY CutLastType DEF IInv, TypeOK, BreakCut
  <2>. HIDE DEF b
  <2>3. /\ bends' \in Seq(Bends)
        /\ b = None => bends' = bends /\ Spans' = Spans
        /\ b # None => /\ b \in Nat \X Nat
                       /\ bends' # << >>
                       /\ b = <<Last(bends').from, Last(bends').to>>
                       /\ Spans' # << >> /\ Last(Spans') = b
                       /\ AB!Below(Spans) < b[1] /\ b[1] <= b[2]
                       /\ Spans' = Append(Spans, b)
    BY <2>1, <2>2, DrawsOrNot DEF b
  <2>4. IInv'
    BY <2>1, <2>3 DEF IInv, TypeOK
  <2>5. b # None => AB!Draw
    BY <2>3 DEF AB!Draw, AB!Last, Last, Spans
  <2>. QED  BY <2>1, <2>3, <2>4, <2>5 DEF AB!Next, AB!More, AB!vars, Spans
<1>3. CASE \E c \in Values : Continue(c)
  <2>. PICK c \in Values : Continue(c)
    BY <1>3
  <2>1. Grow(eachSnippet, c) \in Seq(Values)
    BY GrowType DEF IInv, TypeOK
  <2>2. IInv'
    BY <2>1 DEF Continue, IInv, TypeOK
  <2>. QED  BY <2>2 DEF Continue, AB!vars
<1>4. CASE Stop
  <2>1. PICK cut \in BOOLEAN : bends' = Drawn(Build(eachSnippet, cut))
    BY <1>4 DEF Stop
  <2>. DEFINE b == Build(eachSnippet, cut)
  <2>2. /\ phase = "open" /\ placeholder /\ bends' = Drawn(b)
        /\ placeholder' = FALSE /\ phase' = "stop"
        /\ UNCHANGED <<eachSnippet, lastChar, lastExplain>>
    BY <1>4, <2>1 DEF Stop, IInv
  <2>3. eachSnippet \in Seq(Values)
    BY DEF IInv, TypeOK
  <2>. HIDE DEF b
  <2>4. /\ bends' \in Seq(Bends)
        /\ b = None => bends' = bends /\ Spans' = Spans
        /\ b # None => /\ b \in Nat \X Nat
                       /\ Spans' # << >> /\ Last(Spans') = b
                       /\ AB!Below(Spans) < b[1] /\ b[1] <= b[2]
                       /\ Spans' = Append(Spans, b)
    BY <2>2, <2>3, DrawsOrNot DEF b
  <2>5. IInv'
    BY <2>2, <2>4 DEF IInv, TypeOK
  <2>6. b # None => AB!Draw
    BY <2>4 DEF AB!Draw, AB!Last, Last, Spans
  <2>. QED  BY <2>2, <2>4, <2>5, <2>6 DEF AB!Next, AB!Finish, Spans
<1>5. CASE EndOfStream
  BY <1>5 DEF EndOfStream, IInv, TypeOK, AB!vars
<1>6. CASE UNCHANGED vars
  BY <1>6 DEF vars, IInv, TypeOK, AB!vars
<1>. QED  BY <1>2, <1>3, <1>4, <1>5, <1>6 DEF Next

\* The initial state is one of AnchoredBends.
LEMMA InitRefines ==
    ASSUME Init
    PROVE  IInv /\ AB!Init
<1>1. IInv
  BY PlainValues DEF Init, IInv, TypeOK, None
<1>2. [i \in DOMAIN bends |-> <<bends[i].from, bends[i].to>>] = << >>
  BY DEF Init
<1>. QED  BY <1>1, <1>2 DEF Init, AB!Init

\* The state has its shape, and until the stream stops lastExplain is the
\* bend drawn last: the next snippet is looked up right below it.
THEOREM TypeCorrect == Spec => []TypeOK
<1>1. Init => IInv
  BY InitRefines
<1>2. IInv /\ [Next]_vars => IInv'
  BY StepRefines
<1>3. IInv => TypeOK
  BY DEF IInv
<1>. QED  BY <1>1, <1>2, <1>3, PTL DEF Spec

\* The bends drawn from a streamed answer appear from top to bottom, none
\* over another, none changed afterwards, and none after the placeholder
\* has gone: for every code, every answer and every cut into chunks.
THEOREM StreamImplementsBends == Spec => ImplementsBends
<1>1. Init => IInv /\ AB!Init
  BY InitRefines
<1>2. IInv /\ [Next]_vars => IInv' /\ [AB!Next]_(AB!vars)
  BY StepRefines
<1>. QED  BY <1>1, <1>2, PTL DEF Spec, ImplementsBends, AB!Spec

-----------------------------------------------------------------------------
(* A bend stands where its snippet was found.                              *)

\* The search for letters in a line goes on or starts again.
LEMMA TestType ==
    ASSUME NEW line \in Chunks, NEW from \in Nat
    PROVE  /\ Test(line, from) \in Nat
           /\ Test(line, from) > 0 => line.letters # {}
           /\ line.letters # {} => Test(line, 0) > 0
<1>. DEFINE hits == {p \in line.letters : p >= from}
<1>1. hits \subseteq Nat /\ line.letters \subseteq Nat
  BY DEF Chunks
<1>2. hits # {} => Min(hits) \in Nat
  BY <1>1, MinOfNats
<1>3. Test(line, from) = IF hits = {} THEN 0 ELSE Min(hits) + 1
  BY DEF Test
<1>4. ASSUME line.letters # {} PROVE Test(line, 0) > 0
  <2>. DEFINE all == {p \in line.letters : p >= 0}
  <2>1. all # {} /\ all \subseteq Nat
    BY <1>1, <1>4
  <2>2. Min(all) \in Nat
    BY <2>1, MinOfNats
  <2>3. Test(line, 0) = Min(all) + 1
    BY <2>1 DEF Test
  <2>. HIDE DEF all
  <2>. QED  BY <2>2, <2>3
<1>5. hits # {} => line.letters # {}
  OBVIOUS
<1>. HIDE DEF hits
<1>. QED  BY <1>2, <1>3, <1>4, <1>5

\* lastIndex is defined after each line of a snippet.
LEMMA LastIndexDefined ==
    ASSUME NEW code \in Seq(Chunks)
    PROVE  LastIndex(code) =
             [i \in 0 .. Len(code) |->
                IF i = 0 THEN 0 ELSE Test(code[i], LastIndex(code)[i - 1])]
<1>. DEFINE Follow(f, n) ==
              [i \in 0 .. n |-> IF i = 0 THEN 0 ELSE Test(code[i], f[i - 1])]
            Done == {n \in Nat : \E f : f = Follow(f, n)}
<1>1. 0 \in Done
  <2>. DEFINE f == [i \in 0 .. 0 |-> 0]
  <2>1. f = Follow(f, 0)
    OBVIOUS
  <2>. QED  BY <2>1
<1>2. ASSUME NEW n \in Nat, n \in Done PROVE n + 1 \in Done
  <2>1. PICK f : f = Follow(f, n)
    BY <1>2
  <2>. DEFINE g == [i \in 0 .. n + 1 |->
                      IF i = n + 1 THEN Test(code[i], f[n]) ELSE f[i]]
  <2>2. \A i \in 0 .. n : g[i] = f[i]
    OBVIOUS
  <2>3. \A i \in 0 .. n + 1 :
            g[i] = IF i = 0 THEN 0 ELSE Test(code[i], g[i - 1])
    <3>1. g[0] = 0
      BY <2>1
    <3>2. ASSUME NEW i \in 1 .. n PROVE g[i] = Test(code[i], g[i - 1])
      <4>1. f[i] = Test(code[i], f[i - 1])
        BY <2>1
      <4>2. g[i] = f[i] /\ g[i - 1] = f[i - 1]
        BY <2>2
      <4>. QED  BY <4>1, <4>2
    <3>3. g[n + 1] = Test(code[n + 1], g[n])
      BY <2>2
    <3>. QED  BY <3>1, <3>2, <3>3
  <2>4. g = [i \in 0 .. n + 1 |-> g[i]]
    OBVIOUS
  <2>. HIDE DEF g
  <2>5. g = Follow(g, n + 1)
    BY <2>3, <2>4
  <2>. HIDE DEF Follow
  <2>6. \E h : h = Follow(h, n + 1)
    BY <2>5
  <2>. QED  BY <2>6
<1>. HIDE DEF Done
<1>3. Len(code) \in Done
  BY <1>1, <1>2, NumberInduction
<1>4. \E f : f = Follow(f, Len(code))
  BY <1>3 DEF Done
<1>. QED  BY <1>4 DEF LastIndex

\* The first line is looked up if it has letters, and a later line unless the
\* line before it was.
LEMMA TestedLines ==
    ASSUME NEW code \in Seq(Chunks), NEW i \in DOMAIN code
    PROVE  /\ i \in Tested(code) => code[i].letters # {}
           /\ code[i].letters # {} /\ i \notin Tested(code) =>
                i > 1 /\ i - 1 \in Tested(code)
<1>. DEFINE f == LastIndex(code)
            n == Len(code)
<1>1. f = [j \in 0 .. n |-> IF j = 0 THEN 0 ELSE Test(code[j], f[j - 1])]
  BY LastIndexDefined
<1>2. n \in Nat /\ DOMAIN code = 1 .. n /\ \A j \in 1 .. n : code[j] \in Chunks
  OBVIOUS
<1>. HIDE DEF f, n
<1>3. f[0] = 0 /\ \A j \in 1 .. n : f[j] = Test(code[j], f[j - 1])
  BY <1>1, <1>2
<1>. DEFINE Numbers == {j \in Nat : j <= n => f[j] \in Nat}
<1>4. \A j \in Nat : j \in Numbers
  <2>1. 0 \in Numbers
    BY <1>3
  <2>2. ASSUME NEW j \in Nat, j \in Numbers PROVE j + 1 \in Numbers
    <3>1. SUFFICES ASSUME j + 1 <= n PROVE f[j + 1] \in Nat
      OBVIOUS
    <3>2. j + 1 \in 1 .. n /\ (j + 1) - 1 = j /\ f[j] \in Nat
      BY <1>2, <2>2, <3>1
    <3>. QED  BY <1>2, <1>3, <3>2, TestType
  <2>. HIDE DEF Numbers
  <2>. QED  BY <2>1, <2>2, NumberInduction
<1>5. i \in 1 .. n /\ i - 1 \in 0 .. n /\ f[i - 1] \in Nat
  BY <1>2, <1>4
<1>6. i \in Tested(code) <=> Test(code[i], f[i - 1]) > 0
  BY <1>3, <1>5 DEF Tested, f
<1>7. i \in Tested(code) => code[i].letters # {}
  BY <1>2, <1>5, <1>6, TestType
<1>8. ASSUME code[i].letters # {}, i \notin Tested(code)
      PROVE  i > 1 /\ i - 1 \in Tested(code)
  <2>1. f[i - 1] # 0
    <3>1. Test(code[i], 0) > 0
      BY <1>2, <1>5, <1>8, TestType
    <3>. QED  BY <1>6, <1>8, <3>1
  <2>2. i > 1 /\ i - 1 \in DOMAIN code
    BY <1>2, <1>3, <1>5, <2>1
  <2>3. f[i - 1] > 0
    BY <1>5, <2>1
  <2>. QED  BY <2>2, <2>3 DEF Tested, f
<1>. QED  BY <1>7, <1>8

\* The interval of a snippet that has a place: it holds the places of all lines
\* that were looked up, and ends at places.
LEMMA IntervalReaches ==
    ASSUME NEW code \in Seq(Chunks), Len(code) # 0, NEW cut \in BOOLEAN,
           NEW last \in Nat, ~FirstLineLost(code, last)
    PROVE  LET b == Interval(code, cut, last) IN
           /\ \A p \in Places(code, last) : b[1] <= p /\ p <= b[2]
           /\ {b[1], b[2]} \subseteq {last + 1} \cup Places(code, last)
<1>. DEFINE P == Places(code, last)
            E == EndLine(code, last)
<1>1. /\ {last + 1} \cup P \subseteq 0 .. last + 1 + CodeLines
      /\ last + 1 + CodeLines \in Nat /\ P \subseteq Nat
      /\ \A p \in P : p > last
  BY PlacesBelow, CodeAssumption
<1>2. E \in {last + 1} \cup P /\ \A p \in P : p <= E
  BY <1>1, MaxOfBounded DEF EndLine
<1>3. \A p \in P : Min(P) <= p /\ Min(P) \in P
  BY <1>1, MinOfNats
<1>4. CASE 1 \in Tested(code)
  <2>1. P # {}
    BY <1>4, PlacesBelow DEF FirstLineLost
  <2>. QED  BY <1>2, <1>3, <1>4, <2>1 DEF Interval
<1>5. CASE 1 \notin Tested(code)
  <2>1. \A p \in P : last + 1 <= p
    BY <1>1
  <2>. QED  BY <1>2, <1>5, <2>1 DEF Interval
<1>. QED  BY <1>4, <1>5

\* What is built for a snippet stands where the snippet was found.
LEMMA BuiltWhereFound ==
    ASSUME NEW code \in Seq(Chunks), Len(code) # 0, NEW cut \in BOOLEAN,
           NEW last \in Nat, NEW bend \in Bends,
           <<bend.from, bend.to>> = Interval(code, cut, last),
           ~(code[1].letters # {} /\ Matches(code[1], last) = {})
    PROVE  StandsWhereFound(code, last, bend)
<1>. DEFINE located == Located(code, last)
            ends == {last + 1} \cup {Place(code[i], last) : i \in located}
<1>0. 1 \in DOMAIN code /\ bend.from \in Nat /\ bend.to \in Nat
  BY EmptySeq DEF Bends
<1>1. ~FirstLineLost(code, last)
  BY <1>0, TestedLines DEF FirstLineLost
<1>2. /\ \A p \in Places(code, last) : bend.from <= p /\ p <= bend.to
      /\ {bend.from, bend.to} \subseteq {last + 1} \cup Places(code, last)
  BY <1>1, IntervalReaches
<1>3. Places(code, last) \subseteq Int
  BY PlacesBelow, CodeAssumption
<1>4. ASSUME NEW i \in located, i \in Tested(code)
      PROVE  Covers(bend, code[i], last)
  <2>1. Place(code[i], last) \in Places(code, last)
    BY <1>4 DEF Places, Place, Located
  <2>. QED  BY <1>0, <1>2, <1>3, <2>1 DEF Covers
<1>5. ASSUME NEW i \in located, ~Covers(bend, code[i], last)
      PROVE  /\ i > 1 /\ code[i - 1].letters # {}
             /\ i - 1 \in located => Covers(bend, code[i - 1], last)
  <2>1. i \in DOMAIN code /\ code[i].letters # {} /\ i \notin Tested(code)
    BY <1>4, <1>5 DEF Located
  <2>2. i > 1 /\ i - 1 \in Tested(code)
    BY <2>1, TestedLines
  <2>3. i - 1 \in DOMAIN code
    BY <2>2 DEF Tested
  <2>4. code[i - 1].letters # {}
    BY <2>2, <2>3, TestedLines
  <2>. QED  BY <1>4, <2>2, <2>4
<1>6. Places(code, last) \subseteq {Place(code[i], last) : i \in located}
  <2>1. ASSUME NEW i \in Tested(code), Matches(code[i], last) # {}
        PROVE  i \in located
    <3>1. i \in DOMAIN code
      BY <2>1 DEF Tested
    <3>. QED  BY <2>1, <3>1, TestedLines DEF Located
  <2>. QED  BY <2>1 DEF Places, Place
<1>7. {bend.from, bend.to} \subseteq ends
  BY <1>2, <1>6
<1>. QED  BY <1>5, <1>7 DEF StandsWhereFound

\* Wherever the chunks cut an answer and whatever the expression remembers of
\* the line before, a bend stands where its snippet was found: it passes over
\* no two lines in a row (buildBendWithStream).
THEOREM BendsCover == Spec => BendsCoverSnippets
<1>. DEFINE Stands ==
        bends' # bends =>
          LET s == IF phase' = "stop" THEN eachSnippet ELSE CutLast(eachSnippet)
              code == CodePart(s)
              last == lastExplain[2]
          IN \/ code[1].letters # {} /\ Matches(code[1], last) = {}
             \/ StandsWhereFound(code, last, Last(bends'))
<1>1. ASSUME IInv, [Next]_vars
      PROVE  Stands
  <2>1. ASSUME NEW s \in Seq(Values), NEW cut \in BOOLEAN, phase = "open",
               bends' = Drawn(Build(s, cut)), bends' # bends
        PROVE  LET code == CodePart(s)
                   last == lastExplain[2]
               IN \/ code[1].letters # {} /\ Matches(code[1], last) = {}
                  \/ StandsWhereFound(code, last, Last(bends'))
    <3>. DEFINE b == Build(s, cut)
                code == CodePart(s)
                last == lastExplain[2]
    <3>1. b # None /\ HasCode(s) /\ last \in Nat
      BY <1>1, <2>1 DEF Drawn, Build, IInv, TypeOK
    <3>2. /\ b = <<Last(bends').from, Last(bends').to>>
          /\ bends' \in Seq(Bends) /\ bends' # << >>
      BY <1>1, <2>1, <3>1, DrawsOrNot
    <3>3. code \in Seq(Chunks) /\ Len(code) # 0
      BY <3>1, CodePartType
    <3>4. b = Interval(code, cut, last)
      BY <3>1 DEF Build
    <3>5. Last(bends') \in Bends
      BY <3>2, EmptySeq DEF Last
    <3>. HIDE DEF b, code, last
    <3>6. \/ code[1].letters # {} /\ Matches(code[1], last) = {}
          \/ StandsWhereFound(code, last, Last(bends'))
      BY <3>1, <3>2, <3>3, <3>4, <3>5, BuiltWhereFound
    <3>. QED  BY <3>6 DEF code, last
  <2>2. /\ eachSnippet \in Seq(Values) /\ CutLast(eachSnippet) \in Seq(Values)
        /\ BreakCut \in BOOLEAN
    BY <1>1, CutLastType DEF IInv, TypeOK, BreakCut
  <2>3. ASSUME NEW c \in Values, NextSnippet(c) PROVE Stands
    <3>1. /\ phase = "open" /\ phase' # "stop"
          /\ bends' = Drawn(Build(CutLast(eachSnippet), BreakCut))
      BY <2>3 DEF NextSnippet
    <3>. QED  BY <2>1, <2>2, <3>1
  <2>4. CASE Stop
    <3>1. /\ phase = "open" /\ phase' = "stop"
          /\ \E cut \in BOOLEAN : bends' = Drawn(Build(eachSnippet, cut))
      BY <2>4 DEF Stop
    <3>. QED  BY <2>1, <2>2, <3>1
  <2>. QED  BY <1>1, <2>3, <2>4 DEF Next, Continue, EndOfStream, vars
<1>2. Init => IInv
  BY InitRefines
<1>3. IInv /\ [Next]_vars => IInv'
  BY StepRefines
<1>4. IInv /\ [Next]_vars => [Stands]_vars
  BY <1>1
<1>. QED  BY <1>2, <1>3, <1>4, PTL DEF Spec, BendsCoverSnippets

-----------------------------------------------------------------------------
(* Where the elements end up.                                              *)

\* The last line of the bend before bend k.
Above(k) == IF k = 1 THEN 0 ELSE bends[k - 1].to

\* The margin of a bend reaches down from the last line of the one before,
\* its height over its own lines.
Stacked ==
    \A k \in DOMAIN bends :
        /\ bends[k].marginTop = (bends[k].from - Above(k) - 1) * LineHeight + 2
        /\ bends[k].height = (bends[k].to - bends[k].from + 1) * LineHeight - 2

\* Drawing keeps the elements stacked.
LEMMA DrawStacks ==
    ASSUME TypeOK, Stacked, phase = "open", NEW s \in Seq(Values),
           NEW cut \in BOOLEAN, bends' = Drawn(Build(s, cut))
    PROVE  Stacked'
<1>. DEFINE b == Build(s, cut)
<1>1. CASE b = None
  BY <1>1 DEF Drawn, Stacked, Above
<1>2. CASE b # None
  <2>1. lastExplain \in Nat \X Nat /\ bends \in Seq(Bends)
    BY DEF TypeOK
  <2>2. b \in Nat \X Nat
    BY <1>2, <2>1, BuildBelow
  <2>. PICK n : n = Len(bends)
    OBVIOUS
  <2>. DEFINE v == Bend(b)
  <2>3. bends' = Append(bends, v)
    BY <1>2 DEF Drawn
  <2>. HIDE DEF b
  <2>4. /\ v \in Bends
        /\ v.marginTop = (v.from - lastExplain[2] - 1) * LineHeight + 2
        /\ v.height = (v.to - v.from + 1) * LineHeight - 2
    BY <2>1, <2>2, BendType DEF Bend
  <2>. HIDE DEF v
  <2>5. /\ n \in Nat /\ DOMAIN bends = 1 .. n /\ DOMAIN bends' = 1 .. n + 1
        /\ \A i \in 1 .. n : bends'[i] = bends[i]
        /\ bends'[n + 1] = v
    BY <2>1, <2>3, <2>4, AppendProperties
  <2>6. lastExplain[2] = IF n = 0 THEN 0 ELSE bends[n].to
    <3>1. CASE bends = << >>
      BY <3>1 DEF TypeOK, None
    <3>2. CASE bends # << >>
      <4>1. n # 0
        BY <2>1, <3>2, EmptySeq
      <4>. QED  BY <3>2, <4>1 DEF TypeOK, Last
    <3>. QED  BY <2>1, <3>1, <3>2, EmptySeq
  <2>7. \A k \in 1 .. n + 1 : k \in 1 .. n \/ k = n + 1
    BY <2>5
  <2>8. \A k \in 1 .. n : Above(k)' = Above(k)
    BY <2>5 DEF Above
  <2>9. Above(n + 1)' = lastExplain[2]
    BY <2>5, <2>6 DEF Above
  <2>10. ASSUME NEW k \in 1 .. n + 1
         PROVE  /\ bends'[k].marginTop
                     = (bends'[k].from - Above(k)' - 1) * LineHeight + 2
                /\ bends'[k].height
                     = (bends'[k].to - bends'[k].from + 1) * LineHeight - 2
    <3>1. CASE k \in 1 .. n
      BY <2>5, <2>8, <3>1 DEF Stacked
    <3>2. CASE k = n + 1
      BY <2>4, <2>5, <2>9, <3>2
    <3>. QED  BY <2>7, <3>1, <3>2
  <2>. QED  BY <2>5, <2>10 DEF Stacked
<1>. QED  BY <1>1, <1>2

\* So does every step.
LEMMA StepStacks ==
    ASSUME TypeOK, Stacked, [Next]_vars
    PROVE  Stacked'
<1>1. eachSnippet \in Seq(Values) /\ CutLast(eachSnippet) \in Seq(Values)
      /\ BreakCut \in BOOLEAN
  BY CutLastType DEF TypeOK, BreakCut
<1>2. ASSUME NEW c \in Values, NextSnippet(c) PROVE Stacked'
  <2>1. phase = "open" /\ bends' = Drawn(Build(CutLast(eachSnippet), BreakCut))
    BY <1>2 DEF NextSnippet
  <2>. QED  BY <1>1, <2>1, DrawStacks
<1>3. CASE Stop
  <2>1. phase = "open"
        /\ \E cut \in BOOLEAN : bends' = Drawn(Build(eachSnippet, cut))
    BY <1>3 DEF Stop
  <2>. QED  BY <1>1, <2>1, DrawStacks
<1>4. CASE UNCHANGED bends
  BY <1>4 DEF Stacked, Above
<1>. QED  BY <1>2, <1>3, <1>4 DEF Next, Continue, EndOfStream, vars

\* The room that the margins and the heights of some bends take.
Margins(S) == MapThenSumSet(LAMBDA j : bends[j].marginTop, S)
Heights(S) == MapThenSumSet(LAMBDA j : bends[j].height, S)

\* The room of the margins is what their prefix sums say.
LEMMA MarginSum ==
    ASSUME NEW n \in Nat, NEW F, NEW P, PrefixSums(P, F, n), NEW k \in 0 .. n,
           \A j \in 1 .. n : F[j] = bends[j].marginTop
    PROVE  Margins(1 .. k) = P[k]
<1>. DEFINE S == 1 .. k
            Adds(g) == g = [s \in SUBSET S |->
                              IF s = {} THEN 0
                              ELSE bends[Pick(s)].marginTop + g[s \ {Pick(s)}]]
<1>1. \A g : Adds(g) <=> Unfolds(g, F, S)
  <2>1. \A s \in SUBSET S : s # {} => F[Pick(s)] = bends[Pick(s)].marginTop
    <3>1. \A x \in S : x \in 1 .. n
      OBVIOUS
    <3>. QED  BY <3>1, PickIn
  <2>. HIDE DEF S
  <2>. QED  BY <2>1 DEF Unfolds
<1>2. S = 1 .. k
  OBVIOUS
<1>3. (\E g : Unfolds(g, F, S)) /\ \A g : Unfolds(g, F, S) => g[S] = P[k]
  <2>. HIDE DEF S
  <2>1. \A T : T = 1 .. k => \E g : Unfolds(g, F, T)
    BY IntervalSumExists
  <2>2. \A T, g : T = 1 .. k /\ Unfolds(g, F, T) => g[T] = P[k]
    BY IntervalSum
  <2>. QED  BY <1>2, <2>1, <2>2, Zenon
<1>. DEFINE room == CHOOSE g : Adds(g)
<1>4. Margins(S) = room[S]
  BY Zenon DEF Margins, MapThenSumSet, MapThenFoldSet, Pick
<1>. HIDE DEF Adds
<1>5. Adds(room)
  BY <1>1, <1>3, Zenon
<1>. HIDE DEF room
<1>. QED  BY <1>1, <1>3, <1>4, <1>5

\* So is that of the heights.
LEMMA HeightSum ==
    ASSUME NEW n \in Nat, NEW F, NEW P, PrefixSums(P, F, n), NEW k \in 0 .. n,
           \A j \in 1 .. n : F[j] = bends[j].height
    PROVE  Heights(1 .. k) = P[k]
<1>. DEFINE S == 1 .. k
            Adds(g) == g = [s \in SUBSET S |->
                              IF s = {} THEN 0
                              ELSE bends[Pick(s)].height + g[s \ {Pick(s)}]]
<1>1. \A g : Adds(g) <=> Unfolds(g, F, S)
  <2>1. \A s \in SUBSET S : s # {} => F[Pick(s)] = bends[Pick(s)].height
    <3>1. \A x \in S : x \in 1 .. n
      OBVIOUS
    <3>. QED  BY <3>1, PickIn
  <2>. HIDE DEF S
  <2>. QED  BY <2>1 DEF Unfolds
<1>2. S = 1 .. k
  OBVIOUS
<1>3. (\E g : Unfolds(g, F, S)) /\ \A g : Unfolds(g, F, S) => g[S] = P[k]
  <2>. HIDE DEF S
  <2>1. \A T : T = 1 .. k => \E g : Unfolds(g, F, T)
    BY IntervalSumExists
  <2>2. \A T, g : T = 1 .. k /\ Unfolds(g, F, T) => g[T] = P[k]
    BY IntervalSum
  <2>. QED  BY <1>2, <2>1, <2>2, Zenon
<1>. DEFINE room == CHOOSE g : Adds(g)
<1>4. Heights(S) = room[S]
  BY Zenon DEF Heights, MapThenSumSet, MapThenFoldSet, Pick
<1>. HIDE DEF Adds
<1>5. Adds(room)
  BY <1>1, <1>3, Zenon
<1>. HIDE DEF room
<1>. QED  BY <1>1, <1>3, <1>4, <1>5

\* Margins and heights together reach from the first line to each bend.
LEMMA StackReaches ==
    ASSUME bends \in Seq(Bends), Stacked, NEW n, n = Len(bends),
           NEW F, NEW P, PrefixSums(P, F, n),
           NEW G, NEW Q, PrefixSums(Q, G, n),
           \A j \in 1 .. n : F[j] = bends[j].marginTop /\ G[j] = bends[j].height
    PROVE  \A k \in 1 .. n : P[k] + Q[k - 1] = (bends[k].from - 1) * LineHeight + 2
<1>1. /\ n \in Nat /\ DOMAIN bends = 1 .. n
      /\ \A k \in 1 .. n : bends[k].from \in Int /\ bends[k].to \in Int
  <2>1. \A k \in 1 .. n : bends[k] \in Bends
    OBVIOUS
  <2>. QED  BY <2>1 DEF Bends
<1>. DEFINE H == {k \in Nat : k + 1 <= n =>
                    P[k + 1] + Q[k] = (bends[k + 1].from - 1) * LineHeight + 2}
<1>2. 0 \in H
  <2>. SUFFICES ASSUME 1 <= n
                PROVE  P[1] + Q[0] = (bends[1].from - 1) * LineHeight + 2
    OBVIOUS
  <2>1. 1 \in 1 .. n /\ P[1] = P[0] + F[1] /\ P[0] = 0 /\ Q[0] = 0
    BY <1>1 DEF PrefixSums
  <2>2. bends[1].marginTop = (bends[1].from - 0 - 1) * LineHeight + 2
    BY <1>1, <2>1 DEF Stacked, Above
  <2>3. F[1] = bends[1].marginTop /\ bends[1].from \in Int
    BY <1>1, <2>1
  <2>. QED  BY <2>1, <2>2, <2>3 DEF LineHeight
<1>3. ASSUME NEW k \in Nat, k \in H PROVE k + 1 \in H
  <2>. SUFFICES ASSUME (k + 1) + 1 <= n
                PROVE  P[(k + 1) + 1] + Q[k + 1]
                          = (bends[(k + 1) + 1].from - 1) * LineHeight + 2
    OBVIOUS
  <2>. PICK a, b : a = k + 1 /\ b = (k + 1) + 1
    OBVIOUS
  <2>1. a \in 1 .. n /\ b \in 1 .. n /\ b - 1 = a /\ a - 1 = k /\ b # 1
    BY <1>1
  <2>2. P[b] = P[a] + F[b] /\ P[a] \in Int
    BY <1>1, <2>1, PrefixSumStep
  <2>3. Q[a] = Q[k] + G[a] /\ Q[k] \in Int
    BY <1>1, <2>1, PrefixSumStep
  <2>4. P[a] + Q[k] = (bends[a].from - 1) * LineHeight + 2
    BY <1>3, <2>1
  <2>5. F[b] = (bends[b].from - bends[a].to - 1) * LineHeight + 2
    <3>1. Above(b) = bends[a].to
      BY <2>1, Zenon DEF Above
    <3>2. bends[b].marginTop = (bends[b].from - Above(b) - 1) * LineHeight + 2
      BY <1>1, <2>1 DEF Stacked
    <3>. QED  BY <2>1, <3>1, <3>2
  <2>6. G[a] = (bends[a].to - bends[a].from + 1) * LineHeight - 2
    BY <1>1, <2>1 DEF Stacked
  <2>7. PICK x \in Int, y \in Int, z \in Int :
            x = bends[a].from /\ y = bends[a].to /\ z = bends[b].from
    BY <1>1, <2>1
  <2>8. P[b] = P[a] + ((z - y - 1) * 18 + 2)
    BY <2>2, <2>5, <2>7 DEF LineHeight
  <2>9. Q[a] = Q[k] + ((y - x + 1) * 18 - 2)
    BY <2>3, <2>6, <2>7 DEF LineHeight
  <2>10. P[a] + Q[k] = (x - 1) * 18 + 2
    BY <2>4, <2>7 DEF LineHeight
  <2>11. P[b] + Q[a] = (z - 1) * 18 + 2
    BY ONLY <2>2, <2>3, <2>8, <2>9, <2>10, x \in Int, y \in Int, z \in Int
  <2>. QED  BY <2>7, <2>11 DEF LineHeight
<1>. HIDE DEF H
<1>4. \A k \in Nat : k \in H
  BY <1>2, <1>3, NumberInduction
<1>5. ASSUME NEW k \in 1 .. n
      PROVE  P[k] + Q[k - 1] = (bends[k].from - 1) * LineHeight + 2
  <2>1. k - 1 \in Nat /\ k - 1 \in H /\ (k - 1) + 1 = k
    BY <1>4
  <2>. QED  BY <2>1 DEF H
<1>. QED  BY <1>5

\* Stacked elements are beside their lines.
LEMMA BesideLines ==
    ASSUME TypeOK, Stacked
    PROVE  BendsBesideLines
<1>. PICK n : n = Len(bends)
  OBVIOUS
<1>1. bends \in Seq(Bends) /\ n \in Nat /\ DOMAIN bends = 1 .. n
  BY DEF TypeOK
<1>2. \A k \in 1 .. n : /\ bends[k].from \in Int /\ bends[k].to \in Int
                        /\ bends[k].marginTop \in Int /\ bends[k].height \in Int
  <2>1. \A k \in 1 .. n : bends[k] \in Bends
    BY <1>1
  <2>2. \A b \in Bends : /\ b.from \in Int /\ b.to \in Int
                         /\ b.marginTop \in Int /\ b.height \in Int
    BY DEF Bends
  <2>. QED  BY <2>1, <2>2
<1>. DEFINE F == [j \in 1 .. n |-> bends[j].marginTop]
            G == [j \in 1 .. n |-> bends[j].height]
<1>3. \A j \in 1 .. n : F[j] = bends[j].marginTop /\ G[j] = bends[j].height
  OBVIOUS
<1>. HIDE DEF F, G
<1>4. (\A j \in 1 .. n : F[j] \in Int) /\ (\A j \in 1 .. n : G[j] \in Int)
  BY <1>2, <1>3
<1>5. PICK P : PrefixSums(P, F, n)
  BY <1>1, <1>4, IntervalSums
<1>6. PICK Q : PrefixSums(Q, G, n)
  BY <1>1, <1>4, IntervalSums
<1>7. \A k \in 1 .. n : P[k] + Q[k - 1] = (bends[k].from - 1) * LineHeight + 2
  BY <1>1, <1>3, <1>5, <1>6, StackReaches
<1>8. ASSUME NEW k \in 1 .. n
      PROVE  /\ Top(k) = (bends[k].from - 1) * LineHeight + 2
             /\ Top(k) + bends[k].height = bends[k].to * LineHeight
  <2>1. k \in 0 .. n /\ k - 1 \in 0 .. n
    BY <1>1
  <2>2. Margins(1 .. k) = P[k]
    BY <1>1, <1>3, <1>5, <2>1, MarginSum
  <2>3. Heights(1 .. k - 1) = Q[k - 1]
    BY <1>1, <1>3, <1>6, <2>1, HeightSum
  <2>4. Top(k) = P[k] + Q[k - 1]
    BY <2>2, <2>3, Zenon DEF Top, Margins, Heights
  <2>5. Top(k) = (bends[k].from - 1) * LineHeight + 2
    BY <1>7, <2>4
  <2>6. bends[k].height = (bends[k].to - bends[k].from + 1) * LineHeight - 2
    BY <1>1 DEF Stacked
  <2>. QED  BY <1>2, <2>5, <2>6 DEF LineHeight
<1>. QED  BY <1>1, <1>8 DEF BendsBesideLines

\* However many bends an answer draws and whatever was rejected between them,
\* the stack of elements puts each beside its lines (buildBendWithStream).
THEOREM BesideLinesAlways == Spec => []BendsBesideLines
<1>1. Init => IInv /\ Stacked
  <2>1. Init => Stacked
    BY DEF Init, Stacked
  <2>. QED  BY <2>1, InitRefines
<1>2. IInv /\ Stacked /\ [Next]_vars => IInv' /\ Stacked'
  <2>1. IInv /\ [Next]_vars => IInv'
    BY StepRefines
  <2>2. IInv => TypeOK
    BY DEF IInv
  <2>. QED  BY <2>1, <2>2, StepStacks
<1>3. IInv /\ Stacked => BendsBesideLines
  BY BesideLines DEF IInv
<1>. QED  BY <1>1, <1>2, <1>3, PTL DEF Spec

-----------------------------------------------------------------------------
(* The bends of an answer are in order and apart.                          *)

BendsInOrder ==
    \A j \in DOMAIN bends :
        /\ 0 < bends[j].from /\ bends[j].from <= bends[j].to
        /\ \A i \in DOMAIN bends : i < j => bends[i].to < bends[j].from

\* A bend that is drawn is below all others, as it is below the last of them.
LEMMA DrawInOrder ==
    ASSUME TypeOK, BendsInOrder, phase = "open", NEW s \in Seq(Values),
           NEW cut \in BOOLEAN, bends' = Drawn(Build(s, cut))
    PROVE  BendsInOrder'
<1>. DEFINE b == Build(s, cut)
<1>1. CASE b = None
  BY <1>1 DEF Drawn, BendsInOrder
<1>2. CASE b # None
  <2>1. lastExplain \in Nat \X Nat /\ bends \in Seq(Bends)
    BY DEF TypeOK
  <2>2. b \in Nat \X Nat /\ lastExplain[2] < b[1] /\ b[1] <= b[2]
    BY <1>2, <2>1, BuildBelow
  <2>. PICK n : n = Len(bends)
    OBVIOUS
  <2>. DEFINE v == Bend(b)
  <2>3. bends' = Append(bends, v)
    BY <1>2 DEF Drawn
  <2>. HIDE DEF b
  <2>4. v \in Bends /\ lastExplain[2] < v.from /\ v.from <= v.to
    BY <2>1, <2>2, BendType
  <2>. HIDE DEF v
  <2>5. /\ n \in Nat /\ DOMAIN bends = 1 .. n /\ DOMAIN bends' = 1 .. n + 1
        /\ \A i \in 1 .. n : bends'[i] = bends[i] /\ bends[i] \in Bends
        /\ bends'[n + 1] = v
    BY <2>1, <2>3, <2>4, AppendProperties
  <2>6. lastExplain[2] = IF n = 0 THEN 0 ELSE bends[n].to
    <3>1. CASE bends = << >>
      BY <3>1 DEF TypeOK, None
    <3>2. CASE bends # << >>
      <4>1. n # 0
        BY <2>1, <3>2, EmptySeq
      <4>. QED  BY <3>2, <4>1 DEF TypeOK, Last
    <3>. QED  BY <2>1, <3>1, <3>2, EmptySeq
  <2>7. /\ v.from \in Nat /\ v.to \in Nat
        /\ \A i \in 1 .. n : bends[i].from \in Nat /\ bends[i].to \in Nat
    <3>1. \A w \in Bends : w.from \in Nat /\ w.to \in Nat
      BY DEF Bends
    <3>. QED  BY <2>4, <2>5, <3>1
  <2>8. 0 < v.from /\ \A i \in 1 .. n : bends[i].to < v.from
    <3>1. ASSUME NEW i \in 1 .. n
          PROVE  bends[i].to <= lastExplain[2]
      <4>1. n \in 1 .. n /\ lastExplain[2] = bends[n].to
        BY <2>5, <2>6, <3>1
      <4>2. CASE i = n
        BY <2>7, <4>1, <4>2
      <4>3. CASE i < n
        <5>1. bends[i].to < bends[n].from /\ bends[n].from <= bends[n].to
          BY <2>5, <4>1, <4>3 DEF BendsInOrder
        <5>. QED  BY <2>7, <4>1, <5>1
      <4>. QED  BY <2>5, <4>2, <4>3
    <3>2. lastExplain[2] \in Nat
      BY <2>1
    <3>. QED  BY <2>4, <2>7, <3>1, <3>2
  <2>9. ASSUME NEW j \in 1 .. n + 1
        PROVE  /\ 0 < bends'[j].from /\ bends'[j].from <= bends'[j].to
               /\ \A i \in 1 .. n + 1 : i < j => bends'[i].to < bends'[j].from
    <3>1. CASE j \in 1 .. n
      <4>1. \A i \in 1 .. n + 1 : i < j => i \in 1 .. n
        BY <2>5, <3>1
      <4>. QED  BY <2>5, <3>1, <4>1 DEF BendsInOrder
    <3>2. CASE j = n + 1
      <4>1. \A i \in 1 .. n + 1 : i < j => i \in 1 .. n
        BY <2>5, <3>2
      <4>. QED  BY <2>4, <2>5, <2>8, <3>2, <4>1
    <3>. QED  BY <2>5, <3>1, <3>2
  <2>. QED  BY <2>5, <2>9 DEF BendsInOrder
<1>. QED  BY <1>1, <1>2

\* The bends on display never share a line and stand in the order in which they
\* came, neighbours or not, however lines are found, lost or found twice
\* (matchCode looks for each line below the last one it explained).
THEOREM BendsAlwaysInOrder == Spec => []BendsInOrder
<1>1. Init => IInv /\ BendsInOrder
  <2>1. Init => BendsInOrder
    BY DEF Init, BendsInOrder
  <2>. QED  BY <2>1, InitRefines
<1>2. IInv /\ BendsInOrder /\ [Next]_vars => IInv' /\ BendsInOrder'
  <2>1. IInv /\ [Next]_vars => IInv'
    BY StepRefines
  <2>2. ASSUME TypeOK, BendsInOrder, [Next]_vars PROVE BendsInOrder'
    <3>1. /\ eachSnippet \in Seq(Values) /\ CutLast(eachSnippet) \in Seq(Values)
          /\ BreakCut \in BOOLEAN
      BY <2>2, CutLastType DEF TypeOK, BreakCut
    <3>2. ASSUME NEW c \in Values, NextSnippet(c) PROVE BendsInOrder'
      <4>1. phase = "open" /\ bends' = Drawn(Build(CutLast(eachSnippet), BreakCut))
        BY <3>2 DEF NextSnippet
      <4>. QED  BY <2>2, <3>1, <4>1, DrawInOrder
    <3>3. CASE Stop
      <4>1. phase = "open"
            /\ \E cut \in BOOLEAN : bends' = Drawn(Build(eachSnippet, cut))
        BY <3>3 DEF Stop
      <4>. QED  BY <2>2, <3>1, <4>1, DrawInOrder
    <3>4. CASE UNCHANGED bends
      BY <2>2, <3>4 DEF BendsInOrder
    <3>. QED  BY <2>2, <3>2, <3>3, <3>4 DEF Next, Continue, EndOfStream, vars
  <2>. QED  BY <2>1, <2>2 DEF IInv
<1>. QED  BY <1>1, <1>2, PTL DEF Spec
=============================================================================
