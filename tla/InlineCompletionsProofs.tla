----------------------- MODULE InlineCompletionsProofs -----------------------
(***************************************************************************)
(* Proofs about InlineCompletions, for any lines and any number of events, *)
(* whatever the suggest widget does.                                  *)
(***************************************************************************)
EXTENDS InlineCompletions, TLAPS

\* The live request of a session is about the present text.
LiveFresh == updateOperation # None => asked[updateOperation].text = text

\* SuggestListsKept, without the set of what is lost.
Kept ==
    \A i \in Ids :
        \/ i \in inflight \cup freed \cup thrown \/ i = cache
        \/ \E c \in commands : c.leaked = i
        \/ asked[i].by = "session"

\* TypeOK in parts.
Plain ==
    /\ events \in 0 .. MaxEvents /\ text \in Nat /\ line \in Lines
    /\ starts \in Nat
    /\ completionSession \in Lines \cup {None}
    /\ initialTriggerKind \in Kinds
    /\ suggestState \in SuggestStates
    /\ asked \in Seq(Requests)

Flags == updateSoon \in BOOLEAN /\ updateCacheSoon \in BOOLEAN

Held ==
    /\ inflight \subseteq Ids
    /\ cache \in (Ids \ inflight) \cup {None}
    /\ freed \subseteq Ids \ inflight
    /\ thrown \subseteq Ids \ inflight
    /\ filteredCompletions \in Ids \cup {None}
    /\ lastCompletionItem \in Ids \cup {None}
    /\ commands \subseteq [leaked : Ids \ inflight, of : Ids]

Live ==
    /\ updateOperation # None =>
        /\ updateOperation \in inflight
        /\ asked[updateOperation].by = "session"
    /\ suggestOperation # None =>
        /\ suggestOperation \in inflight
        /\ asked[suggestOperation].by = "suggest"

Idle ==
    completionSession = None =>
        ~updateSoon /\ updateOperation = None /\ filteredCompletions = None

Related == SessionOnItsLine /\ CacheHasOwner /\ LiveFresh

IInv == Plain /\ Flags /\ Held /\ Live /\ Idle /\ Related /\ Kept

-----------------------------------------------------------------------------
(* Numbers of requests. *)

\* Requests are numbered from 1, and None is no number.
LEMMA IdFacts ==
    ASSUME Plain
    PROVE  /\ Ids = 1 .. Len(asked)
           /\ Len(asked) \in Nat
           /\ None \notin Ids
           /\ \A i \in Ids : asked[i] \in Requests
BY DEF Plain, Ids, None

\* A new request has a new number and changes no other.
LEMMA AskFacts ==
    ASSUME Plain, NEW kind \in Kinds, NEW by \in {"session", "suggest"},
           Ask(kind, by)
    PROVE  /\ asked' \in Seq(Requests)
           /\ Len(asked') \notin Ids /\ Len(asked') # None /\ None \notin Ids
           /\ Ids' = Ids \cup {Len(asked')}
           /\ asked'[Len(asked')].text = text
           /\ asked'[Len(asked')].by = by
           /\ \A i \in Ids : asked'[i] = asked[i]
           /\ inflight' = inflight \cup {Len(asked')} /\ thrown' = thrown
<1>1. asked \in Seq(Requests) /\ text \in Nat BY DEF Plain
<1>2. [text |-> text, kind |-> kind, by |-> by] \in Requests
  BY <1>1 DEF Requests
<1>3. asked' = Append(asked, [text |-> text, kind |-> kind, by |-> by])
  BY DEF Ask
<1>4. /\ Len(asked') = Len(asked) + 1
      /\ asked' \in Seq(Requests)
      /\ asked'[Len(asked) + 1] = [text |-> text, kind |-> kind, by |-> by]
      /\ \A i \in 1 .. Len(asked) : asked'[i] = asked[i]
  BY <1>1, <1>2, <1>3
<1>. QED BY <1>1, <1>4, IdFacts DEF Ask, Ids, None

-----------------------------------------------------------------------------
\* The invariant holds at the start.
LEMMA InitHolds == Init => IInv
<1>. SUFFICES ASSUME Init PROVE IInv
  OBVIOUS
<1>1. asked = << >> /\ asked \in Seq(Requests) /\ Ids = {}
  BY DEF Init, Ids
<1>2. Plain
  BY <1>1, LinesAssumption, MaxEventsAssumption
     DEF Init, Plain, None, Kinds, SuggestStates
<1>4. Flags
  BY DEF Init, Flags
<1>3. Held
  BY <1>1 DEF Init, Held
<1>. QED
  BY <1>1, <1>2, <1>3, <1>4
     DEF Init, IInv, Live, Idle, Related, SessionOnItsLine, CacheHasOwner,
         Kept, LiveFresh

\* An edit of the text keeps the invariant: the session's request is
\* cancelled, or the session is hidden.
LEMMA EditKeeps ==
    ASSUME IInv, NEW l \in Lines, NEW typed \in BOOLEAN, Edit(l, typed)
    PROVE  IInv'
<1>. USE DEF Edit, Event, SessionFollows, FilterAndFire,
       ScheduleAutomaticUpdate, Hide, DisposeSession, SetCache,
       sessionVars, cacheVars, requestVars
<1>1. Ids' = Ids /\ None \notin Ids /\ None \notin Lines
  BY IdFacts, LinesAssumption DEF IInv, Ids, None
<1>2. Plain'
  BY <1>1, MaxEventsAssumption DEF IInv, Plain, Kinds, SuggestStates
<1>3. Flags'
  BY DEF IInv, Flags
<1>4. Held'
  BY <1>1 DEF IInv, Held
<1>5. Live' /\ Idle'
  BY <1>1 DEF IInv, Live, Idle, Plain, Held
<1>6. Related'
  BY <1>1 DEF IInv, Plain, Held, Live, Idle, Related,
     SessionOnItsLine, CacheHasOwner, LiveFresh
<1>7. Kept'
  BY <1>1 DEF IInv, Held, Live, Kept
<1>. QED BY <1>2, <1>3, <1>4, <1>5, <1>6, <1>7 DEF IInv

\* Moving the cursor hides the session.
LEMMA MoveOrBlurKeeps ==
    ASSUME IInv, NEW l \in Lines, MoveOrBlur(l)
    PROVE  IInv'
<1>. USE DEF MoveOrBlur, Event, Hide, DisposeSession, SetCache, sessionVars,
       cacheVars, requestVars
<1>1. Ids' = Ids /\ None \notin Ids /\ None \notin Lines
  BY IdFacts, LinesAssumption DEF IInv, Ids, None
<1>2. Plain'
  BY <1>1, MaxEventsAssumption DEF IInv, Plain, Kinds, SuggestStates
<1>3. Flags'
  BY DEF IInv, Flags
<1>4. Held'
  BY <1>1 DEF IInv, Held
<1>5. Live' /\ Idle'
  BY <1>1 DEF IInv, Live, Idle, Plain, Held
<1>6. Related'
  BY <1>1 DEF IInv, Plain, Held, Live, Idle, Related,
     SessionOnItsLine, CacheHasOwner, LiveFresh
<1>7. Kept'
  BY <1>1 DEF IInv, Held, Live, Kept
<1>. QED BY <1>2, <1>3, <1>4, <1>5, <1>6, <1>7 DEF IInv

\* A jump to another line hides the session.
LEMMA JumpKeeps ==
    ASSUME IInv, NEW l \in Lines, Jump(l)
    PROVE  IInv'
<1>. USE DEF Jump, Event, UpdateModel, FilterAndFire,
       ScheduleAutomaticUpdate, Hide, DisposeSession, SetCache,
       sessionVars, cacheVars, requestVars
<1>1. Ids' = Ids /\ None \notin Ids /\ None \notin Lines
  BY IdFacts, LinesAssumption DEF IInv, Ids, None
<1>2. Plain'
  BY <1>1, MaxEventsAssumption DEF IInv, Plain, Kinds, SuggestStates
<1>3. Flags'
  BY DEF IInv, Flags
<1>4. Held'
  BY <1>1 DEF IInv, Held
<1>5. Live' /\ Idle'
  BY <1>1 DEF IInv, Live, Idle, Plain, Held
<1>6. Related'
  BY <1>1 DEF IInv, Plain, Held, Live, Idle, Related,
     SessionOnItsLine, CacheHasOwner, LiveFresh
<1>7. Kept'
  BY <1>1 DEF IInv, Held, Live, Kept
<1>. QED BY <1>2, <1>3, <1>4, <1>5, <1>6, <1>7 DEF IInv

\* A commit keeps the list of the cache for the command or frees it.
LEMMA CommitKeeps ==
    ASSUME IInv, NEW l \in Lines, Commit(l)
    PROVE  IInv'
<1>. USE DEF Commit, Event, Offered, ScheduleAutomaticUpdate, DisposeSession,
       requestVars
<1>1. Ids' = Ids /\ None \notin Ids /\ None \notin Lines
  BY IdFacts, LinesAssumption DEF IInv, Ids, None
<1>2. Plain'
  BY <1>1, MaxEventsAssumption DEF IInv, Plain, Kinds, SuggestStates
<1>3. Flags'
  BY DEF IInv, Flags
<1>4. Held'
  BY <1>1 DEF IInv, Held
<1>5. Live' /\ Idle'
  BY <1>1 DEF IInv, Live, Idle, Plain, Held
<1>6. Related'
  BY <1>1 DEF IInv, Plain, Held, Live, Idle, Related,
     SessionOnItsLine, CacheHasOwner, LiveFresh
<1>7. Kept'
  <2>1. SUFFICES ASSUME NEW i \in Ids,
                        i \notin inflight \cup freed' \cup thrown,
                        asked[i].by # "session"
                 PROVE  \E c \in commands' : c.leaked = i
    BY <1>1 DEF Kept
  <2>2. i = cache \/ \E c \in commands : c.leaked = i
    BY <2>1 DEF IInv, Kept
  <2>. DEFINE new == [leaked |-> cache, of |-> filteredCompletions]
  <2>3. new.leaked = cache /\ (i = cache => new \in commands')
    BY <2>1
  <2>4. commands \subseteq commands'
    OBVIOUS
  <2>. QED BY <2>2, <2>3, <2>4
<1>. QED BY <1>2, <1>3, <1>4, <1>5, <1>6, <1>7 DEF IInv

\* Another document: nothing is left but what is in flight.
LEMMA UpdateModelControllerKeeps ==
    ASSUME IInv, NEW l \in Lines, UpdateModelController(l)
    PROVE  IInv'
<1>. USE DEF UpdateModelController, Event, DisposeSession, SetCache,
       requestVars
<1>1. Ids' = Ids /\ None \notin Ids /\ None \notin Lines
  BY IdFacts, LinesAssumption DEF IInv, Ids, None
<1>2. Plain'
  BY <1>1, MaxEventsAssumption DEF IInv, Plain, Kinds, SuggestStates
<1>3. Flags'
  BY DEF IInv, Flags
<1>4. Held'
  BY <1>1 DEF IInv, Held
<1>5. Live' /\ Idle'
  BY <1>1 DEF IInv, Live, Idle, Plain, Held
<1>6. Related'
  BY <1>1 DEF IInv, Plain, Held, Live, Idle, Related,
     SessionOnItsLine, CacheHasOwner, LiveFresh
<1>7. Kept'
  BY <1>1 DEF IInv, Held, Live, Kept
<1>. QED BY <1>2, <1>3, <1>4, <1>5, <1>6, <1>7 DEF IInv

\* A triggered session starts on the cursor's line.
LEMMA TriggerKeeps ==
    ASSUME IInv, Trigger
    PROVE  IInv'
<1>. USE DEF Trigger, Event, NewSession, sessionVars, cacheVars, requestVars,
       suggestVars, userVars
<1>1. Ids' = Ids /\ None \notin Ids /\ None \notin Lines
  BY IdFacts, LinesAssumption DEF IInv, Ids, None
<1>2. Plain'
  BY <1>1, MaxEventsAssumption DEF IInv, Plain, Kinds, SuggestStates
<1>3. Flags'
  BY DEF IInv, Flags
<1>4. Held'
  BY <1>1 DEF IInv, Held
<1>5. Live' /\ Idle'
  BY <1>1 DEF IInv, Live, Idle, Plain, Held
<1>6. Related'
  BY <1>1 DEF IInv, Plain, Held, Live, Idle, Related,
     SessionOnItsLine, CacheHasOwner, LiveFresh
<1>7. Kept'
  BY <1>1 DEF IInv, Held, Live, Kept
<1>. QED BY <1>2, <1>3, <1>4, <1>5, <1>6, <1>7 DEF IInv

\* The suggest widget only cancels and schedules.
LEMMA SuggestChangesKeeps ==
    ASSUME IInv, NEW s \in SuggestStates, SuggestChanges(s)
    PROVE  IInv'
<1>. USE DEF SuggestChanges, Event, UpdateModel, ScheduleAutomaticUpdate,
       requestVars, cacheVars
<1>1. Ids' = Ids /\ None \notin Ids /\ None \notin Lines
  BY IdFacts, LinesAssumption DEF IInv, Ids, None
<1>2. Plain'
  BY <1>1, MaxEventsAssumption DEF IInv, Plain, Kinds, SuggestStates
<1>3. Flags'
  BY DEF IInv, Flags
<1>4. Held'
  BY <1>1 DEF IInv, Held
<1>5. Live' /\ Idle'
  BY <1>1 DEF IInv, Live, Idle, Plain, Held
<1>6. Related'
  BY <1>1 DEF IInv, Plain, Held, Live, Idle, Related,
     SessionOnItsLine, CacheHasOwner, LiveFresh
<1>7. Kept'
  BY <1>1 DEF IInv, Held, Live, Kept
<1>. QED BY <1>2, <1>3, <1>4, <1>5, <1>6, <1>7 DEF IInv

\* A change of the registry only schedules.
LEMMA RegistryChangesKeeps ==
    ASSUME IInv, RegistryChanges
    PROVE  IInv'
<1>. USE DEF RegistryChanges, Event, suggestVars, requestVars, cacheVars
<1>1. Ids' = Ids /\ None \notin Ids /\ None \notin Lines
  BY IdFacts, LinesAssumption DEF IInv, Ids, None
<1>2. Plain'
  BY <1>1, MaxEventsAssumption DEF IInv, Plain, Kinds, SuggestStates
<1>3. Flags'
  BY DEF IInv, Flags
<1>4. Held'
  BY <1>1 DEF IInv, Held
<1>5. Live' /\ Idle'
  BY <1>1 DEF IInv, Live, Idle, Plain, Held
<1>6. Related'
  BY <1>1 DEF IInv, Plain, Held, Live, Idle, Related,
     SessionOnItsLine, CacheHasOwner, LiveFresh
<1>7. Kept'
  BY <1>1 DEF IInv, Held, Live, Kept
<1>. QED BY <1>2, <1>3, <1>4, <1>5, <1>6, <1>7 DEF IInv

\* A session that starts is on the cursor's line.
LEMMA StartKeeps ==
    ASSUME IInv, StartSessionIfTriggered
    PROVE  IInv'
<1>. USE DEF StartSessionIfTriggered, NewSession, sessionVars, cacheVars,
       requestVars, suggestVars, userVars
<1>1. Ids' = Ids /\ None \notin Ids /\ None \notin Lines
  BY IdFacts, LinesAssumption DEF IInv, Ids, None
<1>2. Plain'
  BY <1>1, MaxEventsAssumption DEF IInv, Plain, Kinds, SuggestStates
<1>3. Flags'
  BY DEF IInv, Flags
<1>4. Held'
  BY <1>1 DEF IInv, Held
<1>5. Live' /\ Idle'
  BY <1>1 DEF IInv, Live, Idle, Plain, Held
<1>6. Related'
  BY <1>1 DEF IInv, Plain, Held, Live, Idle, Related,
     SessionOnItsLine, CacheHasOwner, LiveFresh
<1>7. Kept'
  BY <1>1 DEF IInv, Held, Live, Kept
<1>. QED BY <1>2, <1>3, <1>4, <1>5, <1>6, <1>7 DEF IInv

\* A command that ends frees its list.
LEMMA CommandDoneKeeps ==
    ASSUME IInv, NEW c \in commands, CommandDone(c)
    PROVE  IInv'
<1>. USE DEF CommandDone, sessionVars, cacheVars, requestVars, suggestVars,
       userVars
<1>1. Ids' = Ids /\ None \notin Ids /\ None \notin Lines
  BY IdFacts, LinesAssumption DEF IInv, Ids, None
<1>2. Plain'
  BY <1>1, MaxEventsAssumption DEF IInv, Plain, Kinds, SuggestStates
<1>3. Flags'
  BY DEF IInv, Flags
<1>4. Held'
  BY <1>1 DEF IInv, Held
<1>5. Live' /\ Idle'
  BY <1>1 DEF IInv, Live, Idle, Plain, Held
<1>6. Related'
  BY <1>1 DEF IInv, Plain, Held, Live, Idle, Related,
     SessionOnItsLine, CacheHasOwner, LiveFresh
<1>7. Kept'
  BY <1>1 DEF IInv, Held, Live, Kept
<1>. QED BY <1>2, <1>3, <1>4, <1>5, <1>6, <1>7 DEF IInv

\* A session's answer enters the cache only if it was not cancelled.
LEMMA AnswerKeeps ==
    ASSUME IInv, NEW i \in inflight, Answer(i)
    PROVE  IInv'
<1>. USE DEF Answer, Arrives, Ends, FilterAndFire, SetCache, sessionVars,
       cacheVars, requestVars, suggestVars, userVars
<1>1. Ids' = Ids /\ None \notin Ids /\ None \notin Lines
  BY IdFacts, LinesAssumption DEF IInv, Ids, None
<1>2. Plain'
  BY <1>1, MaxEventsAssumption DEF IInv, Plain, Kinds, SuggestStates
<1>3. Flags'
  BY DEF IInv, Flags
<1>4. Held'
  BY <1>1 DEF IInv, Held
<1>5. Live' /\ Idle'
  BY <1>1 DEF IInv, Live, Idle, Plain, Held
<1>6. Related'
  BY <1>1 DEF IInv, Plain, Held, Live, Idle, Related,
     SessionOnItsLine, CacheHasOwner, LiveFresh
<1>7. Kept'
  BY <1>1 DEF IInv, Held, Live, Kept
<1>. QED BY <1>2, <1>3, <1>4, <1>5, <1>6, <1>7 DEF IInv

\* An answer for the preview enters the cache or is freed.
LEMMA SuggestAnswerKeeps ==
    ASSUME IInv, NEW i \in inflight, SuggestAnswer(i)
    PROVE  IInv'
<1>. USE DEF SuggestAnswer, Arrives, Ends, UpdateModel, ScheduleAutomaticUpdate,
       SetCache, sessionVars, cacheVars, requestVars, suggestVars,
       userVars
<1>1. Ids' = Ids /\ None \notin Ids /\ None \notin Lines
  BY IdFacts, LinesAssumption DEF IInv, Ids, None
<1>2. Plain'
  BY <1>1, MaxEventsAssumption DEF IInv, Plain, Kinds, SuggestStates
<1>3. Flags'
  BY DEF IInv, Flags
<1>4. Held'
  BY <1>1 DEF IInv, Held
<1>5. Live' /\ Idle'
  BY <1>1 DEF IInv, Live, Idle, Plain, Held
<1>6. Related'
  BY <1>1 DEF IInv, Plain, Held, Live, Idle, Related,
     SessionOnItsLine, CacheHasOwner, LiveFresh
<1>7. Kept'
  BY <1>1 DEF IInv, Held, Live, Kept
<1>. QED BY <1>2, <1>3, <1>4, <1>5, <1>6, <1>7 DEF IInv

\* A request that fails brings no list, or drops what it was brought.
LEMMA FailKeeps ==
    ASSUME IInv, NEW i \in inflight, Fail(i)
    PROVE  IInv'
<1>. USE DEF Fail, Arrives, Ends, sessionVars, cacheVars, requestVars, suggestVars,
       userVars
<1>1. Ids' = Ids /\ None \notin Ids /\ None \notin Lines
  BY IdFacts, LinesAssumption DEF IInv, Ids, None
<1>2. Plain'
  BY <1>1, MaxEventsAssumption DEF IInv, Plain, Kinds, SuggestStates
<1>3. Flags'
  BY DEF IInv, Flags
<1>4. Held'
  BY <1>1 DEF IInv, Held
<1>5. Live' /\ Idle'
  BY <1>1 DEF IInv, Live, Idle, Plain, Held
<1>6. Related'
  BY <1>1 DEF IInv, Plain, Held, Live, Idle, Related,
     SessionOnItsLine, CacheHasOwner, LiveFresh
<1>7. Kept'
  BY <1>1 DEF IInv, Held, Live, Kept
<1>. QED BY <1>2, <1>3, <1>4, <1>5, <1>6, <1>7 DEF IInv

\* A session that asks has a new number to reckon with, about the present text.
LEMMA UpdateKeeps ==
    ASSUME IInv, Update
    PROVE  IInv'
<1>. USE DEF Update, userVars, requestVars, suggestVars, cacheVars
<1>1. CASE Active
  <2>1. initialTriggerKind \in Kinds /\ Ask(initialTriggerKind, "session")
    BY <1>1 DEF IInv, Plain, Kinds
  <2>2. /\ asked' \in Seq(Requests)
        /\ Len(asked') \notin Ids /\ Len(asked') # None /\ None \notin Ids
        /\ Ids' = Ids \cup {Len(asked')}
        /\ asked'[Len(asked')].text = text
        /\ asked'[Len(asked')].by = "session"
        /\ \A i \in Ids : asked'[i] = asked[i]
        /\ inflight' = inflight \cup {Len(asked')} /\ thrown' = thrown
    BY <2>1, AskFacts, IdFacts DEF IInv
  <2>3. Plain' /\ Flags'
    <3>1. Plain'
      BY <1>1, <2>2, MaxEventsAssumption
      DEF IInv, Plain, Kinds, SuggestStates
    <3>2. Flags'
      BY <1>1 DEF IInv, Flags
    <3>. QED BY <3>1, <3>2
  <2>4. Held'
    BY <1>1, <2>2 DEF IInv, Held
  <2>5. Live' /\ Idle'
    BY <1>1, <2>2 DEF IInv, Live, Idle, Plain, Held
  <2>6. Related'
    BY <1>1, <2>2 DEF IInv, Plain, Held, Live, Idle, Related,
       SessionOnItsLine, CacheHasOwner, LiveFresh
  <2>7. Kept'
    BY <1>1, <2>2 DEF IInv, Held, Live, Kept
  <2>. QED BY <2>3, <2>4, <2>5, <2>6, <2>7 DEF IInv
<1>2. CASE ~(Active)
  <2>2. Ids' = Ids /\ None \notin Ids /\ asked' = asked
    BY <1>2, IdFacts DEF IInv, Ids
  <2>3. Plain' /\ Flags'
    <3>1. Plain'
      BY <1>2, <2>2, MaxEventsAssumption
      DEF IInv, Plain, Kinds, SuggestStates
    <3>2. Flags'
      BY <1>2 DEF IInv, Flags
    <3>. QED BY <3>1, <3>2
  <2>4. Held'
    BY <1>2, <2>2 DEF IInv, Held
  <2>5. Live' /\ Idle'
    BY <1>2, <2>2 DEF IInv, Live, Idle, Plain, Held
  <2>6. Related'
    BY <1>2, <2>2 DEF IInv, Plain, Held, Live, Idle, Related,
       SessionOnItsLine, CacheHasOwner, LiveFresh
  <2>7. Kept'
    BY <1>2, <2>2 DEF IInv, Held, Live, Kept
  <2>. QED BY <2>3, <2>4, <2>5, <2>6, <2>7 DEF IInv
<1>. QED BY <1>1, <1>2

\* So has the preview.
LEMMA UpdateCacheKeeps ==
    ASSUME IInv, UpdateCache
    PROVE  IInv'
<1>. USE DEF UpdateCache, SetCache, userVars, requestVars, sessionVars,
       cacheVars
<1>1. CASE suggestState = "item"
  <2>1. "Automatic" \in Kinds /\ Ask("Automatic", "suggest")
    BY <1>1 DEF IInv, Plain, Kinds
  <2>2. /\ asked' \in Seq(Requests)
        /\ Len(asked') \notin Ids /\ Len(asked') # None /\ None \notin Ids
        /\ Ids' = Ids \cup {Len(asked')}
        /\ asked'[Len(asked')].text = text
        /\ asked'[Len(asked')].by = "suggest"
        /\ \A i \in Ids : asked'[i] = asked[i]
        /\ inflight' = inflight \cup {Len(asked')} /\ thrown' = thrown
    BY <2>1, AskFacts, IdFacts DEF IInv
  <2>3. Plain' /\ Flags'
    <3>1. Plain'
      BY <1>1, <2>2, MaxEventsAssumption
      DEF IInv, Plain, Kinds, SuggestStates
    <3>2. Flags'
      BY <1>1 DEF IInv, Flags
    <3>. QED BY <3>1, <3>2
  <2>4. Held'
    BY <1>1, <2>2 DEF IInv, Held
  <2>5. Live' /\ Idle'
    BY <1>1, <2>2 DEF IInv, Live, Idle, Plain, Held
  <2>6. Related'
    BY <1>1, <2>2 DEF IInv, Plain, Held, Live, Idle, Related,
       SessionOnItsLine, CacheHasOwner, LiveFresh
  <2>7. Kept'
    BY <1>1, <2>2 DEF IInv, Held, Live, Kept
  <2>. QED BY <2>3, <2>4, <2>5, <2>6, <2>7 DEF IInv
<1>2. CASE ~(suggestState = "item")
  <2>2. Ids' = Ids /\ None \notin Ids /\ asked' = asked
    BY <1>2, IdFacts DEF IInv, Ids
  <2>3. Plain' /\ Flags'
    <3>1. Plain'
      BY <1>2, <2>2, MaxEventsAssumption
      DEF IInv, Plain, Kinds, SuggestStates
    <3>2. Flags'
      BY <1>2 DEF IInv, Flags
    <3>. QED BY <3>1, <3>2
  <2>4. Held'
    BY <1>2, <2>2 DEF IInv, Held
  <2>5. Live' /\ Idle'
    BY <1>2, <2>2 DEF IInv, Live, Idle, Plain, Held
  <2>6. Related'
    BY <1>2, <2>2 DEF IInv, Plain, Held, Live, Idle, Related,
       SessionOnItsLine, CacheHasOwner, LiveFresh
  <2>7. Kept'
    BY <1>2, <2>2 DEF IInv, Held, Live, Kept
  <2>. QED BY <2>3, <2>4, <2>5, <2>6, <2>7 DEF IInv
<1>. QED BY <1>1, <1>2

\* Asking explicitly replaces a request that is not explicit.
LEMMA EnsureKeeps ==
    ASSUME IInv, EnsureUpdateWithExplicitContext
    PROVE  IInv'
<1>. USE DEF Event, requestVars, suggestVars, cacheVars
<1>0. /\ Event /\ completionSession # None
      /\ UNCHANGED <<text, line, starts, completionSession, initialTriggerKind,
                     updateSoon, filteredCompletions, lastCompletionItem,
                     suggestVars, cacheVars, commands>>
  BY DEF EnsureUpdateWithExplicitContext
<1>1. CASE Ask("Explicit", "session") /\ updateOperation' = Len(asked')
  <2>1. "Explicit" \in Kinds /\ Ask("Explicit", "session")
    BY <1>0, <1>1 DEF IInv, Plain, Kinds
  <2>2. /\ asked' \in Seq(Requests)
        /\ Len(asked') \notin Ids /\ Len(asked') # None /\ None \notin Ids
        /\ Ids' = Ids \cup {Len(asked')}
        /\ asked'[Len(asked')].text = text
        /\ asked'[Len(asked')].by = "session"
        /\ \A i \in Ids : asked'[i] = asked[i]
        /\ inflight' = inflight \cup {Len(asked')} /\ thrown' = thrown
    BY <2>1, AskFacts, IdFacts DEF IInv
  <2>3. Plain' /\ Flags'
    <3>1. Plain'
      BY <1>0, <1>1, <2>2, MaxEventsAssumption
      DEF IInv, Plain, Kinds, SuggestStates
    <3>2. Flags'
      BY <1>0, <1>1 DEF IInv, Flags
    <3>. QED BY <3>1, <3>2
  <2>4. Held'
    BY <1>0, <1>1, <2>2 DEF IInv, Held
  <2>5. Live' /\ Idle'
    BY <1>0, <1>1, <2>2 DEF IInv, Live, Idle, Plain, Held
  <2>6. Related'
    BY <1>0, <1>1, <2>2 DEF IInv, Plain, Held, Live, Idle, Related,
       SessionOnItsLine, CacheHasOwner, LiveFresh
  <2>7. Kept'
    BY <1>0, <1>1, <2>2 DEF IInv, Held, Live, Kept
  <2>. QED BY <2>3, <2>4, <2>5, <2>6, <2>7 DEF IInv
<1>2. CASE UNCHANGED <<requestVars, updateOperation>>
  <2>2. Ids' = Ids /\ None \notin Ids /\ asked' = asked
    BY <1>0, <1>2, IdFacts DEF IInv, Ids
  <2>3. Plain' /\ Flags'
    <3>1. Plain'
      BY <1>0, <1>2, <2>2, MaxEventsAssumption
      DEF IInv, Plain, Kinds, SuggestStates
    <3>2. Flags'
      BY <1>0, <1>2 DEF IInv, Flags
    <3>. QED BY <3>1, <3>2
  <2>4. Held'
    BY <1>0, <1>2, <2>2 DEF IInv, Held
  <2>5. Live' /\ Idle'
    BY <1>0, <1>2, <2>2 DEF IInv, Live, Idle, Plain, Held
  <2>6. Related'
    BY <1>0, <1>2, <2>2 DEF IInv, Plain, Held, Live, Idle, Related,
       SessionOnItsLine, CacheHasOwner, LiveFresh
  <2>7. Kept'
    BY <1>0, <1>2, <2>2 DEF IInv, Held, Live, Kept
  <2>. QED BY <2>3, <2>4, <2>5, <2>6, <2>7 DEF IInv
<1>. QED BY <1>1, <1>2 DEF EnsureUpdateWithExplicitContext

\* Every step keeps the invariant.
LEMMA NextKeeps == IInv /\ [Next]_vars => IInv'
<1>. SUFFICES ASSUME IInv, [Next]_vars PROVE IInv'
  OBVIOUS
<1>1. CASE UserNext
  BY <1>1, EditKeeps, MoveOrBlurKeeps, JumpKeeps, CommitKeeps,
     UpdateModelControllerKeeps, TriggerKeeps, EnsureKeeps, SuggestChangesKeeps,
     RegistryChangesKeeps DEF UserNext
<1>2. CASE ProviderNext
  BY <1>2, AnswerKeeps, SuggestAnswerKeeps, FailKeeps DEF ProviderNext
<1>3. CASE UNCHANGED vars
  BY <1>3 DEF vars, userVars, sessionVars, suggestVars, requestVars, cacheVars,
     IInv, Plain, Flags, Held, Live, Idle, Related, SessionOnItsLine,
     CacheHasOwner, LiveFresh, Kept, Ids
<1>. QED
  BY <1>1, <1>2, <1>3, StartKeeps, UpdateKeeps, UpdateCacheKeeps,
     CommandDoneKeeps DEF Next

\* The invariant holds of every behaviour.
LEMMA InvariantHolds == Spec => []IInv
BY InitHolds, NextKeeps, PTL DEF Spec

-----------------------------------------------------------------------------
(* The theorems. *)

\* The state has its shape; a live request is in flight and its owner's, and
\* a session's timer and request do not outlive it.
THEOREM TypeCorrect == Spec => []TypeOK
<1>1. IInv => TypeOK
  BY DEF IInv, Plain, Flags, Held, Live, Idle, TypeOK
<1>. QED BY <1>1, InvariantHolds, PTL

\* There is never a session on another line than the cursor's, so nothing
\* stops startSessionIfTriggered and trigger from starting one.
THEOREM OnItsLine == Spec => []SessionOnItsLine
<1>1. IInv => SessionOnItsLine
  BY DEF IInv, Related
<1>. QED BY <1>1, InvariantHolds, PTL

\* No answer for a session is in the cache after the session ended.
THEOREM OwnedCache == Spec => []CacheHasOwner
<1>1. IInv => CacheHasOwner
  BY DEF IInv, Related
<1>. QED BY <1>1, InvariantHolds, PTL

\* The preview of the suggest widget loses no list it was answered with
\* (updateCache), in any order of answers, edits and failures.
THEOREM PreviewLosesNothing == Spec => []SuggestListsKept
<1>1. IInv => SuggestListsKept
  BY DEF IInv, Kept, SuggestListsKept, Lost
<1>. QED BY <1>1, InvariantHolds, PTL

\* An answer for a session enters the cache only if nothing was edited since
\* it was asked for.
THEOREM AnswersFresh == Spec => SessionAnswersFresh
<1>1. ASSUME IInv, Next, cache' # cache, cache' # None,
             asked[cache'].by = "session", asked' = asked
      PROVE  cache' = updateOperation /\ text' = text
  <2>1. CASE UserNext
    BY <1>1, <2>1
       DEF UserNext, Edit, MoveOrBlur, Jump, Commit, UpdateModelController,
           Trigger, EnsureUpdateWithExplicitContext, SuggestChanges,
           RegistryChanges, SessionFollows, Hide, SetCache, cacheVars
  <2>2. CASE ProviderNext
    BY <1>1, <2>2
       DEF IInv, Live, ProviderNext, Answer, SuggestAnswer, Fail, SetCache,
           cacheVars, userVars
  <2>3. CASE UpdateCache
    BY <1>1, <2>3 DEF UpdateCache, SetCache, cacheVars
  <2>4. CASE \/ StartSessionIfTriggered \/ Update
             \/ \E c \in commands : CommandDone(c)
    BY <1>1, <2>4 DEF StartSessionIfTriggered, Update, CommandDone, cacheVars
  <2>. QED BY <1>1, <2>1, <2>2, <2>3, <2>4 DEF Next
<1>2. ASSUME Next, cache' # cache, cache' # None
      PROVE  asked' = asked
  <2>1. CASE UserNext
    BY <1>2, <2>1
       DEF UserNext, Edit, MoveOrBlur, Jump, Commit, UpdateModelController,
           Trigger, EnsureUpdateWithExplicitContext, SuggestChanges,
           RegistryChanges, SessionFollows, Hide, SetCache, cacheVars,
           requestVars
  <2>2. CASE ProviderNext
    BY <2>2 DEF ProviderNext, Answer, SuggestAnswer, Fail, Arrives, Ends
  <2>3. CASE UpdateCache
    BY <1>2, <2>3 DEF UpdateCache, SetCache, cacheVars
  <2>4. CASE \/ StartSessionIfTriggered \/ Update
             \/ \E c \in commands : CommandDone(c)
    BY <1>2, <2>4 DEF StartSessionIfTriggered, Update, CommandDone, cacheVars
  <2>. QED BY <1>2, <2>1, <2>2, <2>3, <2>4 DEF Next
<1>3. IInv /\ [Next]_vars =>
        [cache' # cache /\ cache' # None /\ asked[cache'].by = "session" =>
            asked[cache'].text = text']_vars
  BY <1>1, <1>2 DEF IInv, Related, LiveFresh
<1>. QED BY <1>3, InvariantHolds, PTL DEF Spec, SessionAnswersFresh

-----------------------------------------------------------------------------
(* Until the preview asks for a list, only the session fills the cache. *)

\* A command runs with the list it was committed from, which nothing frees.
Committed ==
    /\ \A c \in commands :
        c.of = c.leaked /\ c.leaked \notin freed /\ c.leaked # cache
    /\ \A c, d \in commands : c.leaked = d.leaked => c = d
    /\ cache \notin freed

Alone == Offered \in {None, cache} /\ Committed

\* Requests are never forgotten.
LEMMA PreviewStays ==
    ASSUME IInv, PreviewAsked, [Next]_vars
    PROVE  PreviewAsked'
<1>1. CASE asked' = asked
  BY <1>1 DEF PreviewAsked, Ids
<1>2. ASSUME NEW kind \in Kinds, NEW by \in {"session", "suggest"},
             Ask(kind, by)
      PROVE  PreviewAsked'
  BY <1>2, AskFacts DEF IInv, PreviewAsked
<1>3. CASE EnsureUpdateWithExplicitContext \/ Update \/ UpdateCache
  BY <1>1, <1>2, <1>3
     DEF EnsureUpdateWithExplicitContext, Update, UpdateCache, requestVars,
         IInv, Plain, Kinds
<1>. QED
  BY <1>1, <1>3
     DEF Next, UserNext, ProviderNext, Edit, MoveOrBlur, Jump, Commit,
         UpdateModelController, Trigger, SuggestChanges, RegistryChanges,
         StartSessionIfTriggered, Answer, SuggestAnswer, Fail, Arrives, Ends,
         CommandDone, requestVars, vars

\* Alone is inductive beside IInv while the preview asks for nothing.
LEMMA AloneKeeps ==
    ASSUME IInv, Alone, ~PreviewAsked, ~PreviewAsked', [Next]_vars
    PROVE  Alone'
<1>. USE DEF Alone, Offered, Committed
<1>0. /\ None \notin Ids /\ inflight \subseteq Ids /\ None \notin freed
      /\ \A c \in commands : c.leaked # None
  BY IdFacts DEF IInv, Held
<1>1. ASSUME NEW l \in Lines,
             (\E typed \in BOOLEAN : Edit(l, typed)) \/ MoveOrBlur(l) \/ Jump(l)
      PROVE  Alone'
  <2>1. UNCHANGED commands
    BY <1>1 DEF Edit, MoveOrBlur, Jump
  <2>2. \/ /\ UNCHANGED <<cache, freed>>
           /\ filteredCompletions' \in {None, cache, filteredCompletions}
        \/ cache' = None /\ freed' = freed \cup ({cache} \ {None})
    BY <1>1 DEF Edit, MoveOrBlur, Jump, SessionFollows, FilterAndFire, Hide,
       DisposeSession, SetCache, sessionVars, cacheVars
  <2>. QED BY <1>0, <2>1, <2>2
<1>2. ASSUME NEW l \in Lines, Commit(l)
      PROVE  Alone'
  <2>. DEFINE new == [leaked |-> cache, of |-> filteredCompletions]
  <2>1. /\ cache # None /\ cache' = None /\ filteredCompletions = cache
    BY <1>2, <1>0 DEF Commit
  <2>2. new.leaked = cache /\ new.of = cache
    BY <2>1
  <2>3. CASE commands' = commands \cup {new} /\ freed' = freed
    BY <1>0, <2>1, <2>2, <2>3
  <2>4. CASE commands' = commands /\ freed' = freed \cup {cache}
    BY <1>0, <2>1, <2>4
  <2>. QED BY <1>2, <2>3, <2>4 DEF Commit
<1>3. ASSUME NEW l \in Lines, UpdateModelController(l)
      PROVE  Alone'
  BY <1>0, <1>3 DEF UpdateModelController, DisposeSession, SetCache
<1>4. CASE Trigger \/ EnsureUpdateWithExplicitContext \/ RegistryChanges
  BY <1>4 DEF Trigger, EnsureUpdateWithExplicitContext, RegistryChanges,
     NewSession, suggestVars, cacheVars
<1>5. ASSUME NEW s \in SuggestStates, SuggestChanges(s)
      PROVE  Alone'
  BY <1>5 DEF SuggestChanges, cacheVars
<1>6. CASE StartSessionIfTriggered \/ Update
  BY <1>6 DEF StartSessionIfTriggered, Update, NewSession, sessionVars,
     cacheVars
<1>11. CASE UpdateCache
  <2>1. ~Ask("Automatic", "suggest")
    BY AskFacts DEF IInv, PreviewAsked, Kinds
  <2>2. UNCHANGED <<filteredCompletions, commands>>
    BY <1>11 DEF UpdateCache, sessionVars
  <2>3. UNCHANGED cacheVars \/ SetCache(None)
    BY <1>11, <2>1 DEF UpdateCache
  <2>. QED BY <1>0, <2>2, <2>3 DEF SetCache, cacheVars
<1>7. ASSUME NEW i \in inflight, Answer(i)
      PROVE  Alone'
  BY <1>0, <1>7
     DEF IInv, Held, Answer, FilterAndFire, SetCache, suggestVars, cacheVars
<1>8. ASSUME NEW i \in inflight, SuggestAnswer(i) \/ Fail(i)
      PROVE  Alone'
  <2>1. ~SuggestAnswer(i)
    BY <1>0 DEF SuggestAnswer, PreviewAsked
  <2>. QED BY <1>0, <1>8, <2>1 DEF IInv, Held, Fail
<1>9. ASSUME NEW c \in commands, CommandDone(c)
      PROVE  Alone'
  BY <1>0, <1>9 DEF IInv, Held, CommandDone, sessionVars, suggestVars
<1>10. CASE UNCHANGED vars
  BY <1>10 DEF vars, sessionVars, suggestVars, cacheVars
<1>. QED
  BY <1>1, <1>2, <1>3, <1>4, <1>5, <1>6, <1>7, <1>8, <1>9, <1>10,
     <1>11
     DEF Next, UserNext, ProviderNext

\* Alone holds of every behaviour until the preview asks for a list.
LEMMA AloneHolds == Spec => [](PreviewAsked \/ Alone)
<1>1. Init => Alone
  BY DEF Init, Alone, Offered, Committed, None
<1>2. IInv /\ (PreviewAsked \/ Alone) /\ [Next]_vars => (PreviewAsked \/ Alone)'
  BY PreviewStays, AloneKeeps
<1>. QED BY <1>1, <1>2, InvariantHolds, PTL DEF Spec

\* Until the preview asks for a list, a session offers what the cache holds.
THEOREM OffersTheCache == Spec => []OfferedFromCache
<1>1. PreviewAsked \/ Alone => OfferedFromCache
  BY DEF Alone, OfferedFromCache
<1>. QED BY <1>1, AloneHolds, PTL

\* Until the preview asks for a list, the command of a completion runs before
\* the list the completion is from is freed.
THEOREM ArgsLive == Spec => []ArgsLiveUnpreviewed
<1>1. PreviewAsked \/ Alone => ArgsLiveUnpreviewed
  BY DEF Alone, Committed, CommandArgsLive, ArgsLiveUnpreviewed
<1>. QED BY <1>1, AloneHolds, PTL

\* A session is on the line of the cursor, and no list of one outlives it in
\* the cache.
THEOREM SessionsInPlace == Spec => []SessionInPlace
  BY OnItsLine, OwnedCache, PTL DEF SessionInPlace

-----------------------------------------------------------------------------
(* An active session is never left waiting. *)

\* A request of the session about the present text that is its live one, or
\* was answered, or failed.
AskedNow ==
    \E i \in Ids :
        /\ asked[i].by = "session" /\ asked[i].text = text
        /\ i \in inflight => i = updateOperation

Attended == Active /\ completionSession # None => updateSoon \/ AskedNow

\* A request that is made is the live one, about the present text.
LEMMA AskingAttends ==
    ASSUME IInv, NEW kind \in Kinds, Ask(kind, "session"),
           updateOperation' = Len(asked'), text' = text
    PROVE  AskedNow'
<1>1. /\ Ids' = Ids \cup {Len(asked')}
      /\ asked'[Len(asked')].text = text
      /\ asked'[Len(asked')].by = "session"
  BY AskFacts DEF IInv
<1>. QED BY <1>1 DEF AskedNow

\* What was asked for stays so while the text, the requests and the live one
\* are what they were.
LEMMA StaysAsked ==
    ASSUME AskedNow, UNCHANGED <<text, asked, updateOperation>>,
           inflight' \subseteq inflight
    PROVE  AskedNow'
BY DEF AskedNow, Ids

\* An edit, a move and a jump end the session or schedule; a jump within the
\* line of a session that is not interrupted schedules, too.
LEMMA UserAttends ==
    ASSUME IInv, Attended, UserNext
    PROVE  Attended'
<1>. USE DEF Attended
<1>1. ASSUME NEW l \in Lines,
             \/ \E typed \in BOOLEAN : Edit(l, typed)
             \/ Jump(l) \/ Commit(l)
      PROVE  Active' /\ completionSession' # None => updateSoon'
  BY <1>1 DEF Edit, Jump, Commit, SessionFollows, Hide, DisposeSession,
     UpdateModel, ScheduleAutomaticUpdate, Active, sessionVars
<1>2. ASSUME NEW l \in Lines, MoveOrBlur(l) \/ UpdateModelController(l)
      PROVE  completionSession' = None
  BY <1>2 DEF MoveOrBlur, UpdateModelController, Hide, DisposeSession,
     sessionVars
<1>3. CASE Trigger \/ RegistryChanges
  BY <1>3 DEF Trigger, RegistryChanges, NewSession
<1>4. ASSUME NEW s \in SuggestStates, SuggestChanges(s)
      PROVE  Active' /\ completionSession' # None => updateSoon'
  BY <1>4 DEF SuggestChanges, UpdateModel, ScheduleAutomaticUpdate, Active
<1>5. CASE EnsureUpdateWithExplicitContext
  <2>1. UNCHANGED <<text, completionSession, updateSoon, suggestState>>
    BY <1>5 DEF EnsureUpdateWithExplicitContext, suggestVars
  <2>2. CASE UNCHANGED <<requestVars, updateOperation>>
    BY <2>1, <2>2, StaysAsked DEF Active, requestVars
  <2>3. CASE Ask("Explicit", "session") /\ updateOperation' = Len(asked')
    BY <2>1, <2>3, AskingAttends DEF Kinds
  <2>. QED BY <1>5, <2>2, <2>3 DEF EnsureUpdateWithExplicitContext
<1>. QED BY <1>1, <1>2, <1>3, <1>4, <1>5 DEF UserNext

\* A timer that fires asks, if the session is active; an answer or a failure
\* leaves the request asked; an answer for the preview schedules or changes
\* nothing of the session.
LEMMA OthersAttend ==
    ASSUME IInv, Attended, [Next]_vars, ~UserNext
    PROVE  Attended'
<1>. USE DEF Attended
<1>1. CASE StartSessionIfTriggered
  <2>1. CASE completionSession = None
    BY <1>1, <2>1 DEF StartSessionIfTriggered, NewSession
  <2>2. CASE completionSession # None
    BY <1>1, <2>2, StaysAsked
       DEF StartSessionIfTriggered, sessionVars, userVars, suggestVars,
           requestVars, Active
  <2>. QED BY <2>1, <2>2
<1>2. CASE Update
  <2>1. UNCHANGED <<text, suggestState>>
    BY <1>2 DEF Update, userVars, suggestVars
  <2>2. CASE Active
    BY <1>2, <2>1, <2>2, AskingAttends DEF Update, IInv, Plain
  <2>. QED BY <2>1, <2>2 DEF Active
<1>3. CASE UpdateCache
  <2>1. /\ UNCHANGED <<text, suggestState, completionSession, updateSoon,
                       updateOperation>>
        /\ suggestState # "item" => UNCHANGED <<asked, inflight>>
    BY <1>3 DEF UpdateCache, userVars, sessionVars, requestVars, SetCache
  <2>2. CASE suggestState = "closed"
    BY <2>1, <2>2, StaysAsked DEF Active
  <2>. QED BY <2>1, <2>2 DEF Active
<1>4. ASSUME NEW i \in inflight, Answer(i) \/ Fail(i)
      PROVE  Attended'
  <2>1. /\ UNCHANGED <<text, asked, suggestState, completionSession, updateSoon>>
        /\ inflight' = inflight \ {i}
        /\ updateOperation' =
                IF i = updateOperation THEN None ELSE updateOperation
    BY <1>4 DEF Answer, Fail, Arrives, Ends, userVars, suggestVars
  <2>2. AskedNow => AskedNow'
    BY <2>1 DEF AskedNow, Ids
  <2>. QED BY <2>1, <2>2 DEF Active
<1>5. ASSUME NEW i \in inflight, SuggestAnswer(i)
      PROVE  Attended'
  <2>1. /\ UNCHANGED <<text, asked, suggestState, completionSession>>
        /\ inflight' \subseteq inflight
    BY <1>5 DEF SuggestAnswer, Arrives, Ends, userVars
  <2>2. CASE UNCHANGED <<updateOperation, updateSoon>>
    BY <2>1, <2>2, StaysAsked DEF Active
  <2>3. CASE UpdateModel(Active)
    BY <2>1, <2>2, <2>3 DEF Active, UpdateModel, ScheduleAutomaticUpdate
  <2>. QED BY <1>5, <2>2, <2>3 DEF SuggestAnswer
<1>6. CASE \/ \E c \in commands : CommandDone(c)
           \/ UNCHANGED vars
  BY <1>6, StaysAsked
     DEF CommandDone, vars, userVars, sessionVars, suggestVars, requestVars,
         Active
<1>. QED
  BY <1>1, <1>2, <1>3, <1>4, <1>5, <1>6 DEF Next, ProviderNext

\* Whenever a session is active, its update is due, or it has asked about the
\* present text and that request was neither cancelled nor replaced: it runs,
\* or it was answered or failed.  So no cancelled request, no answer for the
\* preview and no hidden ghost text leaves a session waiting for nothing.
THEOREM SessionsAttended == Spec => []Attended
<1>1. Init => Attended
  BY DEF Init, Attended
<1>2. IInv /\ Attended /\ [Next]_vars => Attended'
  BY UserAttends, OthersAttend
<1>. QED BY <1>1, <1>2, InvariantHolds, PTL DEF Spec
=============================================================================
