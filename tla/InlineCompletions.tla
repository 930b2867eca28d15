-------------------------- MODULE InlineCompletions --------------------------
(***************************************************************************)
(* Where ghost text comes from: the session of inline completions of one   *)
(* editor (inlineCompletionsModel.ts), the preview of the suggest widget   *)
(* (suggestWidgetPreviewModel.ts), and the cache the two share             *)
(* (ghostTextModel.ts).                                                    *)
(*                                                                         *)
(* Requests run while the user edits.  A request is known by its number,   *)
(* and so is the list it brings.  Which items of a list match the text,    *)
(* and which of them is selected, is left open: of the session's filtered  *)
(* completions only the list they come from is kept.  One turn of the      *)
(* event loop, with all the listeners it calls, is one step.               *)
(***************************************************************************)
EXTENDS Integers, Sequences, FiniteSets

CONSTANTS
    Lines,          \* lines the cursor can be on
    MaxEvents       \* bound: what the user, and the providers' registry, do

None == 0

ASSUME LinesAssumption == Lines \subseteq Nat \ {None} /\ Lines # {}
ASSUME MaxEventsAssumption == MaxEvents \in Nat

VARIABLES
    events,             \* number of events so far
    text,               \* version of the document's text
    line,               \* line of the cursor
    starts,             \* startSessionIfTriggered calls due
    completionSession,  \* the line it was triggered on, or None
    initialTriggerKind, \* of the session
    updateSoon,         \* the session's update is due
    updateOperation,    \* the session's request that is not cancelled
    filteredCompletions,\* the list the session's completions come from
    lastCompletionItem, \* the list last reported as shown
    suggestState,       \* of the suggest widget
    updateCacheSoon,    \* the preview's update is due
    suggestOperation,   \* the preview's request that is not cancelled
    asked,              \* all requests
    inflight,           \* those not answered
    cache,              \* the list in the shared cache
    freed,              \* lists given back to their provider, or never brought
    thrown,             \* lists brought to requests that then threw
    commands            \* commands of committed completions that run

userVars == <<events, text, line>>
sessionVars == <<completionSession, initialTriggerKind, updateSoon,
                 updateOperation, filteredCompletions, lastCompletionItem>>
suggestVars == <<suggestState, updateCacheSoon, suggestOperation>>
requestVars == <<asked, inflight, thrown>>
cacheVars == <<cache, freed>>
vars == <<userVars, starts, sessionVars, suggestVars, requestVars, cacheVars,
          commands>>

Kinds == {"Automatic", "Explicit"}
Requests == [text : Nat, kind : Kinds, by : {"session", "suggest"}]

\* The suggest widget is closed, or open with an item selected, with an item
\* no provider is asked about (a snippet, a file), or with none.
SuggestStates == {"closed", "item", "snippet", "none"}

\* The model of the inline completions is the one that is shown.
Active == suggestState = "closed"

\* currentCachedCompletion: nothing is offered while the cache is empty.
Offered == IF cache = None THEN None ELSE filteredCompletions

-----------------------------------------------------------------------------
(* Parts of steps. *)

Event == events < MaxEvents /\ events' = events + 1

\* The cache disposes the list it held when it is given another.
SetCache(i) ==
    /\ cache' = i
    /\ freed' = freed \cup ({cache} \ {None, i})

\* The session is disposed, and with it its request, its timer and the cache.
DisposeSession ==
    /\ completionSession' = None
    /\ updateSoon' = FALSE
    /\ updateOperation' = None
    /\ filteredCompletions' = None
    /\ lastCompletionItem' = None
    /\ UNCHANGED initialTriggerKind

\* Defect: hiding leaves the request running.
HideUncancelled ==
    IF completionSession = None THEN UNCHANGED <<sessionVars, cacheVars>>
    ELSE /\ completionSession' = None
         /\ updateSoon' = FALSE
         /\ filteredCompletions' = None
         /\ lastCompletionItem' = None
         /\ UNCHANGED <<initialTriggerKind, updateOperation>>
         /\ SetCache(None)

Hide ==
    IF completionSession = None THEN UNCHANGED <<sessionVars, cacheVars>>
    ELSE DisposeSession /\ SetCache(None)

\* Defect: the request that runs is kept.
ScheduleOnly ==
    updateSoon' = TRUE /\ UNCHANGED updateOperation

ScheduleAutomaticUpdate ==
    updateOperation' = None /\ updateSoon' = TRUE

\* Defect: becoming active again schedules nothing.
UpdateModelQuietly(active) == UNCHANGED <<updateOperation, updateSoon>>

\* GhostTextModel.updateModel, on every change of the preview model.
UpdateModel(active) ==
    IF active /\ completionSession # None
    THEN ScheduleAutomaticUpdate
    ELSE UNCHANGED <<updateOperation, updateSoon>>

\* Defect: what is offered stays as long as something is.
FilterOnce(i) ==
    /\ filteredCompletions' \in IF filteredCompletions = None THEN {None, i}
                               ELSE {filteredCompletions}
    /\ lastCompletionItem' = IF filteredCompletions' = None
                             THEN lastCompletionItem ELSE filteredCompletions'

\* The completions of the cache, or those that match; the first, if new, is
\* reported as shown.
FilterAndFire(i) ==
    /\ filteredCompletions' \in {None, i}
    /\ lastCompletionItem' = IF filteredCompletions' = None
                             THEN lastCompletionItem ELSE filteredCompletions'

\* The session is told of a change of the text that leaves the cursor on l.
SessionFollows(l) ==
    IF completionSession = l
    THEN /\ FilterAndFire(cache)
         /\ ScheduleAutomaticUpdate
         /\ UNCHANGED <<completionSession, initialTriggerKind, cacheVars>>
    ELSE Hide

Ask(kind, by) ==
    /\ asked' = Append(asked, [text |-> text, kind |-> kind, by |-> by])
    /\ inflight' = inflight \cup {Len(asked) + 1}
    /\ UNCHANGED thrown

\* The end of a request, cancelled or not.
Ends(i) == inflight' = inflight \ {i} /\ UNCHANGED asked

\* It ends with an answer.
Arrives(i) == Ends(i) /\ UNCHANGED thrown

NewSession(kind) ==
    /\ completionSession' = line
    /\ initialTriggerKind' = kind
    /\ updateSoon' = TRUE
    /\ UNCHANGED <<updateOperation, filteredCompletions, lastCompletionItem>>

-----------------------------------------------------------------------------
(* The user. *)

\* Typing, deleting and accepting a suggestion (typed), or undo, a partial
\* commit and other edits (not typed).
Edit(l, typed) ==
    /\ Event
    /\ text' = text + 1 /\ line' = l
    /\ starts' = starts + IF typed THEN 1 ELSE 0
    /\ SessionFollows(l)
    /\ updateCacheSoon' = TRUE
    /\ UNCHANGED <<suggestState, suggestOperation, requestVars, commands>>

\* The cursor is set with the mouse or the arrow keys, or focus is lost.
MoveOrBlur(l) ==
    /\ Event
    /\ line' = l
    /\ Hide
    /\ updateCacheSoon' \in {updateCacheSoon, TRUE}
    /\ l # line => updateCacheSoon'
    /\ UNCHANGED <<text, starts, suggestState, suggestOperation, requestVars,
                   commands>>

\* Defect: a session is kept on a line it was not triggered on.
JumpUnnoticed(l) ==
    /\ Event
    /\ line' = l
    /\ updateCacheSoon' = TRUE
    /\ UpdateModel(Active)
    /\ UNCHANGED <<text, starts, suggestState, suggestOperation, requestVars,
                   commands, completionSession, initialTriggerKind, cacheVars,
                   filteredCompletions, lastCompletionItem>>

\* The cursor is set by a program.
Jump(l) ==
    /\ Event
    /\ line' = l
    /\ updateCacheSoon' = TRUE
    /\ IF completionSession = l
       THEN /\ UpdateModel(Active)
            /\ IF cache = None
               THEN UNCHANGED <<filteredCompletions, lastCompletionItem>>
               ELSE FilterAndFire(cache)
            /\ UNCHANGED <<completionSession, initialTriggerKind, cacheVars>>
       ELSE Hide
    /\ UNCHANGED <<text, starts, suggestState, suggestOperation, requestVars,
                   commands>>

\* The trigger command, when there is no session.
Trigger ==
    /\ Event
    /\ Active /\ completionSession = None
    /\ NewSession("Explicit")
    /\ UNCHANGED <<text, line, starts, suggestVars, requestVars, cacheVars,
                   commands>>

\* The trigger command, show next or previous, and the hover's question
\* whether there are several: a request that runs is awaited if it is
\* explicit and replaced if not.
EnsureUpdateWithExplicitContext ==
    /\ Event
    /\ Active /\ completionSession # None
    /\ LET current == IF updateOperation # None THEN updateOperation ELSE cache
       IN IF current # None /\ asked[current].kind = "Explicit"
          THEN UNCHANGED <<requestVars, updateOperation>>
          ELSE /\ Ask("Explicit", "session")
               /\ updateOperation' = Len(asked')
    /\ UNCHANGED <<text, line, starts, completionSession, initialTriggerKind,
                   updateSoon, filteredCompletions, lastCompletionItem,
                   suggestVars, cacheVars, commands>>

\* Defect: the cache is cleared, not leaked, before the command runs.
CommitCleared(l) ==
    /\ Event
    /\ Active /\ completionSession # None /\ Offered # None
    /\ text' = text + 1 /\ line' = l
    /\ SetCache(None)
    /\ commands' = commands \cup
            {[leaked |-> cache, of |-> filteredCompletions]}
    /\ starts' = starts + 1
    /\ updateCacheSoon' = TRUE
    /\ IF completionSession = l
       THEN /\ filteredCompletions' = None
            /\ ScheduleAutomaticUpdate
            /\ UNCHANGED <<completionSession, initialTriggerKind,
                           lastCompletionItem>>
       ELSE DisposeSession
    /\ UNCHANGED <<suggestState, suggestOperation, requestVars>>

\* The completion is inserted, which may take the cursor to another line.
\* The cache is emptied but its list is disposed only when the command of
\* the completion, if it has one, is done.
Commit(l) ==
    /\ Event
    /\ Active /\ completionSession # None /\ Offered # None
    /\ text' = text + 1 /\ line' = l
    /\ cache' = None
    /\ \/ /\ commands' = commands \cup
                {[leaked |-> cache, of |-> filteredCompletions]}
          /\ UNCHANGED freed
       \/ /\ freed' = freed \cup {cache}
          /\ UNCHANGED commands
    /\ starts' = starts + 1
    /\ updateCacheSoon' = TRUE
    /\ IF completionSession = l
       THEN /\ filteredCompletions' = None
            /\ ScheduleAutomaticUpdate
            /\ UNCHANGED <<completionSession, initialTriggerKind,
                           lastCompletionItem>>
       ELSE DisposeSession
    /\ UNCHANGED <<suggestState, suggestOperation, requestVars>>

\* The suggest widget opens, closes or selects another item.
SuggestChanges(s) ==
    /\ Event
    /\ suggestState = "closed" => s # "closed"
    /\ suggestState' = s
    /\ updateCacheSoon' = TRUE
    /\ UpdateModel(s = "closed")
    /\ UNCHANGED <<text, line, starts, completionSession, initialTriggerKind,
                   filteredCompletions, lastCompletionItem, suggestOperation,
                   requestVars, cacheVars, commands>>

\* A provider of inline completions comes or goes.
RegistryChanges ==
    /\ Event
    /\ completionSession # None
    /\ updateSoon' = TRUE
    /\ UNCHANGED <<text, line, starts, completionSession, initialTriggerKind,
                   updateOperation, filteredCompletions, lastCompletionItem,
                   suggestVars, requestVars, cacheVars, commands>>

\* Another document: the models are disposed and made anew.
UpdateModelController(l) ==
    /\ Event
    /\ text' = text + 1 /\ line' = l
    /\ starts' = 0
    /\ DisposeSession /\ SetCache(None)
    /\ suggestState' = "closed"
    /\ updateCacheSoon' = FALSE
    /\ suggestOperation' = None
    /\ UNCHANGED <<requestVars, commands>>

-----------------------------------------------------------------------------
(* Timers, providers and commands. *)

StartSessionIfTriggered ==
    /\ starts > 0
    /\ starts' = starts - 1
    /\ IF completionSession = None THEN NewSession("Automatic")
       ELSE UNCHANGED sessionVars
    /\ UNCHANGED <<userVars, suggestVars, requestVars, cacheVars, commands>>

\* A session asks only while it is active; a new request replaces the one
\* that runs.
Update ==
    /\ updateSoon
    /\ updateSoon' = FALSE
    /\ initialTriggerKind' = "Automatic"
    /\ IF Active
       THEN /\ Ask(initialTriggerKind, "session")
            /\ updateOperation' = Len(asked')
       ELSE UNCHANGED <<requestVars, updateOperation>>
    /\ UNCHANGED <<userVars, starts, completionSession, filteredCompletions,
                   lastCompletionItem, suggestVars, cacheVars, commands>>

\* The answer to the session's request; a cancelled one is dropped.
Answer(i) ==
    /\ asked[i].by = "session"
    /\ Arrives(i)
    /\ IF i = updateOperation
       THEN /\ SetCache(i)
            /\ FilterAndFire(i)
            /\ updateOperation' = None
       ELSE UNCHANGED <<cacheVars, filteredCompletions, lastCompletionItem,
                        updateOperation>>
    /\ UNCHANGED <<userVars, starts, completionSession, initialTriggerKind,
                   updateSoon, suggestVars, commands>>

UpdateCache ==
    /\ updateCacheSoon
    /\ updateCacheSoon' = FALSE
    /\ CASE suggestState = "item" ->
               /\ Ask("Automatic", "suggest")
               /\ suggestOperation' = Len(asked')
               /\ UNCHANGED cacheVars
         [] suggestState = "snippet" ->
               SetCache(None) /\ UNCHANGED <<requestVars, suggestOperation>>
         [] OTHER ->
               UNCHANGED <<requestVars, suggestOperation, cacheVars>>
    /\ UNCHANGED <<userVars, starts, sessionVars, suggestState, commands>>

\* Defect: the preview drops a cancelled list too.
SuggestAnswerDropped(i) ==
    /\ asked[i].by = "suggest"
    /\ Arrives(i)
    /\ IF i = suggestOperation
       THEN SetCache(i) /\ suggestOperation' = None /\ UpdateModel(Active)
       ELSE UNCHANGED <<cacheVars, suggestOperation, updateOperation,
                        updateSoon>>
    /\ UNCHANGED <<userVars, starts, completionSession, initialTriggerKind,
                   filteredCompletions, lastCompletionItem, suggestState,
                   updateCacheSoon, commands>>

\* The answer to the preview's request; a cancelled one is disposed.
SuggestAnswer(i) ==
    /\ asked[i].by = "suggest"
    /\ Arrives(i)
    /\ IF i = suggestOperation
       THEN SetCache(i) /\ suggestOperation' = None /\ UpdateModel(Active)
       ELSE /\ freed' = freed \cup {i}
            /\ UNCHANGED <<cache, suggestOperation, updateOperation,
                           updateSoon>>
    /\ UNCHANGED <<userVars, starts, completionSession, initialTriggerKind,
                   filteredCompletions, lastCompletionItem, suggestState,
                   updateCacheSoon, commands>>

\* provideInlineCompletions throws: before a provider has brought a list, or
\* when another throws instead of answering, or on an item of a list.  Then the
\* lists brought so far are dropped with the request, and never given back.
Fail(i) ==
    /\ Ends(i)
    /\ \/ freed' = freed \cup {i} /\ UNCHANGED thrown
       \/ thrown' = thrown \cup {i} /\ UNCHANGED freed
    /\ updateOperation' = IF i = updateOperation THEN None ELSE updateOperation
    /\ suggestOperation' =
            IF i = suggestOperation THEN None ELSE suggestOperation
    /\ UNCHANGED <<userVars, starts, completionSession, initialTriggerKind,
                   updateSoon, filteredCompletions, lastCompletionItem,
                   suggestState, updateCacheSoon, cache, commands>>

CommandDone(c) ==
    /\ commands' = commands \ {c}
    /\ freed' = freed \cup {c.leaked}
    /\ UNCHANGED <<userVars, starts, sessionVars, suggestVars, requestVars,
                   cache>>

-----------------------------------------------------------------------------
Init ==
    /\ events = 0 /\ text = 0 /\ line \in Lines
    /\ starts = 0
    /\ completionSession = None
    /\ initialTriggerKind = "Automatic"
    /\ updateSoon = FALSE
    /\ updateOperation = None
    /\ filteredCompletions = None
    /\ lastCompletionItem = None
    /\ suggestState = "closed"
    /\ updateCacheSoon = FALSE
    /\ suggestOperation = None
    /\ asked = << >> /\ inflight = {} /\ thrown = {}
    /\ cache = None /\ freed = {}
    /\ commands = {}

UserNext ==
    \/ \E l \in Lines :
        \/ \E typed \in BOOLEAN : Edit(l, typed)
        \/ MoveOrBlur(l)
        \/ Jump(l)
        \/ Commit(l)
        \/ UpdateModelController(l)
    \/ Trigger
    \/ EnsureUpdateWithExplicitContext
    \/ \E s \in SuggestStates : SuggestChanges(s)
    \/ RegistryChanges

ProviderNext ==
    \E i \in inflight : Answer(i) \/ SuggestAnswer(i) \/ Fail(i)

Next ==
    \/ UserNext
    \/ StartSessionIfTriggered
    \/ Update
    \/ UpdateCache
    \/ ProviderNext
    \/ \E c \in commands : CommandDone(c)

Spec == Init /\ [][Next]_vars

\* Timers fire and providers answer or fail; commands may run for ever.
Fairness ==
    /\ WF_vars(StartSessionIfTriggered)
    /\ WF_vars(Update)
    /\ WF_vars(UpdateCache)
    /\ WF_vars(ProviderNext)

FairSpec == Spec /\ Fairness

-----------------------------------------------------------------------------
(* Properties. *)

Ids == DOMAIN asked

\* The state has its shape; a live request is in flight and of its owner, and
\* a session's timer and request do not outlive it.
TypeOK ==
    /\ events \in 0 .. MaxEvents /\ text \in Nat /\ line \in Lines
    /\ starts \in Nat
    /\ completionSession \in Lines \cup {None}
    /\ initialTriggerKind \in Kinds
    /\ updateSoon \in BOOLEAN /\ updateCacheSoon \in BOOLEAN
    /\ suggestState \in SuggestStates
    /\ asked \in Seq(Requests)
    /\ inflight \subseteq Ids
    /\ cache \in (Ids \ inflight) \cup {None}
    /\ freed \subseteq Ids \ inflight
    /\ thrown \subseteq Ids \ inflight
    /\ filteredCompletions \in Ids \cup {None}
    /\ lastCompletionItem \in Ids \cup {None}
    /\ commands \subseteq [leaked : Ids, of : Ids]
    /\ updateOperation # None =>
        /\ updateOperation \in inflight
        /\ asked[updateOperation].by = "session"
    /\ suggestOperation # None =>
        /\ suggestOperation \in inflight
        /\ asked[suggestOperation].by = "suggest"
    /\ completionSession = None =>
        ~updateSoon /\ updateOperation = None /\ filteredCompletions = None

\* A session is on the line it was triggered on, however the cursor came
\* where it is: startSessionIfTriggered and trigger never meet an invalid one,
\* for which they would start no other.
SessionOnItsLine == completionSession \in {None, line}

\* What a session asked for is gone with it: a list of a session is in the
\* cache only while there is a session.
CacheHasOwner ==
    cache # None /\ asked[cache].by = "session" => completionSession # None

\* A list is in flight, in the cache, kept for a command or given back.
Lost ==
    Ids \ (inflight \cup freed \cup {cache} \cup {c.leaked : c \in commands})

\* A list the preview was answered with is not lost, whether its request was
\* cancelled, replaced or outlived the widget: it is in the cache, kept for a
\* command or freed.  Only an exception loses it.
SuggestListsKept == \A i \in Lost \ thrown : asked[i].by = "session"

\* "To prevent stale cache, we clear the current update operation": an
\* answer of a session enters the cache only if it is about the present text.
SessionAnswersFresh ==
    [][cache' # cache /\ cache' # None /\ asked[cache'].by = "session" =>
            asked[cache'].text = text']_vars

\* The preview has asked for a list of its own.
PreviewAsked == \E i \in Ids : asked[i].by = "suggest"

\* What a session offers is from the list the cache holds: until the preview
\* asks for a list, nobody changes the cache behind the session's back.
OfferedFromCache == PreviewAsked \/ Offered \in {None, cache}

\* "Mark the cache as stale, but don't dispose it yet, otherwise command args
\* might get disposed" (inlineCompletionsModel.ts:565): while the command of
\* a completion runs, the list the completion is from is not freed.
CommandArgsLive == \A c \in commands : c.of \notin freed

\* That holds until the preview asks for a list.
ArgsLiveUnpreviewed == PreviewAsked \/ CommandArgsLive

\* When the user pauses, an active session comes to rest with an answer (or
\* a failure) about the present text, though "starvation can happen".
Settled ==
    Active /\ completionSession # None =>
        /\ ~updateSoon /\ updateOperation = None
        /\ \E i \in Ids \ inflight :
                asked[i].by = "session" /\ asked[i].text = text

Settles == <>[]Settled

\* A session is where the cursor is, and what the cache holds of it is gone
\* when it ends.
SessionInPlace == SessionOnItsLine /\ CacheHasOwner
=============================================================================
