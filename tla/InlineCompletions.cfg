SPECIFICATION MCSpec
CONSTANTS
    Lines <- MCLines
    MaxEvents = 4
INVARIANTS TypeOK SessionInPlace SuggestListsKept
    OfferedFromCache ArgsLiveUnpreviewed
PROPERTIES SessionAnswersFresh Settles
CHECK_DEADLOCK FALSE
