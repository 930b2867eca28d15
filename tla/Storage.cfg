SPECIFICATION FairSpec
CONSTANTS
    Keys = {"k", "l"}
    Values = {"v", "w"}
    None = None
    Same = Same
    Nothing = Nothing
    MaxCalls = 3
INVARIANTS TypeOK NothingLost NobodyForgotten
PROPERTIES Implements Settles ClosesUnlessErroneous
CHECK_DEADLOCK FALSE
