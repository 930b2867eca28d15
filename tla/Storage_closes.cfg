SPECIFICATION FairSpec
CONSTANTS
    Keys = {"k"}
    Values = {"v"}
    None = None
    Same = Same
    Nothing = Nothing
    MaxCalls = 3
PROPERTY AlwaysCloses
CHECK_DEADLOCK FALSE
