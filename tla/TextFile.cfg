SPECIFICATION FairSpec
CONSTANTS
    Size <- Sizes
    Whys = {"explicit", "auto", "overwrite"}
    SaveSlots = {s1, s2}
    MaxText = 2
    MaxVersion = 3
    MaxTime = 2
    MaxReverts = 1
    s1 = s1
    s2 = s2
INVARIANTS TypeOK OneSaveWrites FlagsTrue
PROPERTIES ReadsLoseNothing NobodyWaitsForever
CHECK_DEADLOCK FALSE
