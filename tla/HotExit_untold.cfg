SPECIFICATION HotSpec
CONSTANTS
    Size <- Sizes
    Whys = {"explicit"}
    SaveSlots = {s1}
    MaxText = 1
    MaxVersion = 1
    MaxTime = 0
    MaxReverts = 1
    MaxRestarts = 1
    s1 = s1
INVARIANTS DirtyIsBackedUp
CHECK_DEADLOCK FALSE
