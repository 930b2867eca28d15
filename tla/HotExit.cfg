SPECIFICATION HotSpec
CONSTANTS
    Size <- Sizes
    Whys = {"explicit", "overwrite"}
    SaveSlots = {s1, s2}
    MaxText = 2
    MaxVersion = 2
    MaxTime = 1
    MaxReverts = 1
    MaxRestarts = 1
    s1 = s1
    s2 = s2
SYMMETRY Slots
INVARIANTS HotTypeOK DirtyIsBackedUpWhenTold BackupOfVersion ExitKeepsText
CHECK_DEADLOCK FALSE
