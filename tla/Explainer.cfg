SPECIFICATION MCSpec
CONSTANTS
    MaxExplainers = 2
    MaxIdx = 2
    MaxLine = 4
    HoverLines = {1, 2, 3}
    Codes = {s1, s2, "s", "c", "m"}
    Buffers = {"f", "g"}
    SmallBuffers = {"g"}
    SmallCodes = {s1, s2}
    LargeCodes = {"s", "c", "m"}
    None = None
    s1 = s1
    s2 = s2
    IsComment <- MCIsComment
SYMMETRY MCSymmetry
INVARIANTS
    TypeOK
    OwnAnswersFresh
    OverlaysAgree
    OneContainerHeld
CHECK_DEADLOCK FALSE
