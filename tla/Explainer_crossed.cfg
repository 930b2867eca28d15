SPECIFICATION MCSpec
CONSTANTS
    MaxExplainers = 2
    MaxIdx = 2
    MaxLine = 2
    HoverLines = {1}
    Codes = {s1, s2}
    Buffers = {"g"}
    SmallBuffers = {"g"}
    SmallCodes = {s1, s2}
    LargeCodes = {}
    None = None
    s1 = s1
    s2 = s2
    IsComment <- MCIsComment
INVARIANT SingleAnswersFresh
CHECK_DEADLOCK FALSE
