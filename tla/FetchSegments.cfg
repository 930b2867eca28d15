SPECIFICATION Spec
CONSTANTS
    Width = 12
    RangeEnd = 10
    MaxAnswer = 5
    Quotes <- MCQuotes
INVARIANTS
    TypeOK
    SegmentsInPlace
    DrawnUnderCode
CHECK_DEADLOCK FALSE
