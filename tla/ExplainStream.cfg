SPECIFICATION Spec
CONSTANTS
    CodeLines = 3
    MaxSnippet = 4
    MaxBends = 2
    AnswerLines <- MCAnswerLines
CHECK_DEADLOCK FALSE
INVARIANTS
    TypeOK
    BendsBesideLines
PROPERTIES
    ImplementsBends
    BendsCoverSnippets
