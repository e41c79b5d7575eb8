SPECIFICATION Spec
CONSTANTS
    Files <- FileSet
    MaxErrorCount = 2
    Strict = FALSE
    MaxReads = 2
    MaxEdits = 1
INVARIANTS
    TypeOK
    IdsKept
    ReferencesStayInFile
    HeaderComplete
PROPERTIES
    PassesAgree
    ErrorTellsLoss
    SessionRestored
CHECK_DEADLOCK FALSE
