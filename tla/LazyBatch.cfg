SPECIFICATION Spec
CONSTANTS
    Ids = {1, 2, 3}
    Handles = {h1, h2}
    IntMax = 3
    MaxMaterializations = 6
    Cancellable = TRUE
    RootSets <- Roots
    Indexes <- BatchIndexes
    Uses = {"loadBatch"}
INVARIANTS
    NoDangling
    BatchIsClosed
    ResumesInPlace
    ReferencesComplete
CHECK_DEADLOCK FALSE
