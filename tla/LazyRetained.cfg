SPECIFICATION Spec
CONSTANTS
    Ids = {1, 2, 3}
    Handles = {h1, h2}
    IntMax = 3
    MaxMaterializations = 5
    Cancellable = FALSE
    RootSets <- Roots
    Indexes <- AcyclicIndexes
    Uses = {"loadInstance", "loadBatch"}
INVARIANTS
    RetainedIntact
CHECK_DEADLOCK FALSE
