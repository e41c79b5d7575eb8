SPECIFICATION Spec
CONSTANTS
    Ids = {1, 2, 3}
    Handles = {h1, h2}
    IntMax = 2
    MaxMaterializations = 5
    Cancellable = TRUE
    RootSets <- Roots
    Indexes <- MixedIndexes
    Uses = {"loadInstance", "loadBatch"}
INVARIANTS
    PinsMatchBatches
    CacheAccounting
    LoadingIsStack
PROPERTIES
    ImplementsPinnedCache
    CancelledBatchLoadsNothing
CHECK_DEADLOCK FALSE
