SPECIFICATION Spec
CONSTANTS
    Keys = {"a", "b", "c", "d"}
    Types = {"E", "T"}
    Hash <- Numbers
    SegmentSize = 2
    DirectorySize = 3
    MaxLoadFactor = 0
    Counts = {1, 3}
    None = None
INVARIANTS
    TypeOK
    WellPlaced
    KeyCountExact
    ListsOnce
PROPERTIES
    ImplementsDictionary
