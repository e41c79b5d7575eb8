SPECIFICATION Spec
CONSTANTS
    NoObject = NoObject
    NoSchema = NoSchema
    PackedImages <- Packed
    TableImages <- Tables
    MaxLoads = 2
    MaxRemovals = 1
INVARIANTS
    PackedFindRenames
CHECK_DEADLOCK FALSE
