SPECIFICATION Spec
CONSTANTS
    NoObject = NoObject
    NoSchema = NoSchema
    PackedImages <- Packed
    TableImages <- Tables
    MaxLoads = 2
    MaxRemovals = 1
INVARIANTS
    AllOrNothing
    PointersLead
    ModulesNumberDescriptors
    LastModuleCurrent
    TablesFindRenames
PROPERTIES
    RemovedIsGone
CHECK_DEADLOCK FALSE
