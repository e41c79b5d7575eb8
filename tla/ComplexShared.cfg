SPECIFICATION Spec
CONSTANTS
    Schemas <- SharingSet
    EntityOrder <- Order
PROPERTIES
    SharedAccepted
CHECK_DEADLOCK FALSE
