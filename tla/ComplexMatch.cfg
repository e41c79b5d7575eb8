SPECIFICATION Spec
CONSTANTS
    Schemas <- SchemaSet
    EntityOrder <- Order
INVARIANT
    SearchEnds
PROPERTIES
    AnswersRight
    Restored
CHECK_DEADLOCK FALSE
