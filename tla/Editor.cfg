SPECIFICATION Spec
CONSTANTS
    n1 = n1
    n2 = n2
    Null = Null
    Nodes <- NodeSet
    StateLists = {"complete", "delete"}
    DisplayLists = {"mappedWrite", "notMapped"}
INVARIANTS
    ListsWellLinked
    DestroyedIsOffLists
PROPERTIES
    KeepsOrder
    DeletingEnds
