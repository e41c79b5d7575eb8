SPECIFICATION Spec
CONSTANTS
    Instances = {i1, i2, i3}
    Nodes = {n1, n2, n3}
    NoInstance = NoInstance
    NoNode = NoNode
    DefaultSize = 1
    IntMax = 3
    FileNumbers = {0, 1, 2}
    MaxIndex = 1
    Client = {}
INVARIANTS
    TypeOK
    SlotsExact
    MapExact
PROPERTIES
    ImplementsInstanceTable
SYMMETRY Symmetry
