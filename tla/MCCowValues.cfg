SPECIFICATION Spec
CONSTANTS
    b1 = b1
    b2 = b2
    b3 = b3
    o1 = o1
    o2 = o2
    o3 = o3
    v1 = v1
    v2 = v2
    None = None
    Buffers <- TwoBuffers
    Owners <- TwoOwners
    Values <- TwoValues
    MaxSize = 2
    NumCells = 6
    Accesses <- WriteAccess
    MaxDepth = 1
    SpillOptions = {TRUE, FALSE}
SYMMETRY Symmetry
INVARIANTS
    TypeOK
PROPERTIES
    ImplementsValues
