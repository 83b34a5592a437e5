SPECIFICATION Spec
CONSTANTS
    Ids = {T, x}
    MaxLevel = 3
    NULL = NULL
SYMMETRY Symmetry
INVARIANTS
    TypedefEnds
    RedeclaredIsNoType
