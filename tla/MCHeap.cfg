SPECIFICATION Spec
CONSTANTS
    Heaps = {FileHeap, StringHeap}
    Blocks = {b1, b2, b3}
    MblockSize = 2
    Alignment = 2
    Sizes <- SomeSizes
    MaxSize = 5
    MaxAllocs = 2
    FREE = FREE
    NULL = NULL
CHECK_DEADLOCK FALSE
INVARIANTS
    TypeOK
    NoBlockLost
    LiveIsOwned
    Aligned
PROPERTIES
    ImplementsArena
    RequestEnds
