SPECIFICATION Spec
CONSTANTS
    IntMax = 15
    Labels <- SomeLabels
    MaxCases = 5
    Default = Default
    Body = Body
    NULL = NULL
CHECK_DEADLOCK FALSE
INVARIANTS
    DefaultTaken
