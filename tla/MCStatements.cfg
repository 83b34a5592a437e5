SPECIFICATION Spec
CONSTANTS
    Bits <- MCBits
    VarType <- MCVarType
    VarBase <- MCVarBase
    FunType <- MCFunType
    Programs <- MCPrograms
    Memories <- MCMemories
    Answers <- MCAnswers
    Fuel <- MCFuel
INVARIANTS ChecksRight RunsRight BlocksPlaced AsTested
PROPERTY Terminates
CHECK_DEADLOCK FALSE
