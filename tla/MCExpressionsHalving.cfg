SPECIFICATION Spec
CONSTANTS
    Bits <- MCBits
    VarType <- MCVarType
    VarBase <- MCVarBase
    FunType <- MCFunType
    Programs <- HalvingPrograms
    Memories <- MCMemories
    Answers <- MCAnswers
    Fuel <- MCFuel
INVARIANT SimplificationKeepsValue
CHECK_DEADLOCK FALSE
