SPECIFICATION Spec
CONSTANTS
    Bits <- MCBits
    VarType <- MCVarType
    VarBase <- MCVarBase
    FunType <- MCFunType
    Programs <- MCPrograms
    Memories <- MCMemories
    Answers <- MCAnswers
    Fuel <- MCFuel
INVARIANTS TypeOK ChecksRight RunsRight
CHECK_DEADLOCK FALSE
