SPECIFICATION Spec
CONSTANTS
    Bits <- MCBits
    VarType <- MCVarType
    FunType <- MCFunType
    Compilations <- MCCompilations
    Text <- MCText
    Object <- MCObject
    CheckedType <- DeclaredType
    CheckedInitializer <- Initialization
    Compatible <- IsCompatible
    NameOfString <- StringName
INVARIANTS DataRight TypesRight PlacementRight
CHECK_DEADLOCK FALSE
