SPECIFICATION Spec
CONSTANTS
    Names <- MCNames
    TypeNames <- MCTypeNames
    Literals <- MCLiterals
    Units <- MCUnits
INVARIANT ParsesBack
CHECK_DEADLOCK FALSE
