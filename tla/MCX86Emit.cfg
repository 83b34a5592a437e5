SPECIFICATION Spec
CONSTANTS
    t1 = t1  t2 = t2  t3 = t3  t4 = t4
    NULL = NULL
    Regs <- ThreeRegs
    Temps <- FourTemps
    MaxUse = 2
SYMMETRY Symmetry
CONSTRAINT FewOccurrences
INVARIANTS
    TypeOK
    LinkAgrees
    LiveValueHeld
    OperandsRight
    NeverOutOfRegisters
    RefExact
    BoundaryInMemory
