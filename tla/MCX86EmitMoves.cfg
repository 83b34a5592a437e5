SPECIFICATION Spec
CONSTANTS
    t1 = t1  t2 = t2  t3 = t3  t4 = t4
    NULL = NULL
    Regs <- FourRegs
    Temps <- ThreeTemps
    MaxUse = 1
SYMMETRY Symmetry
INVARIANTS
    AddressesRight
    BlockSourceRight
