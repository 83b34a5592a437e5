------------------------------ MODULE RegAlloc ------------------------------
(***************************************************************************)
(* The register allocator of UCC: reg.c and the helpers of x86.c that the  *)
(* emitters share (PutInReg, AllocateReg, AddVarToReg, ModifyVar,          *)
(* PushArgument).  The C code keeps its state in global symbols; here it   *)
(* is one record, the machine m, and every C function is an operator from  *)
(* machines to machines:                                                   *)
(*                                                                         *)
(*   link[r]    the temporaries on X86Regs[r]->link                        *)
(*   reg[t]     t->reg, NULL when t has no register                        *)
(*   needwb[t]  t->needwb                                                  *)
(*   ref[t]     t->ref, the operand occurrences not emitted yet            *)
(*   used       UsedRegs, the registers of the current instruction         *)
(*                                                                         *)
(* The last four components are history: what the emitted assembly does,   *)
(* so that "the operand names the right value" can be said.                *)
(*                                                                         *)
(*   rval[r]    the operand whose value register r holds, NULL if unknown  *)
(*   mval[t]    whether t's frame slot holds t's value                     *)
(*   wide       the live temporaries defined by an EXT cast                *)
(*   wrong      what went wrong in the instruction emitted last            *)
(*                                                                         *)
(* Only 4-byte temporaries are ever allocated a register; variables,       *)
(* constants, 1- and 2-byte and struct temporaries are operands in memory. *)
(***************************************************************************)
EXTENDS Integers, FiniteSets

CONSTANTS
    Regs,    \* the allocatable registers, by their index in X86Regs
    Temps,   \* the 4-byte temporaries
    NULL

EAX == 0
ECX == 1
EDX == 2
EBX == 3
ESI == 6
EDI == 7

\* Operands that are no temporary: a variable (or any memory operand), a constant
Var   == "var"
Const == "const"

Operands == Temps \cup {Var, Const}

Faults == {"src", "widened", "addr", "block", "noreg"}

ASSUME RegAllocAssumption ==
    /\ {EAX, ECX, EDX} \subseteq Regs
    /\ Regs \subseteq {EAX, ECX, EDX, EBX, ESI, EDI}
    /\ IsFiniteSet(Temps)
    /\ NULL \notin Regs /\ NULL \notin Operands
    /\ Temps \cap {Var, Const} = {}

Machine ==
    [link   : [Regs -> SUBSET Temps],
     reg    : [Temps -> Regs \cup {NULL}],
     needwb : [Temps -> BOOLEAN],
     ref    : [Temps -> Int],
     used   : SUBSET Regs,
     rval   : [Regs -> Operands \cup {NULL}],
     mval   : [Temps -> BOOLEAN],
     wide   : SUBSET Temps,
     wrong  : SUBSET Faults]

-----------------------------------------------------------------------------
(* The assembly: what reading an operand and moving a value amounts to      *)

\* The operand as PutASMCode prints it names p's value: the register's name
\* when p->reg is set, the frame slot otherwise.
Holds(m, p) ==
    p \in Temps => IF m.reg[p] # NULL THEN m.rval[m.reg[p]] = p ELSE m.mval[p]

Blame(m, p) == IF p \in m.wide THEN "widened" ELSE "src"

Use(m, p) ==
    IF Holds(m, p) THEN m ELSE [m EXCEPT !.wrong = @ \cup {Blame(m, p)}]

\* The address operand a is expected in register r
UseAddress(m, a, r) ==
    IF m.rval[r] = a \/ a \in m.wide
    THEN m ELSE [m EXCEPT !.wrong = @ \cup {"addr"}]

\* Move(X86_MOVI4, X86Regs[r], p)
Load(m, r, p) ==
    [Use(m, p) EXCEPT !.rval[r] = IF Holds(m, p) THEN p ELSE NULL]

Clobber(m, R) == [m EXCEPT !.rval = [r \in Regs |-> IF r \in R THEN NULL ELSE @[r]]]

\* The instruction writes its result to d: to d's register, else to memory
Write(m, d) ==
    IF d \notin Temps THEN m
    ELSE IF m.reg[d] # NULL
         THEN [m EXCEPT !.rval[m.reg[d]] = d, !.mval[d] = FALSE]
         ELSE [m EXCEPT !.mval[d] = TRUE]

-----------------------------------------------------------------------------
(* reg.c                                                                    *)

\* A temporary whose register must be written back
Dirty(m, t) == m.needwb[t] /\ m.ref[t] > 0

\* Mutant of SpillRegs: the temporaries' reg is not reset
SpillKeepsReg(m, R) ==
    LET StoreVar == {t \in Temps : Dirty(m, t) /\ \E r \in R : t \in m.link[r]}
    IN  [m EXCEPT
           !.link   = [r \in Regs |-> IF r \in R THEN {} ELSE @[r]],
           !.needwb = [t \in Temps |-> @[t] /\ t \notin StoreVar],
           !.mval   = [t \in Temps |-> @[t] \/ t \in StoreVar]]

\* SpillReg for every register of R: ClearRegs, and the runs of SpillReg
SpillRegs(m, R) ==
    LET Spilled  == {t \in Temps : \E r \in R : t \in m.link[r]}
        StoreVar == {t \in Spilled : Dirty(m, t)}
    IN  [m EXCEPT
           !.link   = [r \in Regs |-> IF r \in R THEN {} ELSE @[r]],
           !.reg    = [t \in Temps |-> IF t \in Spilled THEN NULL ELSE @[t]],
           !.needwb = [t \in Temps |-> @[t] /\ t \notin StoreVar],
           !.mval   = [t \in Temps |->
                         IF t \in StoreVar
                         THEN \E r \in R : t \in m.link[r] /\ m.rval[r] = t
                         ELSE @[t]]]

\* X86Regs[i] is NULL for a register the configuration leaves out
SpillReg(m, r) == SpillRegs(m, {r} \cap Regs)

\* Mutant of ClearRegs: the loop starts after EAX
ClearRegsFromECX(m) == SpillRegs(m, Regs \ {EAX})

ClearRegs(m) == SpillRegs(m, Regs)

\* The registers neither linked to a temporary nor used by this instruction
EmptyRegs(m, endr) ==
    {i \in Regs : i <= endr /\ m.link[i] = {} /\ i \notin m.used}

FindEmptyRegs(m, endr) ==
    CHOOSE i \in EmptyRegs(m, endr) : \A j \in EmptyRegs(m, endr) : i <= j

\* The sum of p->ref over the dirty temporaries of register i
SpillCost(m, i) ==
    Cardinality(UNION {{t} \X (1 .. m.ref[t]) : t \in {u \in m.link[i] : Dirty(m, u)}})

\* Mutant of SpillCandidates: UsedRegs is not looked at
SpillAny(m, endr) == {i \in Regs : i <= endr}

SpillCandidates(m, endr) == {i \in Regs : i <= endr /\ i \notin m.used}

\* The cheapest register to spill, the lowest index among equals
SeclecSpillReg(m, endr) ==
    LET cost == [i \in SpillCandidates(m, endr) |-> SpillCost(m, i)]
    IN  CHOOSE i \in SpillCandidates(m, endr) :
            \A j \in SpillCandidates(m, endr) :
                \/ cost[i] < cost[j]
                \/ cost[i] = cost[j] /\ i <= j

\* The register GetRegInternal returns, NULL where its assertion fails
PickReg(m, endr) ==
    IF EmptyRegs(m, endr) # {} THEN FindEmptyRegs(m, endr)
    ELSE IF SpillCandidates(m, endr) # {} THEN SeclecSpillReg(m, endr)
    ELSE NULL

\* Mutant of GetRegInternal: the register is taken without SpillReg
GetRegNoSpill(m, endr) ==
    LET i == PickReg(m, endr)
    IN  IF i = NULL
        THEN [m EXCEPT !.wrong = @ \cup {"noreg"}]
        ELSE [m EXCEPT !.used = @ \cup {i}]

\* The machine GetRegInternal leaves; spilling an empty register is no step
GetRegInternal(m, endr) ==
    LET i == PickReg(m, endr)
    IN  IF i = NULL
        THEN [m EXCEPT !.wrong = @ \cup {"noreg"}]
        ELSE [SpillReg(m, i) EXCEPT !.used = @ \cup {i}]

GetReg(m) == GetRegInternal(m, EDI)

-----------------------------------------------------------------------------
(* x86.c, the helpers of the emitters                                       *)

PutInRegOf(m, p) ==
    IF p \in Temps /\ m.reg[p] # NULL THEN m.reg[p] ELSE PickReg(m, EDI)

\* A temporary that has a register keeps it, and UsedRegs is left alone
PutInReg(m, p) ==
    IF p \in Temps /\ m.reg[p] # NULL THEN m
    ELSE Load(GetReg(m), PickReg(m, EDI), p)

AddVarToReg(m, r, v) == [m EXCEPT !.link[r] = @ \cup {v}, !.reg[v] = r]

\* AllocateReg(inst, 1) and AllocateReg(inst, 2): p is a source operand
AllocateSrc(m, p) ==
    IF p \notin Temps THEN m
    ELSE IF m.reg[p] # NULL THEN [m EXCEPT !.used = @ \cup {m.reg[p]}]
    ELSE LET r == PickReg(m, EDI)
         IN  AddVarToReg(Load(GetReg(m), r, p), r, p)

\* AllocateReg(inst, 0): d takes over the register of src1 at its last use
AllocateDst(m, d, src1) ==
    IF d \notin Temps THEN m
    ELSE IF m.reg[d] # NULL THEN [m EXCEPT !.used = @ \cup {m.reg[d]}]
    ELSE IF src1 \in Temps /\ m.ref[src1] = 1 /\ m.reg[src1] # NULL
    THEN AddVarToReg([m EXCEPT !.link[m.reg[src1]] = {}], m.reg[src1], d)
    ELSE AddVarToReg(GetReg(m), PickReg(m, EDI), d)

\* Mutant of ModifyVar: needwb stays clear
ModifyVarClean(m, d) ==
    IF d \notin Temps \/ m.reg[d] = NULL THEN m
    ELSE LET r == m.reg[d]
         IN  AddVarToReg(SpillReg([m EXCEPT !.needwb[d] = FALSE], r), r, d)

\* d was written: the other temporaries of its register leave, d is dirty
ModifyVar(m, d) ==
    IF d \notin Temps \/ m.reg[d] = NULL THEN m
    ELSE LET r == m.reg[d]
         IN  [AddVarToReg(SpillReg([m EXCEPT !.needwb[d] = FALSE], r), r, d)
                EXCEPT !.needwb[d] = TRUE]

\* p->ref-- for every temporary of S
Decrement(m, S) ==
    [m EXCEPT !.ref = [t \in Temps |-> IF t \in S THEN @[t] - 1 ELSE @[t]]]
=============================================================================
