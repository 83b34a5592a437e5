------------------------------- MODULE X86Emit -------------------------------
(***************************************************************************)
(* The emitter of UCC (x86.c): one action per Emit* function, each the     *)
(* whole of one iteration of EmitBBlock - UsedRegs is reset, the IR        *)
(* instruction is emitted, the operands' ref counts go down.               *)
(*                                                                         *)
(* The instruction is chosen by the action.  What the translator           *)
(* (tranexpr.c, transtmt.c) guarantees about the IR is kept in the other   *)
(* variables and guards the choice:                                        *)
(*                                                                         *)
(*   left[t]   the operand occurrences of t the IR still holds             *)
(*   pend[t]   t is the result of a conditional or a branch expression:    *)
(*             it is defined twice, in two basic blocks, before its use    *)
(*   index     the jump table index between its SUB and the IJMP           *)
(*   boundary  the instruction emitted last ended its basic block          *)
(***************************************************************************)
EXTENDS RegAlloc

CONSTANT MaxUse     \* the uses of a temporary after its definition

ASSUME X86EmitAssumption ==
    /\ MaxUse \in Nat \ {0}
    /\ Temps \cap {"block", "none"} = {}   \* these two are arguments, see Args

VARIABLES mach, left, pend, index, boundary

vars == <<mach, left, pend, index, boundary>>

\* "here": defined once, in this block; "later": the second definition is due
PendingKinds == {"no", "here", "later"}

-----------------------------------------------------------------------------
(* What the translator guarantees                                           *)

Live(t) == left[t] > 0

\* A temporary the function has not mentioned yet (CreateTemp)
Fresh(t) == ~Live(t) /\ t # index /\ \A r \in Regs : t \notin mach.link[r]

\* Mutant of Readable: an operand occurs once more than it was counted
ReadableOnceMore(p) == p \in Temps => left[p] >= 0 /\ pend[p] = "no"

\* p may be a source operand: a temporary has all its definitions behind it
Readable(p) == p \in Temps => Live(p) /\ pend[p] = "no"

\* t's only remaining occurrence is this one
LastUse(p) == p \in Temps => left[p] = 1

\* Two temporaries of one instruction come from two subexpressions
Distinct(p, q) == p \in Temps => p # q

\* n is the number of occurrences GenerateAssign and GenerateMove counted for t
CreateTemp(m, t, n) ==
    [m EXCEPT !.reg[t] = NULL, !.needwb[t] = FALSE, !.ref[t] = n,
              !.mval[t] = FALSE, !.wide = @ \ {t}]

-----------------------------------------------------------------------------
(* EmitBBlock around one instruction                                        *)

Begin(m) == [m EXCEPT !.wrong = {}]

(***************************************************************************)
(* A temporary the IR does not mention again is never an operand, so the   *)
(* allocator reads nothing of it but its place on a register's list.  The  *)
(* rest is forgotten here, to have one state where the program has many.   *)
(***************************************************************************)
Settle(m, keep) ==
    LET Linked(t) == \E r \in Regs : t \in m.link[r]
        Kept(t)   == m.ref[t] > 0 \/ t = keep
    IN  [m EXCEPT
           !.reg    = [t \in Temps |-> IF Kept(t) \/ Linked(t) THEN @[t] ELSE NULL],
           !.needwb = [t \in Temps |-> Kept(t) /\ @[t]],
           !.mval   = [t \in Temps |-> Kept(t) /\ @[t]],
           !.wide   = {t \in @ : Kept(t)},
           !.rval   = [r \in Regs |->
                         IF @[r] \in m.link[r] /\ Kept(@[r]) THEN @[r] ELSE NULL]]

\* Mutant of NextInst: UsedRegs is not reset
NextInstKeepsUsed(m, keep) == Settle(m, keep)

\* UsedRegs = 0, before the next instruction
NextInst(m, keep) == [Settle(m, keep) EXCEPT !.used = {}]

\* The instruction read the temporaries of S and defined d, which has n
\* occurrences left (d is NULL for an instruction that defines none); m is the
\* machine the Emit* function left
Inst(m, d, n, S) ==
    /\ mach' = NextInst(Decrement(m, {d} \cup S), NULL)
    /\ left' = [t \in Temps |->
                  IF t = d THEN n ELSE IF t \in S THEN left[t] - 1 ELSE left[t]]
    /\ index' = NULL

\* The block ends here: the trailing ClearRegs of EmitBBlock, and a temporary
\* defined in this block may be defined a second time in a later one
LeaveBBlock ==
    /\ pend' = [t \in Temps |-> IF pend[t] = "here" THEN "later" ELSE pend[t]]
    /\ boundary' = TRUE

\* t's pending definitions are k from here on, the block goes on
SetPending(t, k) ==
    /\ pend' = [pend EXCEPT ![t] = k]
    /\ boundary' = FALSE

InBBlock == UNCHANGED pend /\ boundary' = FALSE

\* A fresh temporary, with n uses to come, is defined from the operands of S
Defines(d, n, S) ==
    /\ index = NULL
    /\ Fresh(d)
    /\ n \in 0 .. MaxUse
    /\ \A p \in S : Readable(p)

NewTemp(d, n) == CreateTemp(Begin(mach), d, n + 1)

-----------------------------------------------------------------------------
(* EmitAssign                                                               *)

\* DST starts as SRC1: Move(X86_MOVI4, DST, SRC1) unless they share a register
PutDst(m, d, s1) ==
    LET n == AllocateDst(m, d, s1)
    IN  IF s1 \in Temps /\ n.reg[d] = n.reg[s1] THEN Use(n, s1)
        ELSE Load(n, n.reg[d], s1)

Result(m, d) == ModifyVar(Write(m, d), d)

\* "op SRC2, DST": SRC2 is read when DST already holds SRC1
BinaryCode(m, d, s1, s2) ==
    Result(Use(PutDst(AllocateSrc(AllocateSrc(m, s1), s2), d, s1), s2), d)

\* NEGI4 and COMPI4
UnaryCode(m, d, s1) == Result(PutDst(AllocateSrc(m, s1), d, s1), d)

\* Mutant of ShiftCount: the count is loaded over what ECX holds
ShiftCountNoSpill(m, s2) ==
    IF s2 = Const THEN m
    ELSE [IF s2 \in Temps /\ m.reg[s2] = ECX THEN m ELSE Load(m, ECX, s2)
            EXCEPT !.used = {ECX}]

\* A shift count that is no constant goes to CL
ShiftCount(m, s2) ==
    IF s2 = Const THEN m
    ELSE [IF s2 \in Temps /\ m.reg[s2] = ECX THEN m
          ELSE Load(SpillReg(m, ECX), ECX, s2)
            EXCEPT !.used = {ECX}]

\* Register r was loaded with p and must still hold it
UseReg(m, r, p) ==
    IF m.rval[r] = p THEN m ELSE [m EXCEPT !.wrong = @ \cup {Blame(m, p)}]

ShiftCode(m, d, s1, s2) ==
    LET n == PutDst(ShiftCount(AllocateSrc(m, s1), s2), d, s1)
    IN  Result(IF s2 = Const THEN n ELSE UseReg(n, ECX, s2), d)

\* SRC1 goes to EAX, EDX is free for the sign extension or the high half
Dividend(m, s1) ==
    LET n == IF s1 \in Temps /\ m.reg[s1] = EAX
             THEN SpillReg([m EXCEPT !.needwb[s1] = FALSE], EAX)
             ELSE Load(SpillReg(m, EAX), EAX, s1)
    IN  [SpillReg(n, EDX) EXCEPT !.used = {EAX, EDX}]

\* A constant divisor needs a register too
Divisor(m, s2) == IF s2 = Const THEN GetReg(m) ELSE AllocateSrc(m, s2)

\* cdq overwrites EDX before the divisor is read; the result is in EAX and EDX
DivideCode(m, d, s1, s2, result) ==
    LET n == Clobber(Divisor(Dividend(m, s1), s2), {EDX})
        q == Clobber(UseReg(Use(n, s2), EAX, s1), {EAX})
    IN  Result(AddVarToReg(q, result, d), d)

EmitBinary(d, n, s1, s2) ==
    /\ Defines(d, n, {s1, s2})
    /\ Distinct(s1, s2)
    /\ Inst(BinaryCode(NewTemp(d, n), d, s1, s2), d, n, {s1, s2})
    /\ InBBlock

EmitUnary(d, n, s1) ==
    /\ Defines(d, n, {s1})
    /\ Inst(UnaryCode(NewTemp(d, n), d, s1), d, n, {s1})
    /\ InBBlock

EmitShift(d, n, s1, s2) ==
    /\ Defines(d, n, {s1, s2})
    /\ Distinct(s1, s2)
    /\ Inst(ShiftCode(NewTemp(d, n), d, s1, s2), d, n, {s1, s2})
    /\ InBBlock

\* DIV and MULU4 leave their result in EAX, MOD in EDX.  needwb of an SRC1 in
\* EAX is cleared: the translator divides a temporary only at its last use.
EmitDivide(d, n, s1, s2, result) ==
    /\ Defines(d, n, {s1, s2})
    /\ Distinct(s1, s2)
    /\ LastUse(s1)
    /\ Inst(DivideCode(NewTemp(d, n), d, s1, s2, result), d, n, {s1, s2})
    /\ InBBlock

\* The SUB of TranslateSwitchBuckets, whose DST only the IJMP after it mentions:
\* GenerateIndirectJump does not count that occurrence
EmitTableIndex(d, s1) ==
    /\ Defines(d, 0, {s1})
    /\ mach' = NextInst(Decrement(BinaryCode(NewTemp(d, 0), d, s1, Const), {d, s1}), d)
    /\ left' = [t \in Temps |-> IF t = s1 THEN left[t] - 1 ELSE left[t]]
    /\ index' = d
    /\ InBBlock

-----------------------------------------------------------------------------
(* EmitAddress, EmitMove, EmitDeref, EmitIndirectMove, EmitCast, EmitClear   *)

EmitAddress(d, n) ==
    /\ Defines(d, n, {})
    /\ Inst(Result(AllocateDst(NewTemp(d, n), d, Var), d), d, n, {})
    /\ InBBlock

\* The operands of a 4-byte move; from memory to memory it takes a register
MoveOperands(m, d, s) ==
    IF s = Const THEN m
    ELSE LET n == AllocateDst(AllocateSrc(m, s), d, s)
         IN  IF s \notin Temps /\ d \notin Temps
             THEN Clobber(GetReg(n), {PickReg(n, EDI)})
             ELSE Use(n, s)

MoveCode(m, d, s) == Result(MoveOperands(m, d, s), d)

\* 1- and 2-byte moves go through a byte or a word register
NarrowRegs == {EDX, EDI}

MoveNarrow(m, s, endr) ==
    IF s = Const THEN m ELSE Clobber(GetRegInternal(m, endr), {PickReg(m, endr)})

\* A struct is copied with rep movsb, which changes three registers
BlockRegs == {EDI, ESI, ECX}

\* Mutant of SpillBlockRegs: ECX, which counts the bytes, is forgotten
SpillBlockAddresses(m) == SpillReg(SpillReg(m, EDI), ESI)

SpillBlockRegs(m) == SpillReg(SpillReg(SpillReg(m, EDI), ESI), ECX)

RepMovsb(m) == Clobber(m, BlockRegs)

\* MOV to a variable, or to a temporary defined once
EmitMove(d, n, s) ==
    /\ Defines(d, n, {s})
    /\ Inst(MoveCode(NewTemp(d, n), d, s), d, n, {s})
    /\ InBBlock

EmitMoveToVar(s) ==
    /\ index = NULL /\ Readable(s)
    /\ Inst(MoveCode(Begin(mach), Var, s), NULL, 0, {s})
    /\ InBBlock

\* The two MOVs to the result of a conditional or a branch expression
EmitFirstMove(d, n, s) ==
    /\ Defines(d, n, {s}) /\ n > 0
    /\ Inst(MoveCode(NewTemp(d, n + 1), d, s), d, n + 1, {s})
    /\ SetPending(d, "here")

EmitSecondMove(d, s) ==
    /\ index = NULL
    /\ pend[d] = "later" /\ Readable(s)
    /\ Inst(MoveCode(Begin(mach), d, s), d, left[d] - 1, {s})
    /\ SetPending(d, "no")

EmitMoveNarrow(s, endr) ==
    /\ index = NULL
    /\ Inst(MoveNarrow(Begin(mach), s, endr), NULL, 0, {})
    /\ InBBlock

EmitMoveBBlock ==
    /\ index = NULL
    /\ Inst(RepMovsb(SpillBlockRegs(Begin(mach))), NULL, 0, {})
    /\ InBBlock

\* DEREF: the address operand of EmitMove is (reg), reg the register of SRC1
EmitDeref(d, n, a) ==
    LET m == PutInReg(NewTemp(d, n), a)
        r == PutInRegOf(NewTemp(d, n), a)
    IN  /\ Defines(d, n, {a}) /\ a # Const
        /\ Inst(ModifyVar(Result(UseAddress(AllocateDst(m, d, Var), a, r), d), d),
                d, n, {a})
        /\ InBBlock

EmitDerefNarrow(a, endr) ==
    LET m == PutInReg(Begin(mach), a)
        r == PutInRegOf(Begin(mach), a)
    IN  /\ index = NULL /\ Readable(a) /\ a # Const
        /\ Inst(UseAddress(GetRegInternal(m, endr), a, r), NULL, 0, {a})
        /\ InBBlock

\* X86_MOVB loads EDI with the destination's address, then ESI with the source's
EmitDerefBBlock(a) ==
    LET m == SpillBlockRegs(PutInReg(Begin(mach), a))
        r == PutInRegOf(Begin(mach), a)
    IN  /\ index = NULL /\ Readable(a) /\ a # Const
        /\ Inst(RepMovsb(IF r # EDI THEN UseAddress(m, a, r)
                         ELSE [m EXCEPT !.wrong = @ \cup {"block"}]), NULL, 0, {a})
        /\ InBBlock

\* IMOV: (reg) is the destination of EmitMove, which may allocate registers
EmitIndirectMove(a, s) ==
    LET m == PutInReg(Begin(mach), a)
        r == PutInRegOf(Begin(mach), a)
    IN  /\ index = NULL /\ Readable(a) /\ Readable(s) /\ a # Const
        /\ Distinct(a, s)
        /\ Inst(UseAddress(MoveOperands(m, Var, s), a, r), NULL, 0, {a, s})
        /\ InBBlock

EmitIndirectMoveNarrow(a, s, endr) ==
    LET m == PutInReg(Begin(mach), a)
        r == PutInRegOf(Begin(mach), a)
    IN  /\ index = NULL /\ Readable(a) /\ a # Const
        /\ Inst(UseAddress(MoveNarrow(m, s, endr), a, r), NULL, 0, {a})
        /\ InBBlock

EmitIndirectMoveBBlock(a) ==
    LET m == SpillBlockRegs(PutInReg(Begin(mach), a))
        r == PutInRegOf(Begin(mach), a)
    IN  /\ index = NULL /\ Readable(a) /\ a # Const
        /\ Inst(RepMovsb(UseAddress(m, a, r)), NULL, 0, {a})
        /\ InBBlock

\* EXT: the only definition of a temporary without a ModifyVar
EmitExtend(d, n) ==
    LET m == Write(AllocateDst(NewTemp(d, n), d, Var), d)
    IN  /\ Defines(d, n, {})
        /\ Inst([m EXCEPT !.wide = @ \cup {d}], d, n, {})
        /\ InBBlock

\* X86ByteRegs has a name for EAX, ECX, EDX and EBX, X86WordRegs for each
HasName(r, endr) == endr = EDX => r <= EBX

\* TRU
EmitTruncate(s, endr) ==
    LET m == Begin(mach)
    IN  /\ index = NULL /\ Readable(s) /\ s # Const
        /\ Inst(IF s \in Temps /\ m.reg[s] # NULL /\ HasName(m.reg[s], endr)
                THEN Use(m, s)
                ELSE Load(GetRegInternal(m, endr), PickReg(m, endr), s), NULL, 0, {s})
        /\ InBBlock

\* CLR of a large variable calls memset, at the start of a statement
EmitClear ==
    /\ index = NULL
    /\ \A t \in Temps : ~Live(t)
    /\ Inst(Clobber(SpillReg(Begin(mach), EAX), {EAX, ECX, EDX}), NULL, 0, {})
    /\ InBBlock

-----------------------------------------------------------------------------
(* EmitCall and EmitReturn                                                  *)

\* The arguments: the temporaries, a struct, or "none" for any other argument,
\* whose push reads memory and changes nothing, and for no argument
Args == Temps \cup {"block", "none"}

\* Mutant of PushArgument: the argument's occurrence is not counted off
PushUncounted(m, p) ==
    CASE p = "none"  -> m
      [] p = "block" -> RepMovsb(SpillReg(SpillReg(SpillReg(m, ESI), EDI), ECX))
      [] OTHER       -> Use(m, p)

PushArgument(m, p) ==
    CASE p = "none"  -> m
      [] p = "block" -> RepMovsb(SpillReg(SpillReg(SpillReg(m, ESI), EDI), ECX))
      [] OTHER       -> Decrement(Use(m, p), {p})

\* The arguments are pushed from the last to the first; the callee may change
\* EAX, ECX and EDX.  A returned record needs a register for its address.
CallCode(m, f, arg1, arg2, record) ==
    LET m1 == PushArgument(PushArgument(m, arg2), arg1)
        m2 == SpillReg(SpillReg(SpillReg(m1, EAX), ECX), EDX)
        m3 == IF record THEN Clobber(GetReg(m2), {PickReg(m2, EDI)}) ELSE m2
    IN  Clobber(Use(m3, f), {EAX, ECX, EDX})

\* DST takes the value from EAX
RecvCode(m, d, f) == Result(AllocateDst(m, d, f), d)

CallGuard(f, arg1, arg2) ==
    /\ index = NULL
    /\ \A p \in {f, arg1, arg2} \cap Temps : Readable(p)
    /\ arg1 = "none" => arg2 = "none"
    /\ Distinct(f, arg1) /\ Distinct(f, arg2) /\ Distinct(arg1, arg2)
    /\ LastUse(f)

\* A 4-byte result in a temporary; DST->ref and SRC1->ref drop before AllocateReg
EmitCall(d, n, f, arg1, arg2) ==
    LET m == CallCode(NewTemp(d, n), f, arg1, arg2, FALSE)
    IN  /\ Defines(d, n, {})
        /\ CallGuard(f, arg1, arg2)
        /\ mach' = NextInst(RecvCode(Decrement(m, {d, f}), d, f), NULL)
        /\ left' = [t \in Temps |-> IF t = d THEN n
                                    ELSE IF t \in {f, arg1, arg2} THEN left[t] - 1
                                    ELSE left[t]]
        /\ UNCHANGED index
        /\ InBBlock

\* No result, one that goes to memory, or a record
EmitCallNoTemp(f, arg1, arg2, record) ==
    LET m == CallCode(Begin(mach), f, arg1, arg2, record)
    IN  /\ CallGuard(f, arg1, arg2)
        /\ mach' = NextInst(Decrement(m, {f}), NULL)
        /\ left' = [t \in Temps |-> IF t \in {f, arg1, arg2} THEN left[t] - 1
                                    ELSE left[t]]
        /\ UNCHANGED index
        /\ InBBlock

\* Nothing but the returned operand is live
EmitReturn(s) ==
    LET m == Begin(mach)
    IN  /\ index = NULL /\ Readable(s)
        /\ \A t \in Temps : Live(t) => t = s /\ LastUse(t)
        /\ Inst(IF s \in Temps /\ m.reg[s] = EAX THEN Use(m, s) ELSE Load(m, EAX, s),
                NULL, 0, {s})
        /\ InBBlock

-----------------------------------------------------------------------------
(* The instructions that end a basic block                                  *)

\* JZ and JNZ, without SRC2, do as with a constant SRC2
BranchCode(m, s1, s2) ==
    LET m1 == Decrement(m, {s1})
        m2 == IF s2 = Const THEN Use(m1, s1)
              ELSE UseReg(PutInReg(m1, s1), PutInRegOf(m1, s1), s1)
    IN  ClearRegs(Decrement(Use(m2, s2), {s2}))

EmitBranch(s1, s2) ==
    /\ index = NULL
    /\ Readable(s1) /\ Readable(s2) /\ Distinct(s1, s2)
    /\ mach' = NextInst(BranchCode(Begin(mach), s1, s2), NULL)
    /\ left' = [t \in Temps |-> IF t \in {s1, s2} THEN left[t] - 1 ELSE left[t]]
    /\ index' = NULL
    /\ LeaveBBlock

\* EmitJump, or the ClearRegs with which EmitBBlock ends
EmitJump ==
    /\ index = NULL
    /\ Inst(ClearRegs(Begin(mach)), NULL, 0, {})
    /\ LeaveBBlock

EmitIndirectJump ==
    /\ index # NULL
    /\ LET m == PutInReg(Begin(mach), index)
           r == PutInRegOf(Begin(mach), index)
       IN  mach' = NextInst(ClearRegs(UseReg(m, r, index)), NULL)
    /\ index' = NULL
    /\ LeaveBBlock
    /\ UNCHANGED left

-----------------------------------------------------------------------------
(* The emitter                                                              *)

Init ==
    /\ mach = [link   |-> [r \in Regs |-> {}],
               reg    |-> [t \in Temps |-> NULL],
               needwb |-> [t \in Temps |-> FALSE],
               ref    |-> [t \in Temps |-> 0],
               used   |-> {},
               rval   |-> [r \in Regs |-> NULL],
               mval   |-> [t \in Temps |-> FALSE],
               wide   |-> {},
               wrong  |-> {}]
    /\ left = [t \in Temps |-> 0]
    /\ pend = [t \in Temps |-> "no"]
    /\ index = NULL
    /\ boundary = TRUE

Uses == 0 .. MaxUse

\* A constant operand behaves as a variable except where Const is named
Sources == Temps \cup {Var}

EmitDefinition ==
    \E d \in Temps, n \in Uses :
        \/ \E s1 \in Sources :
              \/ EmitUnary(d, n, s1)
              \/ EmitDeref(d, n, s1)
              \/ \E s2 \in Sources : EmitBinary(d, n, s1, s2)
              \/ \E s2 \in Operands :
                    \/ EmitShift(d, n, s1, s2)
                    \/ \E result \in {EAX, EDX} : EmitDivide(d, n, s1, s2, result)
        \/ \E s \in Operands :
              \/ EmitMove(d, n, s)
              \/ EmitFirstMove(d, n, s)
        \/ EmitAddress(d, n)
        \/ EmitExtend(d, n)
        \/ \E f \in Temps \cup {Const}, arg1, arg2 \in Args :
              EmitCall(d, n, f, arg1, arg2)

EmitEffect ==
    \/ \E s \in Operands :
          \/ EmitMoveToVar(s)
          \/ \E d \in Temps : EmitSecondMove(d, s)
          \/ \E a \in Sources : EmitIndirectMove(a, s)
    \/ \E s \in Sources :
          \/ EmitReturn(s)
          \/ EmitDerefBBlock(s)
          \/ EmitIndirectMoveBBlock(s)
          \/ \E endr \in NarrowRegs :
                \/ EmitDerefNarrow(s, endr)
                \/ EmitTruncate(s, endr)
    \/ \E s \in {Var, Const}, endr \in NarrowRegs :
          \/ EmitMoveNarrow(s, endr)
          \/ \E a \in Sources : EmitIndirectMoveNarrow(a, s, endr)
    \/ EmitMoveBBlock
    \/ EmitClear
    \/ \E f \in Temps \cup {Const}, arg1, arg2 \in Args, record \in BOOLEAN :
          EmitCallNoTemp(f, arg1, arg2, record)

EndBBlock ==
    \/ \E s1 \in Sources, s2 \in Operands : EmitBranch(s1, s2)
    \/ EmitJump
    \/ EmitIndirectJump

TableIndex == \E d \in Temps, s \in Operands : EmitTableIndex(d, s)

Next == EmitDefinition \/ EmitEffect \/ EndBBlock \/ TableIndex

Spec == Init /\ [][Next]_vars

-----------------------------------------------------------------------------
(* Properties                                                               *)

\* The machine, the occurrence counts and the pending marks stay in their types.
TypeOK ==
    /\ mach \in Machine
    /\ left \in [Temps -> 0 .. MaxUse + 1]
    /\ pend \in [Temps -> PendingKinds]
    /\ index \in Temps \cup {NULL}
    /\ boundary \in BOOLEAN

\* A register's list never holds two temporaries, the two assertions ModifyVar
\* has commented out and the reason its loops "only loop once" (reg.c, x86.c).
AtMostOneTemp ==
    \A r \in Regs : \A t, u \in mach.link[r] : t = u

\* t->reg and the register's list agree, for every temporary still mentioned.
LinkAgrees ==
    /\ \A r \in Regs : \A t \in mach.link[r] : mach.reg[t] = r
    /\ \A t \in Temps : Live(t) /\ mach.reg[t] # NULL => t \in mach.link[mach.reg[t]]

\* A defined temporary that is still to be read has its value in its register,
\* and one that is not to be written back has it in its frame slot (needwb):
\* spilling it at any moment loses nothing.
LiveValueHeld ==
    \A t \in Temps \ mach.wide :
        Live(t) =>
            /\ mach.reg[t] # NULL => mach.rval[mach.reg[t]] = t
            /\ (mach.reg[t] = NULL \/ ~mach.needwb[t]) => mach.mval[t]

\* Every operand an instruction prints names the value the IR operand has,
\* whatever was evicted to make room for the instruction's other operands.
OperandsRight == "src" \notin mach.wrong

\* assert(reg != NO_REG) in SeclecSpillReg: an instruction never has marked all
\* the registers it may choose from as used.
NeverOutOfRegisters == "noreg" \notin mach.wrong

\* The count SpillReg and AllocateReg decide by is the number of occurrences
\* the IR still holds: no emitter forgets or repeats a decrement.
RefExact == mach.ref = left

\* At a block boundary no register is claimed and every live value is in its
\* frame slot, so that the blocks that jump there agree on where values are.
BoundaryInMemory ==
    boundary =>
        /\ \A r \in Regs : mach.link[r] = {}
        /\ \A t \in Temps \ mach.wide : Live(t) => mach.mval[t]

\* needwb # 0 means that register and memory disagree (doc/lecture1.md): a
\* live temporary whose frame slot is stale has its needwb set.
NeedwbWhenStale ==
    \A t \in Temps : Live(t) /\ mach.reg[t] # NULL /\ ~mach.mval[t] => mach.needwb[t]

\* AllocateReg and PutInReg hand out a register for the current instruction:
\* an address in it is still there when the store through it happens.
AddressesRight == "addr" \notin mach.wrong

\* rep movsb copies from the address the DEREF was given.
BlockSourceRight == "block" \notin mach.wrong
=============================================================================
