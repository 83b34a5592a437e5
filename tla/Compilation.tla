----------------------------- MODULE Compilation -----------------------------
(***************************************************************************)
(* A function on its way from its syntax tree to a run of its code: the    *)
(* tree is checked, translated into basic blocks, and the blocks are run   *)
(* one instruction at a time, with every instruction doing what its        *)
(* template in x86linux.tpl does to memory.  Blocks are run in the order   *)
(* in which they were started, one falling through into the next.          *)
(***************************************************************************)
EXTENDS Translation, CSemantics

CONSTANTS Programs,     \* the functions: a body, the type it returns, the code a test expects
          Memories,     \* what the variables may hold at first
          Answers       \* what the functions it calls may return

VARIABLES phase,        \* source, checked, translated, running, done; rejected, crashed, fault
          source,       \* the function as it is written
          tree,         \* and as it was checked
          code,         \* its blocks, and the order in which they were started
          meaning,      \* what the source means in this run
          mem,          \* the variables, scalar by scalar
          temps,        \* the temporaries that have been stored
          trace,        \* the calls made so far
          answers,      \* what the next calls return
          at,           \* the place of the running block, and of the next instruction
          ret           \* the value returned

vars == << phase, source, tree, code, meaning, mem, temps, trace, answers, at, ret >>
compiled == << source, tree, code, meaning >>

\* A function to be run; one of the test suite is only compared with what is expected.
Program(body, result) == [body |-> body, result |-> result, expected |-> << >>]

NoCode == [blocks |-> << >>, order |-> << >>]
Nowhere == << 0, 0 >>
NoTemps == [t \in {} |-> [code |-> 0, v |-> 0]]
AllZero == [a \in Addresses |-> 0]

Init ==
    /\ phase = "source"
    /\ source \in Programs
    /\ tree = source.body /\ code = NoCode
    /\ meaning = StartState(AllZero, << >>)
    /\ mem = AllZero /\ temps = NoTemps
    /\ trace = << >> /\ answers = << >> /\ at = Nowhere /\ ret = << >>

CheckFunctionBody ==
    /\ phase = "source"
    /\ tree' = CheckStatement(NoFunction, source.result, source.body).s
    /\ phase' = CASE tree' = BadStatement -> "rejected"
                  [] tree' = Stopped -> "crashed"         \* and the compiler with it
                  [] OTHER -> "checked"
    /\ UNCHANGED << source, code, meaning, mem, temps, trace, answers, at, ret >>

TranslateBody ==
    /\ phase = "checked"
    /\ LET c == TranslateFunction(tree)
       IN  code' = [blocks |-> c.code, order |-> c.order]
    /\ phase' = "translated"
    /\ UNCHANGED << source, tree, meaning, mem, temps, trace, answers, at, ret >>

Run ==
    /\ phase = "translated" /\ source.expected = << >>
    /\ \E m \in Memories, a \in Answers :
         /\ meaning' = Meaning(source.body, source.result, m, a)
         /\ mem' = m /\ answers' = a
    /\ meaning'.ok                        \* a run the standard leaves undefined is left out
    /\ meaning'.answers = << >>           \* and so are answers that no call takes
    /\ phase' = "running"
    /\ at' = << 1, 1 >>
    /\ UNCHANGED << source, tree, code, temps, trace, ret >>

-----------------------------------------------------------------------------
(* Operands. *)

IsObject(s) == s.kind \in {"variable", "offset"}
AddressOfSym(s) == VarBase[s.id] + s.n

Readable(s, c) ==
    CASE s.kind = "constant" -> TRUE
      [] IsObject(s) -> Accessible(c, AddressOfSym(s))
      [] s.kind = "temp" -> s.n \in DOMAIN temps /\ CodeSize(temps[s.n].code) >= CodeSize(c)
      [] OTHER -> FALSE
ValueOf(s, c) ==
    CASE s.kind = "constant" -> Wrap(c, s.n)
      [] IsObject(s) -> Load(mem, c, AddressOfSym(s))
      [] OTHER -> Wrap(c, temps[s.n].v)

Writable(s, c) == s.kind = "temp" \/ (IsObject(s) /\ Accessible(c, AddressOfSym(s)))
Write(s, c, v) ==
    IF s.kind = "temp"
    THEN /\ temps' = [t \in DOMAIN temps \cup {s.n} |->
                        IF t = s.n THEN [code |-> c, v |-> Wrap(c, v)] ELSE temps[t]]
         /\ UNCHANGED mem
    ELSE mem' = Store(mem, c, AddressOfSym(s), v) /\ UNCHANGED temps

Instructions == code.blocks[code.order[at[1]]]
AtInstruction(ops) ==
    phase = "running" /\ at[2] <= Len(Instructions) /\ Instructions[at[2]].op \in ops
Next1 == << at[1], at[2] + 1 >>

Places(bb) == {i \in DOMAIN code.order : code.order[i] = bb}
Target(bb) == << CHOOSE i \in Places(bb) : TRUE, 1 >>

Fault == phase' = "fault" /\ UNCHANGED << mem, temps, trace, answers, at, ret >>
Steps == at' = Next1 /\ UNCHANGED << phase, trace, answers, ret >>
\* An instruction that stores a value, if its operands can be read and written.
StoreIf(possible, dst, c, v) ==
    IF possible /\ Writable(dst, c) THEN Write(dst, c, v) /\ Steps ELSE Fault

-----------------------------------------------------------------------------
(* Instructions. *)

BinaryResult(op, c, a, b) ==
    CASE op = "+" -> a + b
      [] op = "-" -> a - b
      [] op = "*" -> a * b
      [] op = "/" -> Quotient(a, b)
      [] op = "%" -> Remainder(a, b)
      [] op = "<<" -> a * 2 ^ (b % Bits[4])
      [] op = ">>" -> a \div 2 ^ (b % Bits[4])
      [] op \in BitwiseOps -> Bits2(op, a, b)

\* There is no case for the unsigned forms of a negation or a complement.
AssignOps == (BinaryOps \ (LogicalOps \cup EqualityOps \cup RelationalOps)) \cup {"-x", "~"}
Assign ==
    /\ AtInstruction(AssignOps)
    /\ LET i == Instructions[at[2]]
           c == TypeCode(i.ty)
           a == ValueOf(i.src1, c)
           b == ValueOf(i.src2, c)
       IN  IF i.op \in {"-x", "~"}
           THEN StoreIf(Readable(i.src1, c) /\ Signed(c), i.dst, c,
                        IF i.op = "~" THEN -a - 1 ELSE -a)
           ELSE StoreIf(/\ Readable(i.src1, c) /\ Readable(i.src2, c)
                        /\ i.op \in {"/", "%"} => b # 0,
                        i.dst, c, BinaryResult(i.op, c, a, b))
    /\ UNCHANGED compiled

\* A block of bytes moves between objects, a scalar through a register.
MoveBlock(ty, to, from) ==
    IF Copyable(ty, to, from) THEN mem' = Copy(mem, ty, to, from) /\ UNCHANGED temps /\ Steps
    ELSE Fault
Move ==
    /\ AtInstruction({"MOV"})
    /\ LET i == Instructions[at[2]]
           c == TypeCode(i.ty)
       IN  CASE c # Code.B -> StoreIf(Readable(i.src1, c), i.dst, c, ValueOf(i.src1, c))
             [] c = Code.B /\ IsObject(i.dst) /\ IsObject(i.src1) ->
                  MoveBlock(i.ty, AddressOfSym(i.dst), AddressOfSym(i.src1))
             [] OTHER -> Fault
    /\ UNCHANGED compiled

IndirectMove ==
    /\ AtInstruction({"IMOV"})
    /\ LET i == Instructions[at[2]]
           c == TypeCode(i.ty)
           fine == Readable(i.dst, Code.U4)
           to == ValueOf(i.dst, Code.U4)
       IN  CASE fine /\ c # Code.B /\ Readable(i.src1, c) /\ Accessible(c, to) ->
                  /\ mem' = Store(mem, c, to, ValueOf(i.src1, c))
                  /\ UNCHANGED temps /\ Steps
             [] fine /\ c = Code.B /\ IsObject(i.src1) ->
                  MoveBlock(i.ty, to, AddressOfSym(i.src1))
             [] OTHER -> Fault
    /\ UNCHANGED compiled

Dereference ==
    /\ AtInstruction({"DEREF"})
    /\ LET i == Instructions[at[2]]
           c == TypeCode(i.ty)
           from == ValueOf(i.src1, Code.U4)
       IN  StoreIf(Readable(i.src1, Code.U4) /\ Accessible(c, from), i.dst, c, Load(mem, c, from))
    /\ UNCHANGED compiled

\* A temporary has no place in memory to take the address of.
TakeAddress ==
    /\ AtInstruction({"ADDR"})
    /\ LET i == Instructions[at[2]]
       IN  StoreIf(IsObject(i.src1), i.dst, Code.U4, AddressOfSym(i.src1))
    /\ UNCHANGED compiled

CastFrom == [EXTI1 |-> Code.I1, EXTU1 |-> Code.U1, EXTI2 |-> Code.I2, EXTU2 |-> Code.U2,
             TRUI1 |-> Code.I4, TRUI2 |-> Code.I4]
CastTo2 == [EXTI1 |-> Code.I4, EXTU1 |-> Code.I4, EXTI2 |-> Code.I4, EXTU2 |-> Code.I4,
            TRUI1 |-> Code.I1, TRUI2 |-> Code.I2]
CastValue ==
    /\ AtInstruction(DOMAIN CastFrom)
    /\ LET i == Instructions[at[2]]
           c == CastFrom[i.op]
           fine == i.src1.kind = "constant" => c = Code.I4
       IN  StoreIf(Readable(i.src1, c) /\ fine, i.dst, CastTo2[i.op], ValueOf(i.src1, c))
    /\ UNCHANGED compiled

Clear ==
    /\ AtInstruction({"CLR"})
    /\ LET i == Instructions[at[2]]
           from == AddressOfSym(i.dst)
       IN  /\ mem' = [a \in DOMAIN mem |-> IF a \in from .. from + i.src1.n - 1 THEN 0 ELSE mem[a]]
           /\ UNCHANGED temps /\ Steps
    /\ UNCHANGED compiled

-----------------------------------------------------------------------------
(* Control. *)

JumpTo(taken, bb) ==
    IF taken /\ Places(bb) = {} THEN Fault
    ELSE at' = (IF taken THEN Target(bb) ELSE Next1)
         /\ UNCHANGED << phase, mem, temps, trace, answers, ret >>

Taken(op, a, b) == CASE op = "JZ" -> a = 0
                     [] op = "JNZ" -> a # 0
                     [] OTHER -> Holds(op, a, b)
\* The operand compared with zero is written second: it cannot be a constant.
Branch ==
    /\ AtInstruction(EqualityOps \cup RelationalOps \cup {"JZ", "JNZ"})
    /\ LET i == Instructions[at[2]]
           c == TypeCode(i.ty)
           zero == i.op \in {"JZ", "JNZ"}
           fine == /\ Readable(i.src1, c)
                   /\ IF zero THEN i.src1.kind # "constant" ELSE Readable(i.src2, c)
       IN  IF fine
           THEN JumpTo(Taken(i.op, ValueOf(i.src1, c), IF zero THEN 0 ELSE ValueOf(i.src2, c)), i.bb)
           ELSE Fault
    /\ UNCHANGED compiled

Jump == AtInstruction({"JMP"}) /\ JumpTo(TRUE, Instructions[at[2]].bb) /\ UNCHANGED compiled

SwitchJump ==
    /\ AtInstruction({"SWITCH"})
    /\ LET i == Instructions[at[2]]
           c == TypeCode(i.ty)
           v == ValueOf(i.src1, Code.I4)
       IN  IF Readable(i.src1, c)
           THEN JumpTo(TRUE, IF v \in DOMAIN i.table THEN i.table[v] ELSE i.bb)
           ELSE Fault
    /\ UNCHANGED compiled

ReturnValue ==
    /\ AtInstruction({"RET"})
    /\ LET i == Instructions[at[2]]
           c == TypeCode(i.ty)
       IN  IF c # Code.B /\ Readable(i.dst, c)
           THEN /\ ret' = << ValueOf(i.dst, c) >>
                /\ at' = Next1 /\ UNCHANGED << phase, mem, temps, trace, answers >>
           ELSE Fault
    /\ UNCHANGED compiled

\* Every argument is pushed as a word; the result is in the accumulator.
CallFunction ==
    /\ AtInstruction({"CALL"})
    /\ LET i == Instructions[at[2]]
           ty(j) == TypeCode(i.args[j].ty)
           fine == \A j \in DOMAIN i.args : ty(j) # Code.B /\ Readable(i.args[j].sym, ty(j))
           args == [j \in DOMAIN i.args |-> ValueOf(i.args[j].sym, ty(j))]
           params == FunType[i.id].params
           seen == [j \in DOMAIN params |-> Wrap(TypeCode(params[j]), args[j])]
           c == TypeCode(i.ty)
       IN  CASE ~fine \/ (i.dst # NoSym /\ answers = << >>) -> Fault
             [] fine /\ i.dst = NoSym ->
                  /\ trace' = Append(trace, << i.id, seen >>)
                  /\ at' = Next1
                  /\ UNCHANGED << phase, mem, temps, answers, ret >>
             [] OTHER ->
                  /\ trace' = Append(trace, << i.id, seen >>)
                  /\ Write(i.dst, c, Head(answers))
                  /\ answers' = Tail(answers)
                  /\ at' = Next1
                  /\ UNCHANGED << phase, ret >>
    /\ UNCHANGED compiled

FallThrough ==
    /\ phase = "running" /\ at[2] > Len(Instructions) /\ at[1] < Len(code.order)
    /\ at' = << at[1] + 1, 1 >>
    /\ UNCHANGED << phase, source, tree, code, meaning, mem, temps, trace, answers, ret >>

Finish ==
    /\ phase = "running" /\ at[2] > Len(Instructions) /\ at[1] = Len(code.order)
    /\ phase' = "done"
    /\ UNCHANGED << source, tree, code, meaning, mem, temps, trace, answers, at, ret >>

Step ==
    \/ Assign \/ Move \/ IndirectMove \/ Dereference \/ TakeAddress \/ CastValue \/ Clear
    \/ Branch \/ Jump \/ SwitchJump \/ ReturnValue \/ CallFunction \/ FallThrough \/ Finish
Next == CheckFunctionBody \/ TranslateBody \/ Run \/ Step

Spec == Init /\ [][Next]_vars /\ WF_vars(Step)

-----------------------------------------------------------------------------
(* The type invariant. *)
TypeOK ==
    /\ phase \in {"source", "rejected", "crashed", "checked", "translated", "running", "done", "fault"}
    /\ \A a \in Addresses : InRange(CellCode[a], mem[a])
    /\ \A t \in DOMAIN temps : temps[t].code \in 0 .. 5 /\ InRange(temps[t].code, temps[t].v)
    /\ phase = "running" => at[1] \in DOMAIN code.order /\ at[2] \in 1 .. Len(Instructions) + 1

\* The expressions of a statement, each with the type it has and the one it was given.
RECURSIVE RootTypes(_, _)
RootTypes(s, checked) ==
    LET here == IF s.kind \in {"return", "switch", "case"} THEN {}
                ELSE UNION {{<< CType(s.exprs[i][j]), checked.exprs[i][j].ty >> : j \in DOMAIN s.exprs[i]}
                              : i \in DOMAIN s.exprs}
    IN  here \cup UNION {RootTypes(s.stmts[i], checked.stmts[i]) : i \in DOMAIN s.stmts}

(* A program is rejected exactly if a jump or a label stands where it must   *)
(* not, or twice in a switch, or a call has too few or too many arguments.   *)
(* Of the others every expression gets the type the language gives it: the   *)
(* promotions, the usual conversions and the decay of arrays of exprchk.c    *)
(* happen where they must.  No program stops the compiler; those that divide *)
(* constants without a result, which do (fold.c:84-91), are not among these. *)
ChecksRight ==
    /\ phase # "crashed"
    /\ phase = "rejected" => ~Valid(source.body, FALSE, FALSE)
    /\ phase \in {"checked", "translated"} =>
           /\ Valid(source.body, FALSE, FALSE)
           /\ \A t \in RootTypes(source.body, tree) : t[2] \in {t[1], Decayed(t[1])}

(* The code leaves the variables, calls the functions with the arguments and *)
(* returns the value that the source means, whatever the inputs.  On its way *)
(* it meets no instruction the emitter has no form for, reads no temporary   *)
(* that was not stored and accesses nothing but objects of the right size.   *)
RunsRight ==
    /\ phase # "fault"
    /\ phase = "done" => /\ mem = meaning.mem
                         /\ trace = meaning.trace
                         /\ answers = meaning.answers
                         /\ ret = meaning.ret

(* simp.c calls what it does to an operation algebraic simplification: the   *)
(* value that is returned is the one without it.                             *)
SimplificationKeepsValue == phase = "done" => ret = meaning.ret

(* Every block jumped to is started, and no block is started twice: its label *)
(* is defined exactly once.                                                   *)
Targets == UNION {{code.blocks[b][i].bb : i \in DOMAIN code.blocks[b]} \ {0} : b \in DOMAIN code.blocks}
BlocksPlaced ==
    LET targets == Targets
    IN  \A b \in DOMAIN code.blocks :
            Cardinality(Places(b)) <= 1 /\ (b \in targets => Places(b) # {})

(* A run whose source ends, ends.  The processor keeps taking steps. *)
Terminates == phase = "running" ~> phase = "done"
=============================================================================
