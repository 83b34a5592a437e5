----------------------------- MODULE Translation -----------------------------
(***************************************************************************)
(* tranexpr.c, transtmt.c, gen.c and simp.c: a checked tree becomes basic  *)
(* blocks of intermediate instructions.  The translator threads a context: *)
(* the blocks created so far and their instructions, the order in which    *)
(* blocks were started, the current block and the number of temporaries.   *)
(* Translating an expression returns the context, the symbol that holds    *)
(* the value, and the expression, which is rewritten on the way.           *)
(***************************************************************************)
EXTENDS Statements

Sym(kind, id, n, ty) == [kind |-> kind, id |-> id, n |-> n, ty |-> ty]
NoSym == Sym("none", "", 0, TVoid)
\* A pointer of the tree read as a symbol although it is none.
NotASymbol == Sym("garbage", "", 0, TVoid)
Variable(name) == Sym("variable", name, 0, VarType[name])
AddConstant(ty, n) == Sym("constant", "", n, IF IsInteg(ty) THEN TInt ELSE ty)
IntConstant(n) == AddConstant(TInt, n)

CreateOffset(ty, base, off) ==
    CASE off = 0 /\ (IsInteg(base.ty) \/ ty = base.ty) -> base
      [] ~(off = 0 /\ (IsInteg(base.ty) \/ ty = base.ty))
         /\ base.kind \in {"variable", "offset"} ->
           Sym("offset", base.id, base.n + off, ty)
      [] OTHER -> NotASymbol

NewContext == [code |-> << << >>, << >> >>, order |-> << 1 >>, cur |-> 1, temps |-> 0,
               left |-> NoSym, exits |-> << >>]
EntryBB == 1
ExitBB == 2

Inst(op, ty, dst, src1, src2) ==
    [op |-> op, ty |-> ty, dst |-> dst, src1 |-> src1, src2 |-> src2, bb |-> 0,
     id |-> "", args |-> << >>, table |-> << >>]

AppendInst(c, inst) == [c EXCEPT !.code[c.cur] = Append(@, inst)]
NewBB(c) == Len(c.code) + 1
CreateBBlock(c) == [c EXCEPT !.code = Append(@, << >>)]
StartBBlock(c, bb) == [c EXCEPT !.order = Append(@, bb), !.cur = bb]
StartNewBBlock(c) == StartBBlock(CreateBBlock(c), NewBB(c))

GenerateMove(c, ty, dst, src) == AppendInst(c, Inst("MOV", ty, dst, src, NoSym))
GenerateIndirectMove(c, ty, dst, src) == AppendInst(c, Inst("IMOV", ty, dst, src, NoSym))
GenerateAssign(c, ty, dst, op, src1, src2) == AppendInst(c, Inst(op, ty, dst, src1, src2))
GenerateClear(c, dst, size) ==
    AppendInst(c, Inst("CLR", TUChar, dst, IntConstant(size), NoSym))
GenerateJump(c, bb) == AppendInst(c, [Inst("JMP", TVoid, NoSym, NoSym, NoSym) EXCEPT !.bb = bb])
GenerateBranch(c, ty, bb, op, src1, src2) ==
    AppendInst(c, [Inst(op, ty, NoSym, src1, src2) EXCEPT !.bb = bb])
GenerateReturn(c, ty, src) == AppendInst(c, Inst("RET", ty, src, NoSym, NoSym))
GenerateFunctionCall(c, ty, recv, f, args) ==
    AppendInst(c, [Inst("CALL", ty, recv, NoSym, NoSym) EXCEPT !.id = f, !.args = args])

Result(c, sym, e) == [c |-> c, sym |-> sym, e |-> e]

Temp(c, ty) == Sym("temp", "", c.temps + 1, ty)
CreateTemp(c) == [c EXCEPT !.temps = @ + 1]

TryAddValue(c, ty, op, src1, src2) ==
    Result(GenerateAssign(CreateTemp(c), ty, Temp(c, ty), op, src1, src2), Temp(c, ty), Invalid)

AddressOf(c, p) == TryAddValue(c, PointerTo(TInt), "ADDR", p, NoSym)
Deref(c, ty, addr) == TryAddValue(c, ty, "DEREF", addr, NoSym)

-----------------------------------------------------------------------------
(* simp.c *)

\* Mutant of Power2: the loop ends after its first step.
Power2OfTwo(n) == IF n = 2 THEN 1 ELSE 0
Power2(n) == IF \E i \in 1 .. Bits[4] - 1 : n = 2 ^ i
             THEN CHOOSE i \in 1 .. Bits[4] - 1 : n = 2 ^ i
             ELSE 0

Simplify(c, ty, op, src1, src2) ==
    LET n == src2.n
        keep == Result(c, src1, Invalid)
        add(o, s) == TryAddValue(c, ty, o, src1, s)
    IN  IF src2.kind # "constant" THEN add(op, src2)
        ELSE CASE op \in {"+", "-", "|", "^"} /\ n = 0 -> keep
               [] op = "-" /\ n # 0 -> add("+", IntConstant(-n))
               [] op \in {"*", "/"} /\ n = 1 -> keep
               [] op \in {"*", "/"} /\ n # 1 /\ Power2(n) # 0 ->
                    add(IF op = "*" THEN "<<" ELSE ">>", IntConstant(Power2(n)))
               [] op = "|" /\ n = -1 -> Result(c, src2, Invalid)
               [] op = "&" /\ n = 0 -> Result(c, IntConstant(0), Invalid)
               [] op = "&" /\ n = -1 -> keep
               [] OTHER -> add(op, src2)

-----------------------------------------------------------------------------
(* tranexpr.c *)

\* Mutant of Inverse: equal operands are forgotten.
InverseStrict == [op \in EqualityOps \cup RelationalOps |->
    CASE op = "==" -> "!=" [] op = "!=" -> "==" [] op = ">" -> "<" [] op = "<" -> ">"
      [] op = ">=" -> "<=" [] op = "<=" -> ">="]
Inverse == [op \in EqualityOps \cup RelationalOps |->
    CASE op = "==" -> "!=" [] op = "!=" -> "==" [] op = ">" -> "<=" [] op = "<" -> ">="
      [] op = ">=" -> "<" [] op = "<=" -> ">"]

RECURSIVE Negated(_)
Negated(e) ==
    CASE e.op = "&&" -> [e EXCEPT !.op = "||", !.kids = << Negated(@[1]), Negated(@[2]) >>]
      [] e.op = "||" -> [e EXCEPT !.op = "&&", !.kids = << Negated(@[1]), Negated(@[2]) >>]
      [] e.op \in DOMAIN Inverse -> [e EXCEPT !.op = Inverse[@]]
      [] e.op = "!" -> e.kids[1]
      [] OTHER -> [Unary("!", e) EXCEPT !.ty = TInt]

\* What is left of nested negations, and how many there are.
RECURSIVE Unnegated(_), Negations(_)
Unnegated(e) == IF e.op = "!" THEN Unnegated(e.kids[1]) ELSE e
Negations(e) == IF e.op = "!" THEN 1 + Negations(e.kids[1]) ELSE 0

TranslateCast(c, ty, sty, src) ==
    LET scode == TypeCode(sty)
        dcode == TypeCode(ty)
        temp == Temp(c, ty)
        to(op) == Result(GenerateAssign(CreateTemp(c), ty, temp, op, src, NoSym), temp, Invalid)
        move == Result(GenerateMove(CreateTemp(c), ty, temp, src), temp, Invalid)
    IN  CASE scode = dcode -> Result(c, src, Invalid)
          [] scode # dcode /\ dcode = Code.V -> Result(c, NoSym, Invalid)
          [] OTHER ->
               CASE scode = Code.I1 -> to("EXTI1")
                 [] scode = Code.U1 -> to("EXTU1")
                 [] scode = Code.I2 -> to("EXTI2")
                 [] scode = Code.U2 -> to("EXTU2")
                 [] scode = Code.I4 /\ dcode <= Code.U1 -> to("TRUI1")
                 [] scode = Code.I4 /\ dcode > Code.U1 /\ dcode <= Code.U2 -> to("TRUI2")
                 [] OTHER -> move

\* A value to test, of at least the size of an int.
Widened(c, ty, src) == IF LessThanInt(ty) THEN TranslateCast(c, TInt, ty, src)
                       ELSE Result(c, src, Invalid)
AtLeastInt(ty) == IF LessThanInt(ty) THEN TInt ELSE ty

TranslatePrimaryExpression(c, e) ==
    CASE IsConst(e) -> Result(c, AddConstant(e.ty, e.val), e)
      [] e.shared -> Result(c, c.left, e)
      [] OTHER -> IF e.isarray THEN [AddressOf(c, Variable(e.id)) EXCEPT !.e = e]
                  ELSE Result(c, Variable(e.id), e)

\* Expressions, conditions and statements hold one another: one operator for them all.
RECURSIVE Translate(_, _, _, _, _), TranslateArguments(_, _, _), IndexOffsets(_, _, _, _),
          MemberOffset(_), MemberBase(_)
TranslateExpression(c, e) == Translate("expression", c, e, 0, 0)
TranslateBranch(c, e, true, false) == Translate("branch", c, e, true, false)
TranslateStatement(c, s) == Translate("statement", c, s, 0, 0)

TranslateArguments(c, args, done) ==
    IF args = << >> THEN [c |-> c, args |-> done]
    ELSE LET r == TranslateExpression(c, Head(args))
         IN  TranslateArguments(r.c, Tail(args),
                                Append(done, [sym |-> r.sym, ty |-> Head(args).ty]))

TranslateFunctionCall(c, e) ==
    LET a == TranslateArguments(c, e.kids, << >>)
        recv == IF e.ty = TVoid THEN NoSym ELSE Temp(a.c, e.ty)
        d == IF e.ty = TVoid THEN a.c ELSE CreateTemp(a.c)
    IN  Result(GenerateFunctionCall(d, e.ty, recv, e.id, a.args), recv, e)

\* The left operand is translated before the assignment, and again by it.
TranslateIncrement(c, e) ==
    LET casgn == e.kids[1]
        p == TranslateExpression(c, casgn.kids[1])
        again == [casgn EXCEPT !.kids[1] = p.e]
        saved == GenerateMove(CreateTemp(p.c), e.ty, Temp(p.c, e.ty), p.sym)
    IN  CASE e.op \in {"++x", "--x"} -> [TranslateExpression(p.c, again) EXCEPT !.e = e]
          [] e.op \in {"x++", "x--"} /\ p.sym.kind # "temp" ->
               Result(TranslateExpression(saved, again).c, Temp(p.c, e.ty), e)
          [] OTHER -> Result(TranslateExpression(p.c, again).c, p.sym, e)

MemberOffset(e) == IF e.op = "." THEN e.val + MemberOffset(e.kids[1]) ELSE 0
MemberBase(e) == IF e.op = "." THEN MemberBase(e.kids[1]) ELSE e

TranslateMemberAccess(c, e) ==
    IF e.op = "."
    THEN LET r == TranslateExpression(c, MemberBase(e))
         IN  Result(r.c, CreateOffset(e.ty, r.sym, MemberOffset(e)), e)
    ELSE LET r == TranslateExpression(c, e.kids[1])
             a == Simplify(r.c, PointerTo(TInt), "+", r.sym, IntConstant(e.val))
         IN  IF e.lvalue THEN [a EXCEPT !.e = e] ELSE [Deref(a.c, e.ty, a.sym) EXCEPT !.e = e]

\* The constant and the variable part of the offsets of nested indices, outermost first.
IndexOffsets(c, p, coff, voff) ==
    CASE p.op # "[]" -> [c |-> c, p |-> p, coff |-> coff, voff |-> voff]
      [] p.op = "[]" /\ IsConst(p.kids[2]) ->
           IndexOffsets(c, p.kids[1], coff + p.kids[2].val, voff)
      [] OTHER ->
           LET r == TranslateExpression(c, p.kids[2])
               v == IF voff = NoSym THEN r ELSE Simplify(r.c, voff.ty, "+", voff, r.sym)
           IN  IndexOffsets(v.c, p.kids[1], coff, v.sym)

\* The symbol a node's value field points to: only an identifier's does.
SymbolOf(e) == IF e.op = "id" THEN Variable(e.id) ELSE NotASymbol

\* The address as the expression's value, or what is at it; of an array its address again.
AtAddress(e, a) == IF e.lvalue THEN Result(a.c, a.sym, [e EXCEPT !.op = "*x"])
                   ELSE [Deref(a.c, e.ty, a.sym) EXCEPT !.e = e]
OrAddress(e, r) == IF e.isarray THEN [AddressOf(r.c, r.sym) EXCEPT !.e = e] ELSE r

IsMember(p) == p.op \in {".", "->"}
IndexStart(o) == IF IsMember(o.p) \/ o.voff # NoSym THEN TranslateExpression(o.c, o.p)
                 ELSE Result(o.c, SymbolOf(o.p), o.p)
IndexBase(p, start) == IF IsMember(p) THEN AddressOf(start.c, start.sym) ELSE start
Added(sym, r) == Simplify(r.c, PointerTo(TInt), "+", sym, r.sym)
VariableIndex(o, base) ==
    Added(base.sym, Simplify(base.c, PointerTo(TInt), "+", o.voff, IntConstant(o.coff)))

ArrayElement(e, o) ==
    CASE ~o.p.isarray ->
           AtAddress(e, Added(SymbolOf(o.p), Result(o.c, IntConstant(o.coff), e)))
      [] o.p.isarray /\ o.voff # NoSym ->
           OrAddress([e EXCEPT !.isarray = @ /\ ~e.lvalue],
                     AtAddress(e, VariableIndex(o, IndexBase(o.p, IndexStart(o)))))
      [] OTHER ->
           LET start == IndexStart(o)
           IN  OrAddress(e, Result(start.c, CreateOffset(e.ty, start.sym, o.coff), e))
TranslateArrayIndex(c, e) == ArrayElement(e, IndexOffsets(c, e, 0, NoSym))

TranslateBranchExpression(c, e) ==
    LET t == Temp(c, e.ty)
        next == NewBB(c)
        true == next + 1
        false == next + 2
        c1 == CreateBBlock(CreateBBlock(CreateBBlock(CreateTemp(c))))
        c2 == StartBBlock(TranslateBranch(c1, e, true, false), false)
        c3 == GenerateJump(GenerateMove(c2, e.ty, t, IntConstant(0)), next)
        c4 == GenerateMove(StartBBlock(c3, true), e.ty, t, IntConstant(1))
    IN  Result(StartBBlock(c4, next), t, e)

TranslateUnaryExpression(c, e) ==
    LET r == TranslateExpression(c, e.kids[1])
        result == CASE e.op = "cast" -> TranslateCast(r.c, e.ty, e.kids[1].ty, r.sym)
                    [] e.op = "&x" -> AddressOf(r.c, r.sym)
                    [] e.op = "*x" -> IF e.lvalue THEN r ELSE Deref(r.c, e.ty, r.sym)
                    [] e.op \in {"-x", "~"} -> Simplify(r.c, e.ty, e.op, r.sym, NoSym)
    IN  CASE e.op = "!" -> TranslateBranchExpression(c, e)
          [] e.op \in {"++x", "--x"} -> TranslateIncrement(c, e)
          [] OTHER -> [result EXCEPT !.e = e]

TranslateBinaryExpression(c, e) ==
    IF e.op \in LogicalOps \cup EqualityOps \cup RelationalOps
    THEN TranslateBranchExpression(c, e)
    ELSE LET a == TranslateExpression(c, e.kids[1])
             b == TranslateExpression(a.c, e.kids[2])
         IN  [Simplify(b.c, e.ty, e.op, a.sym, b.sym) EXCEPT !.e = e]

TranslateConditionalExpression(c, e) ==
    LET void == e.ty = TVoid
        t == IF void THEN NoSym ELSE Temp(c, e.ty)
        true == NewBB(c)
        false == true + 1
        next == true + 2
        c1 == CreateBBlock(CreateBBlock(CreateBBlock(IF void THEN c ELSE CreateTemp(c))))
        move(r) == IF r.sym = NoSym THEN r.c ELSE GenerateMove(r.c, e.ty, t, r.sym)
        c2 == StartBBlock(TranslateBranch(c1, Negated(e.kids[1]), false, true), true)
        c3 == StartBBlock(GenerateJump(move(TranslateExpression(c2, e.kids[2])), next), false)
    IN  Result(StartBBlock(move(TranslateExpression(c3, e.kids[3])), next), t, e)

(* A compound assignment turns its left operand into an identifier, which *)
(* stands for what a dereferenced pointer points to, for a variable, or   *)
(* for whatever the value field of another node points to.                *)
TranslateAssignmentExpression(c, e) ==
    LET l == TranslateExpression(c, e.kids[1])
        compound == e.op # "="
        indirect == l.e.op = "*x"
        d == IF compound /\ indirect THEN Deref(l.c, e.ty, l.sym) ELSE l
        left == IF indirect THEN d.sym ELSE SymbolOf(l.e)
        r == TranslateExpression(IF compound THEN [d.c EXCEPT !.left = left] ELSE l.c,
                                 e.kids[2])
        after == [r.c EXCEPT !.left = c.left]
    IN  IF (~compound /\ l.e.op \in {"->", "*x"}) \/ l.sym.kind = "temp"
        THEN Result(GenerateIndirectMove(after, e.ty, l.sym, r.sym), l.sym, e)
        ELSE Result(GenerateMove(after, e.ty, l.sym, r.sym), l.sym, e)

TranslateCommaExpression(c, e) ==
    TranslateExpression(TranslateExpression(c, e.kids[1]).c, e.kids[2])

TranslateNode(c, e) ==
    CASE e.op \in {"id", "const"} \/ e.shared -> TranslatePrimaryExpression(c, e)
      [] e.op = "[]" /\ ~e.shared -> TranslateArrayIndex(c, e)
      [] e.op = "call" -> TranslateFunctionCall(c, e)
      [] e.op \in {"x++", "x--"} -> TranslateIncrement(c, e)
      [] e.op \in {".", "->"} /\ ~e.shared -> TranslateMemberAccess(c, e)
      [] e.op \in BinaryOps -> TranslateBinaryExpression(c, e)
      [] e.op = "?" -> TranslateConditionalExpression(c, e)
      [] e.op = "=" \/ e.op \in CompoundOps -> TranslateAssignmentExpression(c, e)
      [] e.op = "," -> TranslateCommaExpression(c, e)
      [] e.op \in {"cast", "&x", "*x", "-x", "~", "!", "++x", "--x"} /\ ~e.shared ->
           TranslateUnaryExpression(c, e)

\* One of the two exits is left to fall through: the caller starts that block next.
TranslateCondition(c, e, true, false) ==
    LET test == NewBB(c)
        jumpIf(d, n) == IF n # 0 THEN GenerateJump(d, true) ELSE d
    IN  CASE IsConst(e) -> jumpIf(c, e.val)
          [] e.op = "&&" ->
               LET d == TranslateBranch(CreateBBlock(c), Negated(e.kids[1]), false, test)
               IN  TranslateBranch(StartBBlock(d, test), e.kids[2], true, false)
          [] e.op = "||" ->
               LET d == TranslateBranch(CreateBBlock(c), e.kids[1], true, test)
               IN  TranslateBranch(StartBBlock(d, test), e.kids[2], true, false)
          [] e.op \in EqualityOps \cup RelationalOps ->
               LET a == TranslateExpression(c, e.kids[1])
                   b == TranslateExpression(a.c, e.kids[2])
               IN  GenerateBranch(b.c, e.kids[1].ty, true, e.op, a.sym, b.sym)
          [] e.op = "!" ->
               LET k == Unnegated(e)
                   r == TranslateExpression(c, k)
                   w == Widened(r.c, k.ty, r.sym)
               IN  GenerateBranch(w.c, AtLeastInt(k.ty), true,
                                  IF Negations(e) % 2 = 1 THEN "JZ" ELSE "JNZ", w.sym, NoSym)
          [] OTHER ->
               LET r == TranslateExpression(c, e)
                   w == Widened(r.c, e.ty, r.sym)
               IN  IF r.sym.kind = "constant" THEN jumpIf(r.c, r.sym.n)
                   ELSE GenerateBranch(w.c, AtLeastInt(e.ty), true, "JNZ", w.sym, NoSym)

-----------------------------------------------------------------------------
(* transtmt.c.  exits gives the blocks of every loop and switch by its number; *)
(* the search for a case is checked on its own and is one instruction here.    *)

WithExits(c, n, exits) ==
    [c EXCEPT !.exits = [m \in DOMAIN @ \cup {n} |-> IF m = n THEN exits ELSE @[m]]]

RECURSIVE TranslateStatements(_, _), TranslateInits(_, _, _), InitedSize(_)

TranslateStatements(c, stmts) ==
    IF stmts = << >> THEN c
    ELSE TranslateStatements(TranslateStatement(c, Head(stmts)), Tail(stmts))

InitedSize(data) ==
    IF data = << >> THEN 0 ELSE SizeOf(Head(data).expr.ty) + InitedSize(Tail(data))
\* Mutant of HasPaddingSpace: no local is cleared before it is initialised.
HasPaddingSpaceNever(init) == FALSE
HasPaddingSpace(init) == InitedSize(init.data) # SizeOf(VarType[init.id])

TranslateInits(c, v, data) ==
    IF data = << >> THEN c
    ELSE LET d == Head(data)
             r == TranslateExpression(c, d.expr)
         IN  TranslateInits(GenerateMove(r.c, d.expr.ty, CreateOffset(d.expr.ty, v, d.offset), r.sym),
                            v, Tail(data))

RECURSIVE TranslateLocals(_, _)
TranslateLocals(c, inits) ==
    IF inits = << >> THEN c
    ELSE LET i == Head(inits)
             v == Variable(i.id)
             cleared == IF HasPaddingSpace(i) THEN GenerateClear(c, v, SizeOf(v.ty)) ELSE c
         IN  TranslateLocals(TranslateInits(cleared, v, i.data), Tail(inits))

TranslateCompoundStatement(c, s) == TranslateStatements(TranslateLocals(c, s.inits), s.stmts)

\* Mutant of TranslateReturnStatement: the block where the function begins, not where it ends.
ReturnToEntry(c, s) ==
    LET r == TranslateExpression(c, s.exprs[1][1])
        d == IF s.exprs[1] = << >> THEN c ELSE GenerateReturn(r.c, s.exprs[1][1].ty, r.sym)
    IN  StartNewBBlock(GenerateJump(d, EntryBB))
TranslateReturnStatement(c, s) ==
    LET r == TranslateExpression(c, s.exprs[1][1])
        d == IF s.exprs[1] = << >> THEN c ELSE GenerateReturn(r.c, s.exprs[1][1].ty, r.sym)
    IN  StartNewBBlock(GenerateJump(d, ExitBB))

TranslateIfStatement(c, s) ==
    LET next == NewBB(c)
        true == next + 1
        false == IF Len(s.stmts) = 1 THEN next ELSE next + 2
        c1 == CreateBBlock(CreateBBlock(c))
        c2 == IF Len(s.stmts) = 1 THEN c1 ELSE CreateBBlock(c1)
        c3 == StartBBlock(TranslateBranch(c2, Negated(s.exprs[1][1]), false, true), true)
        c4 == TranslateStatement(c3, s.stmts[1])
        c5 == IF Len(s.stmts) = 1 THEN c4
              ELSE TranslateStatement(StartBBlock(GenerateJump(c4, next), false), s.stmts[2])
    IN  StartBBlock(c5, next)

\* The three blocks of a loop: its body, where it continues, what follows it.
LoopBlocks(c) == [loop |-> NewBB(c), cont |-> NewBB(c) + 1, next |-> NewBB(c) + 2]
InLoop(c, s) == WithExits(CreateBBlock(CreateBBlock(CreateBBlock(c))), s.n, LoopBlocks(c))

TranslateDoStatement(c, s) ==
    LET b == LoopBlocks(c)
        c1 == TranslateStatement(StartBBlock(InLoop(c, s), b.loop), s.stmts[1])
        c2 == TranslateBranch(StartBBlock(c1, b.cont), s.exprs[1][1], b.loop, b.next)
    IN  StartBBlock(c2, b.next)

TranslateWhileStatement(c, s) ==
    LET b == LoopBlocks(c)
        c1 == StartBBlock(GenerateJump(InLoop(c, s), b.cont), b.loop)
        c2 == StartBBlock(TranslateStatement(c1, s.stmts[1]), b.cont)
    IN  StartBBlock(TranslateBranch(c2, s.exprs[1][1], b.loop, b.next), b.next)

TranslateForStatement(c, s) ==
    LET b == LoopBlocks(c)
        test == b.next + 1
        optional(d, e) == IF e = << >> THEN d ELSE TranslateExpression(d, e[1]).c
        c1 == GenerateJump(optional(CreateBBlock(InLoop(c, s)), s.exprs[1]), test)
        c2 == StartBBlock(TranslateStatement(StartBBlock(c1, b.loop), s.stmts[1]), b.cont)
        c3 == StartBBlock(optional(c2, s.exprs[3]), test)
        c4 == IF s.exprs[2] = << >> THEN GenerateJump(c3, b.loop)
              ELSE TranslateBranch(c3, s.exprs[2][1], b.loop, b.next)
    IN  StartBBlock(c4, b.next)

TranslateBreakStatement(c, s) == StartNewBBlock(GenerateJump(c, c.exits[s.n].next))

TranslateContinueStatement(c, s) == StartNewBBlock(GenerateJump(c, c.exits[s.n].cont))

\* Mutant of CaseBB: one block too far.
CaseBBAfter(first, cases, val) == first + Cardinality({v \in cases : v <= val})
\* The block of a case: blocks are created in the order of the labels.
CaseBB(first, cases, val) == first + Cardinality({v \in cases : v < val})

RECURSIVE CreateBBlocks(_, _)
CreateBBlocks(c, n) == IF n = 0 THEN c ELSE CreateBBlocks(CreateBBlock(c), n - 1)

TranslateSwitchBuckets(c, choice, table, default) ==
    IF DOMAIN table = {} THEN c
    ELSE StartNewBBlock(AppendInst(c,
            [Inst("SWITCH", choice.ty, NoSym, choice, NoSym) EXCEPT !.table = table, !.bb = default]))

TranslateSwitchStatement(c, s) ==
    LET r == TranslateExpression(c, s.exprs[1][1])
        first == NewBB(r.c)
        default == first + Cardinality(s.cases)
        next == IF s.default THEN default + 1 ELSE default
        table == [v \in s.cases |-> CaseBB(first, s.cases, v)]
        exits == [table |-> table, default |-> default, next |-> next]
        c1 == WithExits(CreateBBlocks(r.c, Cardinality(s.cases) + (IF s.default THEN 2 ELSE 1)),
                        s.n, exits)
        c2 == TranslateSwitchBuckets(c1, r.sym, table, default)
        c3 == IF s.cases = {} /\ ~s.default THEN c2 ELSE TranslateStatement(c2, s.stmts[1])
    IN  StartBBlock(c3, next)

TranslateCaseStatement(c, s) ==
    TranslateStatement(StartBBlock(c, c.exits[s.n].table[s.val]), s.stmts[1])
TranslateDefaultStatement(c, s) ==
    TranslateStatement(StartBBlock(c, c.exits[s.n].default), s.stmts[1])

TranslateKind(c, s) ==
    CASE s.kind = "expr" ->
           IF s.exprs[1] = << >> THEN c ELSE TranslateExpression(c, s.exprs[1][1]).c
      [] s.kind = "compound" -> TranslateCompoundStatement(c, s)
      [] s.kind = "return" -> TranslateReturnStatement(c, s)
      [] s.kind = "if" -> TranslateIfStatement(c, s)
      [] s.kind = "do" -> TranslateDoStatement(c, s)
      [] s.kind = "while" -> TranslateWhileStatement(c, s)
      [] s.kind = "for" -> TranslateForStatement(c, s)
      [] s.kind = "break" -> TranslateBreakStatement(c, s)
      [] s.kind = "continue" -> TranslateContinueStatement(c, s)
      [] s.kind = "case" -> TranslateCaseStatement(c, s)
      [] s.kind = "default" -> TranslateDefaultStatement(c, s)
      [] s.kind = "switch" -> TranslateSwitchStatement(c, s)

Translate(what, c, n, true, false) ==
    CASE what = "expression" -> TranslateNode(c, n)
      [] what = "branch" -> TranslateCondition(c, n, true, false)
      [] what = "statement" -> TranslateKind(c, n)

TranslateFunction(s) == StartBBlock(TranslateStatement(NewContext, s), ExitBB)
=============================================================================
