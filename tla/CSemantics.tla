----------------------------- MODULE CSemantics -----------------------------
(***************************************************************************)
(* What the C standard says a source tree means: the reference against     *)
(* which the compiler's output is run.  Operands are evaluated from left   *)
(* to right, functions are unknown: what they return is read from a list   *)
(* and what they are called with is remembered.  ok is false once the      *)
(* program has no defined meaning, or needs more steps or answers than it  *)
(* is given.                                                               *)
(***************************************************************************)
EXTENDS Statements, CMemory

CONSTANT Fuel           \* the iterations of loops a meaning may take

Decayed(ty) == IF ty.categ = "ARRAY" THEN PointerTo(Base(ty)) ELSE ty
AsInteger(ty) == IF LessThanInt(ty) \/ ty = TEnum THEN TInt ELSE ty
UsualType(a, b) == IF TUInt \in {AsInteger(a), AsInteger(b)} THEN TUInt ELSE TInt

RECURSIVE CType(_)
RType(e) == Decayed(CType(e))
CType(e) ==
    CASE e.op = "id" -> VarType[e.id]
      [] e.op \in {"const", "cast"} -> e.ty
      [] e.op \in LogicalOps \cup EqualityOps \cup RelationalOps \cup {"!"} -> TInt
      [] e.op \in BitwiseOps \cup MultiplicativeOps ->
           UsualType(RType(e.kids[1]), RType(e.kids[2]))
      [] e.op \in ShiftOps \cup {"-x", "+x", "~"} -> AsInteger(RType(e.kids[1]))
      [] e.op \in {"+", "-"} ->
           LET a == RType(e.kids[1])
               b == RType(e.kids[2])
           IN  CASE IsPtr(a) /\ IsPtr(b) -> TInt
                 [] IsPtr(a) /\ ~IsPtr(b) -> a
                 [] ~IsPtr(a) /\ IsPtr(b) -> b
                 [] OTHER -> UsualType(a, b)
      [] e.op = "?" ->
           LET a == RType(e.kids[2])
               b == RType(e.kids[3])
           IN  CASE IsInteg(a) /\ IsInteg(b) -> UsualType(a, b)
                 [] IsPtr(a) /\ ~IsVoidPtr(b) -> a
                 [] OTHER -> b
      [] e.op = "," -> RType(e.kids[2])
      [] e.op = "=" \/ e.op \in CompoundOps \cup IncrementOps -> CType(e.kids[1])
      [] e.op \in {"*x", "[]"} -> Base(RType(e.kids[1]))
      [] e.op = "&x" -> PointerTo(CType(e.kids[1]))
      [] e.op = "." -> CType(e.kids[1]).of[e.val]
      [] e.op = "->" -> Base(RType(e.kids[1])).of[e.val]
      [] e.op = "call" -> FunType[e.id].result
      [] e.op = "sizeof" -> TUInt

(* The state of a meaning.  ctl says how a statement ended, or that a switch *)
(* is looking for the label seek.                                            *)
StartState(mem, answers) ==
    [mem |-> mem, answers |-> answers, trace |-> << >>, ok |-> TRUE, fuel |-> Fuel,
     ctl |-> "next", seek |-> << >>, ret |-> << >>]

Val(v, st) == [v |-> v, st |-> st]
Require(st, condition) == [st EXCEPT !.ok = @ /\ condition]

\* A result of an operator in a type: a signed one must fit.
InType(ty, v, st) ==
    LET code == TypeCode(ty)
    IN  Val(Wrap(code, v), Require(st, IsInteg(ty) /\ Signed(code) => InRange(code, v)))
Convert(ty, v) == Wrap(TypeCode(ty), v)

IntegerOp(op, ty, a, b, st) ==
    LET fits == Require(st, b \in 0 .. Bits[4] - 1)
        nonzero == Require(st, b # 0)
        shift == IF fits.ok THEN 2 ^ b ELSE 1
    IN  CASE op = "+" -> InType(ty, a + b, st)
          [] op = "-" -> InType(ty, a - b, st)
          [] op = "*" -> InType(ty, a * b, st)
          [] op = "/" -> InType(ty, IF b = 0 THEN 0 ELSE Quotient(a, b), nonzero)
          [] op = "%" -> InType(ty, IF b = 0 THEN 0 ELSE Remainder(a, b), nonzero)
          [] op = "<<" -> InType(ty, a * shift, Require(fits, Signed(TypeCode(ty)) => a >= 0))
          [] op = ">>" -> InType(ty, a \div shift, fits)
          [] op \in BitwiseOps -> Val(Wrap(TypeCode(ty), Bits2(op, a, b)), st)

Holds(op, a, b) ==
    CASE op = "==" -> a = b [] op = "!=" -> a # b [] op = ">" -> a > b
      [] op = "<" -> a < b [] op = ">=" -> a >= b [] op = "<=" -> a <= b
Truth(condition) == IF condition THEN 1 ELSE 0

\* A pointer moved by so many elements stays within the addresses.
Moved(ty, p, n, st) ==
    LET a == p + n * SizeOf(Base(ty))
    IN  Val(Wrap(Code.U4, a), Require(st, InRange(Code.U4, a)))

\* a op b for operands of the given types, which need not be promoted yet.
BinaryValue(op, ta, a, tb, b, st) ==
    CASE op \in EqualityOps \cup RelationalOps ->
           LET ty == IF IsPtr(ta) \/ IsPtr(tb) THEN PointerTo(TVoid) ELSE UsualType(ta, tb)
           IN  Val(Truth(Holds(op, Convert(ty, a), Convert(ty, b))), st)
      [] op = "-" /\ IsPtr(ta) /\ IsPtr(tb) ->
           Val((a - b) \div SizeOf(Base(ta)), Require(st, (a - b) % SizeOf(Base(ta)) = 0))
      [] op = "+" /\ IsPtr(tb) -> Moved(tb, b, a, st)
      [] op \in {"+", "-"} /\ IsPtr(ta) /\ ~IsPtr(tb) ->
           Moved(ta, a, IF op = "+" THEN b ELSE -b, st)
      [] op \in ShiftOps -> IntegerOp(op, AsInteger(ta), a, b, st)
      [] OTHER -> LET ty == UsualType(ta, tb)
                  IN  IntegerOp(op, ty, Convert(ty, a), Convert(ty, b), st)

\* What is in an object: an array or a structure is known by its address.
Contents(ty, a, st) ==
    IF ~IsScalar(ty) THEN Val(a, st)
    ELSE LET fine == Accessible(TypeCode(ty), a)
         IN  Val(IF fine THEN Load(st.mem, TypeCode(ty), a) ELSE 0, Require(st, fine))
Put(ty, a, v, st) ==
    CASE IsScalar(ty) -> IF Accessible(TypeCode(ty), a)
                         THEN [st EXCEPT !.mem = Store(@, TypeCode(ty), a, v)]
                         ELSE Require(st, FALSE)
      [] OTHER -> IF Copyable(ty, a, v) THEN [st EXCEPT !.mem = Copy(@, ty, a, v)]
                  ELSE Require(st, FALSE)

RECURSIVE Eval(_, _), Object(_, _), EvalArgs(_, _, _)

\* The address of the object an expression designates.
Object(e, st) ==
    CASE e.op = "id" -> Val(VarBase[e.id], st)
      [] e.op = "*x" -> Eval(e.kids[1], st)
      [] e.op = "[]" ->
           LET p == Eval(e.kids[1], st)
               i == Eval(e.kids[2], p.st)
           IN  Moved(RType(e.kids[1]), p.v, i.v, i.st)
      [] e.op = "." -> LET r == Object(e.kids[1], st)
                       IN  Val(r.v + FieldOffset(CType(e.kids[1]), e.val), r.st)
      [] e.op = "->" -> LET r == Eval(e.kids[1], st)
                        IN  Val(r.v + FieldOffset(Base(RType(e.kids[1])), e.val), r.st)

EvalArgs(args, types, st) ==
    IF args = << >> THEN Val(<< >>, st)
    ELSE LET first == Eval(Head(args), st)
             rest == EvalArgs(Tail(args), Tail(types), first.st)
         IN  Val(<< Convert(Head(types), first.v) >> \o rest.v, rest.st)

\* What a call with these arguments gives: the next answer, if it returns a value.
Answer(ty, called) ==
    CASE ty = TVoid -> Val(0, called)
      [] ty # TVoid /\ called.answers = << >> -> Val(0, Require(called, FALSE))
      [] OTHER -> Val(Convert(ty, Head(called.answers)), [called EXCEPT !.answers = Tail(@)])
CallWith(f, args) == Answer(FunType[f].result, [args.st EXCEPT !.trace = Append(@, << f, args.v >>)])

UnaryValue(op, ty, r) ==
    CASE op = "-x" -> InType(ty, -r.v, r.st)
      [] op = "~" -> Val(Convert(ty, -r.v - 1), r.st)
      [] op = "!" -> Val(Truth(r.v = 0), r.st)
      [] op = "+x" \/ ty = TVoid -> r
      [] OTHER -> Val(Convert(ty, r.v), r.st)

\* An object with the value it gets: the value of the store is that, or the one before.
Stored(ty, a, old, v, postfix, st) == Val(IF postfix THEN old ELSE v, Put(ty, a, v, st))
Replaced(ty, a, old, postfix, r) ==
    Stored(ty, a, old, IF IsScalar(ty) THEN Convert(ty, r.v) ELSE r.v, postfix, r.st)

\* The value an object with the value old and another one combine to.
StepOp(op) == CASE op \in {"++x", "x++"} -> "+" [] op \in {"--x", "x--"} -> "-"
                [] OTHER -> CompoundOp[op]
Combined(e, ty, old, b) ==
    BinaryValue(StepOp(e.op), ty, old, IF e.op \in IncrementOps THEN TInt ELSE RType(e.kids[2]),
                b.v, b.st)
Updated(e, ty, a, old) ==
    Replaced(ty, a, old.v, e.op \in {"x++", "x--"},
             Combined(e, ty, old.v, IF e.op \in IncrementOps THEN Val(1, old.st)
                                    ELSE Eval(e.kids[2], old.st)))

\* What is done to an object: it is read, pointed to, or replaced.
Accessed(e, ty, o) ==
    CASE e.op \in {"id", "*x", "[]", ".", "->"} -> Contents(ty, o.v, o.st)
      [] e.op = "&x" -> o
      [] e.op = "=" -> Replaced(ty, o.v, 0, FALSE, Eval(e.kids[2], o.st))
      [] OTHER -> Updated(e, ty, o.v, Contents(ty, o.v, o.st))

ObjectOps == {"id", "*x", "[]", ".", "->"}
AccessOps == ObjectOps \cup {"&x", "="} \cup CompoundOps \cup IncrementOps
Eval(e, st) ==
    CASE e.op = "const" -> Val(Convert(e.ty, e.val), st)
      [] e.op = "sizeof" -> Val(SizeOf(CType(e.kids[1])), st)
      [] e.op \in AccessOps ->
           Accessed(e, CType(e), Object(IF e.op \in ObjectOps THEN e ELSE e.kids[1], st))
      [] e.op \in {"cast", "+x", "-x", "~", "!"} ->
           UnaryValue(e.op, CType(e), Eval(e.kids[1], st))
      [] e.op \in LogicalOps ->
           LET a == Eval(e.kids[1], st)
               b == Eval(e.kids[2], a.st)
           IN  IF (a.v = 0) = (e.op = "&&") THEN Val(Truth(a.v # 0), a.st)
               ELSE Val(Truth(b.v # 0), b.st)
      [] e.op \in BinaryOps \ LogicalOps ->
           LET a == Eval(e.kids[1], st)
               b == Eval(e.kids[2], a.st)
           IN  BinaryValue(e.op, RType(e.kids[1]), a.v, RType(e.kids[2]), b.v, b.st)
      [] e.op = "?" -> LET c == Eval(e.kids[1], st)
                       IN  UnaryValue("cast", CType(e),
                                      Eval(IF c.v # 0 THEN e.kids[2] ELSE e.kids[3], c.st))
      [] e.op = "," -> Eval(e.kids[2], Eval(e.kids[1], st).st)
      [] e.op = "call" -> CallWith(e.id, EvalArgs(e.kids, FunType[e.id].params, st))

-----------------------------------------------------------------------------
(* Statements.  A jump is carried outward by ctl; a switch carries its value *)
(* inward, past everything up to the label.                                  *)

RECURSIVE Labels(_)
Labels(s) ==
    CASE s.kind = "compound" -> UNION {Labels(s.stmts[i]) : i \in DOMAIN s.stmts}
      [] s.kind = "case" -> {<< s.val >>} \cup Labels(s.stmts[1])
      [] s.kind = "default" -> {<< >>} \cup Labels(s.stmts[1])
      [] OTHER -> {}

\* How many labels of a switch a statement holds, repeated ones counted.
RECURSIVE LabelCount(_), CountIn(_)
CountIn(stmts) == IF stmts = << >> THEN 0 ELSE LabelCount(Head(stmts)) + CountIn(Tail(stmts))
LabelCount(s) == IF s.kind \in {"compound", "case", "default"}
                 THEN (IF s.kind = "compound" THEN 0 ELSE 1) + CountIn(s.stmts)
                 ELSE 0

\* A call has an argument for every parameter, and none beyond unless more are taken.
RECURSIVE WellCalled(_)
WellCalled(e) ==
    /\ e.op = "call" => LET n == Len(FunType[e.id].params)
                        IN  Len(e.kids) = n \/ (FunType[e.id].more /\ Len(e.kids) > n)
    /\ \A i \in DOMAIN e.kids : WellCalled(e.kids[i])

\* The constraints: what a jump or a label stands in, that labels differ, the arguments of calls.
RECURSIVE Valid(_, _, _)
Valid(s, loop, switch) ==
    /\ s.kind = "break" => loop \/ switch
    /\ s.kind = "continue" => loop
    /\ s.kind \in {"case", "default"} => switch
    /\ s.kind = "switch" => LabelCount(s.stmts[1]) = Cardinality(Labels(s.stmts[1]))
    /\ \A i \in DOMAIN s.exprs : \A j \in DOMAIN s.exprs[i] : WellCalled(s.exprs[i][j])
    /\ \A i \in DOMAIN s.stmts :
           Valid(s.stmts[i], loop \/ s.kind \in {"while", "do", "for"}, switch \/ s.kind = "switch")

Leaves(st, ctl) == [st EXCEPT !.ctl = ctl]
AfterLoop(st) == IF st.ctl = "break" THEN Leaves(st, "next") ELSE st
Burnt(st) == [Require(st, st.fuel > 0) EXCEPT !.fuel = @ - 1]
Repeats(st) == st.ok /\ st.ctl \in {"next", "continue"}

RECURSIVE Exec(_, _, _), ExecAll(_, _, _), ExecLoop(_, _, _, _), ExecInits(_, _), ExecParts(_, _, _)

ExecAll(stmts, result, st) ==
    IF stmts = << >> \/ ~st.ok \/ st.ctl \in {"break", "continue", "return"} THEN st
    ELSE ExecAll(Tail(stmts), result, Exec(Head(stmts), result, st))

\* An expression that may be missing.
EvalOptional(e, default, st) == IF e = << >> THEN Val(default, st) ELSE Eval(e[1], st)

\* A loop about to run its body (test is false) or to test its condition.
LoopCondition(s, test) == IF test THEN s.exprs[IF s.kind = "for" THEN 2 ELSE 1] ELSE << >>
LoopStep(s) == IF s.kind = "for" THEN s.exprs[3] ELSE << >>
AfterBody(s, result, body) ==
    IF Repeats(body)
    THEN ExecLoop(s, result, TRUE, EvalOptional(LoopStep(s), 0, Leaves(body, "next")).st)
    ELSE AfterLoop(body)
LoopWith(s, result, c) ==
    IF c.v = 0 \/ ~c.st.ok \/ c.st.fuel = 0 THEN Require(c.st, c.v = 0)
    ELSE AfterBody(s, result, Exec(s.stmts[1], result, Burnt(c.st)))
ExecLoop(s, result, test, st) ==
    LoopWith(s, result, EvalOptional(LoopCondition(s, test), 1, st))

ExecParts(data, addr, st) ==
    IF data = << >> THEN st
    ELSE LET d == Head(data)
             r == Eval(d.expr, st)
         IN  ExecParts(Tail(data), addr, Put(d.ty, addr + d.offset, Convert(d.ty, r.v), r.st))

\* What an initialiser does not name is zero.
Zeroed(mem, ty, addr) ==
    [a \in DOMAIN mem |-> IF \E c \in Cells(ty, addr) : c[1] = a THEN 0 ELSE mem[a]]
ExecInits(inits, st) ==
    IF inits = << >> THEN st
    ELSE ExecInits(Tail(inits),
                   ExecParts(Head(inits).data, VarBase[Head(inits).id],
                             [st EXCEPT !.mem = Zeroed(@, VarType[Head(inits).id],
                                                       VarBase[Head(inits).id])]))

\* The label a switch looks for: its value, its default, or none.
Sought(body, v) == IF << v >> \in Labels(body) THEN << v >> ELSE << >>
ExecSwitch(body, result, c) ==
    IF Sought(body, c.v) \in Labels(body)
    THEN AfterLoop(Exec(body, result, [c.st EXCEPT !.ctl = "seek", !.seek = Sought(body, c.v)]))
    ELSE c.st

ExecLabel(s, result, st) ==
    LET found == st.ctl = "seek" /\ st.seek = (IF s.kind = "case" THEN << s.val >> ELSE << >>)
    IN  Exec(s.stmts[1], result, IF found THEN Leaves(st, "next") ELSE st)

(* A statement whose first expression, if it has one, gave c. *)
Returns(s, result, c) ==
    [Leaves(c.st, "return") EXCEPT !.ret = IF s.exprs[1] = << >> THEN @
                                           ELSE << Convert(result, c.v) >>]
ExecKind(s, result, c) ==
    CASE s.kind = "expr" -> c.st
      [] s.kind = "compound" -> ExecAll(s.stmts, result, ExecInits(s.inits, c.st))
      [] s.kind = "return" -> Returns(s, result, c)
      [] s.kind = "if" -> IF c.v = 0 /\ Len(s.stmts) = 1 THEN c.st
                          ELSE Exec(s.stmts[IF c.v # 0 THEN 1 ELSE 2], result, c.st)
      [] s.kind \in {"do", "while", "for"} -> ExecLoop(s, result, s.kind # "do", c.st)
      [] s.kind \in {"break", "continue"} -> Leaves(c.st, s.kind)
      [] s.kind = "switch" -> ExecSwitch(s.stmts[1], result, c)

FirstExpression(s) == IF s.kind \in {"expr", "return", "if", "switch", "for"} THEN s.exprs[1]
                      ELSE << >>
Exec(s, result, st) ==
    CASE s.kind = "compound" /\ st.ctl = "seek" -> ExecAll(s.stmts, result, st)
      [] s.kind \in {"case", "default"} -> ExecLabel(s, result, st)
      [] st.ctl = "seek" /\ s.kind \notin {"compound", "case", "default"} -> st
      [] OTHER -> ExecKind(s, result, EvalOptional(FirstExpression(s), 0, st))

Meaning(s, result, mem, answers) == Exec(s, result, StartState(mem, answers))
=============================================================================
