----------------------------- MODULE Expressions -----------------------------
(***************************************************************************)
(* The trees of expr.h and what exprchk.c and fold.c make of them: every   *)
(* node gets its type, conversions become nodes of their own, offsets of   *)
(* pointers are scaled, increments become compound assignments, and these  *)
(* assignments whose right operand shares the left one.  Constants are     *)
(* folded on the way.                                                      *)
(***************************************************************************)
EXTENDS CTypes, Bitwise

CONSTANTS VarType,      \* the declared type of every variable
          FunType       \* and of every function: its result and parameters

(* A node.  val is the value of a constant and the number, later the offset, *)
(* of a field; shared marks the left operand seen from the right one.        *)
Node(op, kids) ==
    [op |-> op, ty |-> TVoid, kids |-> kids, val |-> 0, id |-> "",
     lvalue |-> FALSE, isarray |-> FALSE, shared |-> FALSE]
Id(name) == [Node("id", << >>) EXCEPT !.id = name]
Constant(ty, n) == [Node("const", << >>) EXCEPT !.ty = ty, !.val = n]
Unary(op, e) == Node(op, << e >>)
Binary(op, a, b) == Node(op, << a, b >>)
Conditional(c, a, b) == Node("?", << c, a, b >>)
CastTo(ty, e) == [Node("cast", << e >>) EXCEPT !.ty = ty]
Member(e, field) == [Node(".", << e >>) EXCEPT !.val = field]
PtrMember(e, field) == [Node("->", << e >>) EXCEPT !.val = field]
Call(f, args) == [Node("call", args) EXCEPT !.id = f]

\* What a check makes of an expression it reports, and of one that stops the compiler.
Invalid == Node("error", << >>)
Crash == Node("crash", << >>)
Failures == {Invalid, Crash}
Failure(es) == IF Crash \in es THEN Crash ELSE Invalid

LogicalOps == {"||", "&&"}
BitwiseOps == {"|", "^", "&"}
EqualityOps == {"==", "!="}
RelationalOps == {">", "<", ">=", "<="}
ShiftOps == {"<<", ">>"}
MultiplicativeOps == {"*", "/", "%"}
BinaryOps == LogicalOps \cup BitwiseOps \cup EqualityOps \cup RelationalOps
                 \cup ShiftOps \cup MultiplicativeOps \cup {"+", "-"}
CompoundOp == [op \in {"|=", "^=", "&=", "<<=", ">>=", "+=", "-=", "*=", "/=", "%="} |->
    CASE op = "|=" -> "|" [] op = "^=" -> "^" [] op = "&=" -> "&"
      [] op = "<<=" -> "<<" [] op = ">>=" -> ">>" [] op = "+=" -> "+"
      [] op = "-=" -> "-" [] op = "*=" -> "*" [] op = "/=" -> "/" [] op = "%=" -> "%"]
CompoundOps == DOMAIN CompoundOp
IncrementOps == {"x++", "x--", "++x", "--x"}

IsConst(e) == e.op = "const"

\* Arrays may differ in that one has no size yet; functions must agree in taking more.
SameShape(a, b) == IF a.categ = "ARRAY" THEN a.size = b.size \/ 0 \in {a.size, b.size}
                   ELSE a.len = b.len
RECURSIVE IsCompatible(_, _)
IsCompatible(a, b) ==
    \/ a = b
    \/ /\ a.categ = b.categ
       /\ a.categ \in {"POINTER", "ARRAY", "FUNCTION"}
       /\ Len(a.of) = Len(b.of)
       /\ \A i \in DOMAIN a.of : IsCompatible(a.of[i], b.of[i])
       /\ SameShape(a, b)
IsCompatiblePtr(a, b) == IsPtr(a) /\ IsPtr(b) /\ IsCompatible(Base(a), Base(b))

\* Of two compatible types, the one that says all that either does.
RECURSIVE CompositeType(_, _)
CompositeType(a, b) ==
    CASE a.categ = "ENUM" -> a
      [] a.categ # "ENUM" /\ b.categ = "ENUM" -> b
      [] IsPtr(a) -> PointerTo(CompositeType(Base(a), Base(b)))
      [] a.categ = "ARRAY" -> IF a.size # 0 THEN a ELSE b
      [] a.categ = "FUNCTION" ->
           [a EXCEPT !.of = [i \in DOMAIN @ |-> CompositeType(@[i], b.of[i])]]
      [] OTHER -> a

-----------------------------------------------------------------------------
(* fold.c.  The value of a constant is an int whatever its type. *)

Bits2(op, a, b) ==
    LET x == a % Modulus(Code.I4)
        y == b % Modulus(Code.I4)
    IN  CASE op = "&" -> x & y [] op = "|" -> x | y [] op = "^" -> x ^^ y

\* The operators that only act on operands of four bytes; nothing is 0.
FoldedWord(op, code, a, b) ==
    CASE op = "||" -> IF a # 0 \/ b # 0 THEN 1 ELSE 0
      [] op = "&&" -> IF a # 0 /\ b # 0 THEN 1 ELSE 0
      [] op = "==" -> IF a = b THEN 1 ELSE 0
      [] op = "!=" -> IF a # b THEN 1 ELSE 0
      [] op = "+" -> a + b
      [] op = "-" -> a - b
      [] op = "*" -> a * b
      [] op = "/" -> Quotient(Wrap(code, a), Wrap(code, b))

\* The processor that runs the compiler takes a count of shifts modulo the width of an int.
Folded(op, code, a, b) ==
    LET operand(n) == IF code = Code.U4 THEN Wrap(Code.U4, n) ELSE n
    IN  CASE op \in BitwiseOps -> Bits2(op, a, b)
          [] op = "<<" -> a * 2 ^ (b % Bits[4])
          [] op = ">>" -> operand(a) \div 2 ^ (b % Bits[4])
          [] op = "%" -> Remainder(operand(a), operand(b))
          [] op \in LogicalOps \cup EqualityOps \cup {"+", "-", "*", "/"} ->
               IF code \in {Code.I4, Code.U4} THEN FoldedWord(op, code, a, b) ELSE 0

\* The compiler divides as it folds: it stops where the division has no result.
Traps(op, code, a, b) ==
    /\ op \in {"/", "%"}
    /\ \/ b = 0
       \/ code # Code.U4 /\ b = -1 /\ ~InRange(Code.I4, -a)

FoldBinary(e, code, a, b) ==
    IF Traps(e.op, code, a, b) THEN Crash
    ELSE Constant(e.ty, Wrap(Code.I4, Folded(e.op, code, a, b)))

\* The relational operators are never folded.
FoldConstant(e) ==
    LET k == e.kids
    IN  CASE e.op \in BinaryOps \ RelationalOps /\ IsConst(k[1]) /\ IsConst(k[2]) ->
               FoldBinary(e, TypeCode(k[1].ty), k[1].val, k[2].val)
          [] e.op = "-x" /\ IsConst(k[1]) -> Constant(e.ty, Wrap(Code.I4, -k[1].val))
          [] e.op = "?" /\ IsConst(k[1]) /\ IsInteg(k[1].ty) ->
               IF k[1].val # 0 THEN k[2] ELSE k[3]
          [] OTHER -> e

FoldCast(ty, e) == [e EXCEPT !.ty = ty]

-----------------------------------------------------------------------------
(* Conversions. *)

CastExpression(ty, e) ==
    IF IsConst(e) /\ ty # TVoid THEN FoldCast(ty, e) ELSE CastTo(ty, e)

\* A value of a narrow type goes through int, whatever it is converted to.
CastWide(ty, wide) ==
    IF TypeCode(wide.ty) = TypeCode(ty) THEN wide
    ELSE CastExpression(ty, IF TypeCode(ty) < Code.I4 THEN CastExpression(TInt, wide) ELSE wide)
Cast(ty, e) ==
    CASE ty = TVoid -> CastExpression(ty, e)
      [] ty # TVoid /\ TypeCode(e.ty) \div 2 = TypeCode(ty) \div 2 ->
           IF e.ty.categ # ty.categ /\ e.ty.categ \in {"INT", "UINT"}
           THEN CastExpression(ty, e)
           ELSE [e EXCEPT !.ty = ty]
      [] OTHER -> CastWide(ty, IF TypeCode(e.ty) < Code.I4 THEN CastExpression(TInt, e) ELSE e)

DoIntegerPromotion(e) == IF LessThanInt(e.ty) THEN Cast(TInt, e) ELSE e

\* The operands converted to their common type, which is the result's too.
ConvertTo(ty, e, is) ==
    [e EXCEPT !.ty = ty, !.kids = [i \in DOMAIN @ |-> IF i \in is THEN Cast(ty, @[i]) ELSE @[i]]]
ArithConversion(e) == ConvertTo(CommonRealType(e.kids[1].ty, e.kids[2].ty), e, {1, 2})

Adjust(e, rvalue) ==
    IF e.ty.categ = "ARRAY"
    THEN [e EXCEPT !.ty = PointerTo(Base(e.ty)), !.isarray = TRUE, !.lvalue = FALSE]
    ELSE [e EXCEPT !.lvalue = @ /\ ~rvalue]

IsNullConstant(e) == IsConst(e) /\ e.val = 0

CanAssign(ty, e) ==
    \/ ty = e.ty
    \/ IsInteg(ty) /\ IsInteg(e.ty)
    \/ IsPtr(ty) /\ (IsPtr(e.ty) \/ IsNullConstant(e))
    \/ /\ (IsPtr(ty) /\ IsInteg(e.ty)) \/ (IsPtr(e.ty) /\ IsInteg(ty))
       /\ SizeOf(ty) = SizeOf(e.ty)

-----------------------------------------------------------------------------
(* The checks of the operators, given operands checked and adjusted. *)

BothInteg(e) == IsInteg(e.kids[1].ty) /\ IsInteg(e.kids[2].ty)
BothScalar(e) == IsScalar(e.kids[1].ty) /\ IsScalar(e.kids[2].ty)

ScalePointerOffset(offset, scale) ==
    FoldConstant([Binary("*", offset, Constant(offset.ty, scale)) EXCEPT !.ty = offset.ty])

PointerDifference(diff, size) ==
    [Binary("/", diff, Constant(diff.ty, size)) EXCEPT !.ty = diff.ty]

SwapKids(e) == [e EXCEPT !.kids = << @[2], @[1] >>]

PointerPlus(e) ==
    LET ty == e.kids[1].ty
    IN  [e EXCEPT !.ty = ty,
                  !.kids[2] = ScalePointerOffset(DoIntegerPromotion(@), SizeOf(Base(ty)))]

CheckBitwiseOP(e) == IF BothInteg(e) THEN FoldConstant(ArithConversion(e)) ELSE Invalid

CheckShiftOP(e) ==
    IF BothInteg(e)
    THEN FoldConstant([e EXCEPT !.ty = Promote(e.kids[1].ty),
                                !.kids = [i \in 1 .. 2 |-> DoIntegerPromotion(@[i])]])
    ELSE Invalid

CheckMultiplicativeOP(e) == IF BothInteg(e) THEN FoldConstant(ArithConversion(e)) ELSE Invalid

\* A constant operand stands on the right, and so does what is added to a pointer.
AddOperands(s) ==
    LET a == s.kids[1].ty
        b == s.kids[2].ty
    IN  CASE BothInteg(s) -> FoldConstant(ArithConversion(s))
          [] IsObjectPtr(b) /\ IsInteg(a) -> PointerPlus(SwapKids(s))
          [] IsObjectPtr(a) /\ IsInteg(b) -> PointerPlus(s)
          [] OTHER -> Invalid
CheckAddOP(e) == AddOperands(IF IsConst(e.kids[1]) THEN SwapKids(e) ELSE e)

CheckSubOP(e) ==
    LET a == e.kids[1].ty
        b == e.kids[2].ty
    IN  CASE BothInteg(e) -> FoldConstant(ArithConversion(e))
          [] IsObjectPtr(a) /\ IsInteg(b) -> PointerPlus(e)
          [] IsCompatiblePtr(a, b) ->
               PointerDifference([e EXCEPT !.ty = TInt], SizeOf(Base(a)))
          [] OTHER -> Invalid

CheckLogicalOP(e) == IF BothScalar(e) THEN FoldConstant([e EXCEPT !.ty = TInt]) ELSE Invalid

CheckEqualityOP(e) ==
    LET a == e.kids[1]
        b == e.kids[2]
    IN  CASE BothInteg(e) -> FoldConstant([ArithConversion(e) EXCEPT !.ty = TInt])
          [] \/ IsCompatiblePtr(a.ty, b.ty)
             \/ IsObjectPtr(a.ty) /\ IsVoidPtr(b.ty)
             \/ IsObjectPtr(b.ty) /\ IsVoidPtr(a.ty)
             \/ IsPtr(a.ty) /\ IsNullConstant(b)
             \/ IsPtr(b.ty) /\ IsNullConstant(a) -> [e EXCEPT !.ty = TInt]
          [] OTHER -> Invalid

CheckRelationalOP(e) ==
    IF BothInteg(e) THEN FoldConstant([ArithConversion(e) EXCEPT !.ty = TInt])
    ELSE [e EXCEPT !.ty = TInt]

BinaryOPChecker(e) ==
    CASE e.op \in LogicalOps -> CheckLogicalOP(e)
      [] e.op \in BitwiseOps -> CheckBitwiseOP(e)
      [] e.op \in EqualityOps -> CheckEqualityOP(e)
      [] e.op \in RelationalOps -> CheckRelationalOP(e)
      [] e.op \in ShiftOps -> CheckShiftOP(e)
      [] e.op = "+" -> CheckAddOP(e)
      [] e.op = "-" -> CheckSubOP(e)
      [] e.op \in MultiplicativeOps -> CheckMultiplicativeOP(e)

\* The type of a choice between two pointers, or a pointer and nothing.
PointerChoice(e, a, b) ==
    IF IsCompatiblePtr(a, b) THEN PointerTo(CompositeType(Base(a), Base(b)))
    ELSE IF IsPtr(a) /\ IsNullConstant(e.kids[3]) THEN a
    ELSE IF IsPtr(b) /\ IsNullConstant(e.kids[2]) THEN b
    ELSE IF (IsObjectPtr(a) /\ IsVoidPtr(b)) \/ (IsObjectPtr(b) /\ IsVoidPtr(a)) THEN PointerTo(TVoid)
    ELSE Illegal
ChoiceType(e, a, b) == IF a = b /\ (IsRecord(a) \/ a = TVoid) THEN a ELSE PointerChoice(e, a, b)
Chosen(e, ty) == IF ty = Illegal THEN Invalid ELSE [e EXCEPT !.ty = ty]

CheckConditionalExpression(e) ==
    LET a == e.kids[2].ty
        b == e.kids[3].ty
    IN  CASE ~IsScalar(e.kids[1].ty) -> Invalid
          [] IsScalar(e.kids[1].ty) /\ IsInteg(a) /\ IsInteg(b) ->
               FoldConstant(ConvertTo(CommonRealType(a, b), e, {2, 3}))
          [] OTHER -> Chosen(e, ChoiceType(e, a, b))

AssignedTo(e, left, right) ==
    IF left.lvalue /\ right \notin Failures /\ CanAssign(left.ty, right)
    THEN [e EXCEPT !.ty = left.ty, !.kids[2] = Cast(left.ty, right)]
    ELSE Failure({right})
CheckAssignment(e) ==
    LET left == e.kids[1]
    IN  AssignedTo(e, left,
            IF e.op = "=" THEN e.kids[2]
            ELSE BinaryOPChecker(Binary(CompoundOp[e.op], [left EXCEPT !.shared = TRUE], e.kids[2])))

IncrementBy(e, casgn) ==
    IF casgn \in Failures THEN casgn ELSE [e EXCEPT !.ty = casgn.ty, !.kids[1] = casgn]
TransformIncrement(e) ==
    IncrementBy(e, CheckAssignment(Binary(IF e.op \in {"x++", "++x"} THEN "+=" ELSE "-=",
                                          Adjust(e.kids[1], FALSE), Constant(TInt, 1))))

CheckPrimaryExpression(e) ==
    IF IsConst(e) THEN e
    ELSE [e EXCEPT !.ty = VarType[e.id], !.lvalue = VarType[e.id].categ # "FUNCTION"]

\* An index into something that is no array becomes *(p + offset).
CheckIndex(e) ==
    LET base == e.kids[1]
        ty == Base(base.ty)
        offset == ScalePointerOffset(DoIntegerPromotion(e.kids[2]), SizeOf(ty))
    IN  CASE ~(IsObjectPtr(base.ty) /\ IsInteg(e.kids[2].ty)) -> Invalid
          [] OTHER ->
               IF base.isarray \/ ty.categ = "ARRAY"
               THEN [e EXCEPT !.ty = ty, !.lvalue = TRUE, !.kids[2] = offset]
               ELSE [Unary("*x", [Binary("+", base, offset) EXCEPT !.ty = base.ty])
                        EXCEPT !.ty = ty, !.lvalue = TRUE]

CheckMemberAccess(e) ==
    LET k == e.kids[1]
        rty == IF e.op = "->" /\ IsPtr(k.ty) THEN Base(k.ty) ELSE k.ty
    IN  IF ~IsRecord(rty) \/ (e.op = "->") # IsPtr(k.ty) THEN Invalid
        ELSE [e EXCEPT !.ty = rty.of[e.val], !.val = FieldOffset(rty, e.val),
                       !.lvalue = (e.op = "->") \/ k.lvalue]

CheckArgument(ty, arg) == Cast(IF LessThanInt(ty) THEN TInt ELSE ty, arg)
PromoteArgument(arg) == Cast(Promote(arg.ty), arg)

\* A function takes as many arguments as it has parameters, or more if it says so: where
\* the parameters run out before the arguments, the call is checked again and is unknown then.
Takes(sig, n) == IF sig.more THEN Len(sig.params) > 0 \/ n <= 1 ELSE n = Len(sig.params)
CheckFunctionCall(e) ==
    LET sig == FunType[e.id]
        given == DOMAIN e.kids \cap DOMAIN sig.params
    IN  IF Takes(sig, Len(e.kids)) /\ \A i \in given : CanAssign(sig.params[i], e.kids[i])
        THEN [e EXCEPT !.ty = sig.result,
                       !.kids = [i \in DOMAIN @ |->
                           IF i \in given THEN CheckArgument(sig.params[i], @[i])
                           ELSE IF sig.params = << >> THEN @[i] ELSE PromoteArgument(@[i])]]
        ELSE Invalid

\* &*p is p, and &a[i] is a + i.
CheckAddress(e) ==
    LET k == e.kids[1]
    IN  CASE k.op = "*x" -> [k.kids[1] EXCEPT !.lvalue = FALSE]
          [] k.op = "[]" -> [k EXCEPT !.op = "+", !.ty = PointerTo(k.ty), !.lvalue = FALSE]
          [] k.op \notin {"*x", "[]"} /\ k.lvalue ->
               [e EXCEPT !.lvalue = FALSE, !.ty = PointerTo(k.ty)]
          [] OTHER -> Invalid

\* *&a is a, and *(a + i) is a[i] if a is an array or an element is one.
CheckDeref(e) ==
    LET k == e.kids[1]
        ty == Base(k.ty)
    IN  CASE ~IsPtr(k.ty) -> Invalid
          [] k.op = "&x" -> [k.kids[1] EXCEPT !.ty = ty]
          [] k.op = "+" /\ (ty.categ = "ARRAY" \/ k.kids[1].isarray) ->
               [k EXCEPT !.op = "[]", !.ty = ty, !.lvalue = TRUE]
          [] OTHER ->
               IF ty.categ = "ARRAY" \/ k.isarray
               THEN [Binary("[]", k, Constant(TInt, 0)) EXCEPT !.ty = ty, !.lvalue = TRUE]
               ELSE [e EXCEPT !.ty = ty, !.lvalue = TRUE]

CheckUnaryExpression(e) ==
    LET k == e.kids[1]
        p == DoIntegerPromotion(k)
    IN  CASE e.op = "&x" -> CheckAddress(e)
          [] e.op = "*x" -> CheckDeref(e)
          [] e.op = "!" -> IF IsScalar(k.ty) THEN [e EXCEPT !.ty = TInt] ELSE Invalid
          [] e.op \in {"~", "-x"} ->
               IF IsInteg(k.ty) THEN FoldConstant([e EXCEPT !.ty = p.ty, !.kids[1] = p])
               ELSE Invalid
          [] e.op = "+x" -> IF IsInteg(k.ty) THEN p ELSE Invalid
          [] e.op = "sizeof" -> Constant(TUInt, SizeOf(k.ty))
          [] e.op = "cast" ->
               IF e.ty = TVoid \/ (IsScalar(e.ty) /\ IsScalar(k.ty)) THEN Cast(e.ty, k)
               ELSE Invalid

CheckPostfixExpression(e) ==
    CASE e.op = "[]" -> CheckIndex(e)
      [] e.op = "call" -> CheckFunctionCall(e)
      [] e.op \in {".", "->"} -> CheckMemberAccess(e)

\* The comma stores its right operand, checked, over the left one.
CheckCommaExpression(e) == [e EXCEPT !.ty = e.kids[2].ty, !.kids = << @[2], @[2] >>]

\* Which operand keeps being an lvalue, and which an array.
AdjustedKid(e, i, kid) ==
    CASE e.op \in {"sizeof", "&x", "++x", "--x", "x++", "x--"} -> kid
      [] e.op = "." \/ (i = 1 /\ (e.op = "=" \/ e.op \in CompoundOps)) -> Adjust(kid, FALSE)
      [] OTHER -> Adjust(kid, TRUE)

\* An expression whose operands are checked and adjusted.
CheckOperator(c) ==
    CASE c.op \in {"id", "const"} -> CheckPrimaryExpression(c)
      [] c.op \in BinaryOps -> BinaryOPChecker(c)
      [] c.op = "?" -> CheckConditionalExpression(c)
      [] c.op = "=" \/ c.op \in CompoundOps -> CheckAssignment(c)
      [] c.op \in IncrementOps -> TransformIncrement(c)
      [] c.op = "," -> CheckCommaExpression(c)
      [] c.op \in {"[]", "call", ".", "->"} -> CheckPostfixExpression(c)
      [] OTHER -> CheckUnaryExpression(c)

WithOperands(e, kids) ==
    IF \E i \in DOMAIN kids : kids[i] \in Failures THEN Failure({kids[i] : i \in DOMAIN kids})
    ELSE CheckOperator([e EXCEPT !.kids = [i \in DOMAIN kids |-> AdjustedKid(e, i, kids[i])]])
RECURSIVE CheckExpression(_)
CheckExpression(e) == WithOperands(e, [i \in DOMAIN e.kids |-> CheckExpression(e.kids[i])])
=============================================================================
