------------------------------ MODULE UclTests ------------------------------
(***************************************************************************)
(* The functions of the test suite and the assembly it expects for them.   *)
(* Registers, stack slots and moves are left out: of every basic block the *)
(* operations are kept, its jumps and its calls in their order, and a      *)
(* label is the number of blocks since the first of its function.          *)
(***************************************************************************)
EXTENDS Compilation, TLC

(* A test: the result type of a function, its initialised locals, its *)
(* statements, and block by block what it is to be compiled to.       *)
Expect(result, locals, stmts, asm) ==
    [body |-> Block(locals, stmts), result |-> result, expected |-> asm]
Op(mnemonic) == << mnemonic >>
To(jump, label) == << jump, label >>
Called(f) == << "call", f >>

\* The templates an operation is emitted by, signed and unsigned; moves have no entry.
Mnemonic == [op \in (AssignOps \cup DOMAIN CastFrom \cup EqualityOps \cup RelationalOps
                        \cup {"JZ", "JNZ", "ADDR"}) |->
    CASE op = "|" -> << "orl", "orl" >> [] op = "&" -> << "andl", "andl" >>
      [] op = "^" -> << "xorl", "xorl" >> [] op = "<<" -> << "shll", "shll" >>
      [] op = ">>" -> << "sarl", "shrl" >> [] op = "+" -> << "addl", "addl" >>
      [] op = "-" -> << "subl", "subl" >> [] op = "*" -> << "imull", "mull" >>
      [] op \in {"/", "%"} -> << "idivl", "divl" >> [] op = "-x" -> << "negl", "" >>
      [] op = "~" -> << "notl", "" >> [] op \in {"JZ", "=="} -> << "je", "je" >>
      [] op \in {"JNZ", "!="} -> << "jne", "jne" >> [] op = ">" -> << "jg", "ja" >>
      [] op = "<" -> << "jl", "jb" >> [] op = ">=" -> << "jge", "jae" >>
      [] op = "<=" -> << "jle", "jbe" >> [] op = "EXTI1" -> << "movsbl", "movsbl" >>
      [] op = "EXTU1" -> << "movzbl", "movzbl" >> [] op = "EXTI2" -> << "movswl", "movswl" >>
      [] op = "EXTU2" -> << "movzwl", "movzwl" >> [] op = "ADDR" -> << "leal", "leal" >>
      [] op \in {"TRUI1", "TRUI2"} -> << "", "" >>]

LabelOf(bb) == (CHOOSE p \in Places(bb) : TRUE) - 1
Emitted(i) ==
    CASE i.op = "CALL" -> << Called(i.id) >>
      [] i.op = "CLR" -> << Called("memset") >>
      [] i.op = "JMP" -> << To("jmp", LabelOf(i.bb)) >>
      [] i.op \in DOMAIN Mnemonic ->
           LET name == Mnemonic[i.op][IF Signed(TypeCode(i.ty)) THEN 1 ELSE 2]
           IN  IF i.bb # 0 THEN << To(name, LabelOf(i.bb)) >>
               ELSE IF name = "" THEN << >> ELSE << Op(name) >>
      [] OTHER -> << >>

RECURSIVE EmittedAll(_)
EmittedAll(insts) == IF insts = << >> THEN << >> ELSE Emitted(Head(insts)) \o EmittedAll(Tail(insts))
Skeleton == [p \in DOMAIN code.order |-> EmittedAll(code.blocks[code.order[p]])]

(* Every function of the test suite is compiled to the operations, in the *)
(* basic blocks and with the jumps and calls, that the suite expects.     *)
AsTested == phase = "translated" /\ source.expected # << >> => Skeleton = source.expected

-----------------------------------------------------------------------------
(* The variables and functions the tests declare, most of them in several. *)

DataType == Struct(<< TInt, TInt >>)
Nested1 == Struct(<< TInt, TInt, DataType >>)
Record == Struct(<< TInt, TInt, ArrayOf(4, TInt) >>)
Text == ArrayOf(6, TChar)
TestVarType ==
    [x \in {"a", "b", "c", "d", "i", "s1", "s2", "s3"} |-> TInt]
    @@ [cp |-> PointerTo(TChar), vp |-> PointerTo(TVoid), uc |-> TUInt, ud |-> TUInt,
        len |-> TChar, us |-> TUShort, uch |-> TUChar, s |-> TShort,
        arr |-> ArrayOf(16, TInt), arr2 |-> ArrayOf(3, ArrayOf(4, TInt)),
        arr5 |-> ArrayOf(3, ArrayOf(5, TInt)), ptr |-> PointerTo(TInt), ptr2 |-> PointerTo(TInt),
        ptr3 |-> PointerTo(TChar), ptr4 |-> PointerTo(TChar), pptr |-> PointerTo(PointerTo(TInt)),
        parr |-> PointerTo(ArrayOf(4, TInt)), str |-> Text, str2 |-> Text,
        dt |-> DataType, dt2 |-> DataType, dt1 |-> Nested1, pdt |-> PointerTo(DataType),
        rec |-> Record, rec1 |-> Record, rec2 |-> Record]

Signature(result, params, more) == [result |-> result, params |-> params, more |-> more]
TestFunType ==
    [add |-> Signature(TInt, << TInt, TInt >>, FALSE),
     print_hw |-> Signature(TVoid, << TInt, TChar >>, FALSE),
     printf |-> Signature(TInt, << PointerTo(TChar) >>, TRUE),
     f |-> Signature(PointerTo(TInt), << >>, FALSE),
     malloc |-> Signature(PointerTo(TVoid), << TInt >>, FALSE),
     h |-> Signature(TVoid, << PointerTo(TChar) >>, FALSE),
     fac |-> Signature(TInt, << TInt >>, FALSE),
     inner |-> Signature(TInt, << TInt, TInt >>, FALSE)]     \* declared in another function

A == Id("a")
B == Id("b")
C == Id("c")
D == Id("d")
I == Id("i")
S == Id("s")
S1 == Id("s1")
S2 == Id("s2")
S3 == Id("s3")
CP == Id("cp")
VP == Id("vp")
UC == Id("uc")
UD == Id("ud")
US == Id("us")
UCH == Id("uch")
LEN == Id("len")
ARR == Id("arr")
ARR2 == Id("arr2")
ARR5 == Id("arr5")
PTR == Id("ptr")
PTR2 == Id("ptr2")
PTR3 == Id("ptr3")
PTR4 == Id("ptr4")
PPTR == Id("pptr")
PARR == Id("parr")
STR == Id("str")
DT == Id("dt")
DT1 == Id("dt1")
DT2 == Id("dt2")
PDT == Id("pdt")
REC == Id("rec")
K(n) == Constant(TInt, n)
At(x, y) == Binary("[]", x, y)
Star(x) == Unary("*x", x)
Address(x) == Unary("&x", x)
Plus(x, y) == Binary("+", x, y)
Do1(e) == ExprStmt(e)
Set(x, y) == ExprStmt(Binary("=", x, y))
CallF == Call("f", << >>)
UpTo5(body) == For(<< Binary("=", A, K(0)) >>, << Binary("<", A, K(5)) >>, << Unary("++x", A) >>, body)

\* Initialisers: of a whole variable, and of the first ints of an array or structure.
Part(n, ty, e) == [offset |-> n, ty |-> ty, expr |-> e]
Whole(id, e) == Local(id, << Part(0, TestVarType[id], e) >>)
Parts(id, es) == Local(id, [k \in DOMAIN es |-> Part(4 * (k - 1), TInt, es[k])])

-----------------------------------------------------------------------------
(* The tests, in the order of the file. *)

Test_Function_Definition == {
    Expect(TVoid, << >>, << >>, << << >>, << >> >>)}

Test_Static == {
    Expect(TInt, << >>,
      << Return(Plus(A, B)) >>,
      << << Op("addl"), To("jmp", 2) >>, << >>, << >> >>),
    Expect(TVoid, << >>,
      << Do1(Call("add", << K(3), K(4) >>)) >>,
      << << Called("add") >>, << >> >>)}

Test_Function_Call == {
    Expect(TInt, << >>, << Return(K(0)) >>, << << To("jmp", 2) >>, << >>, << >> >>),
    Expect(TInt, << >>,
      << Do1(Call("print_hw", << K(3), K(97) >>)), Return(K(1)) >>,
      << << Called("print_hw"), To("jmp", 2) >>, << >>, << >> >>)}

Test_Struct == {
    Expect(TVoid, << >>,
      << Set(A, Member(DT, 2)), Set(A, Member(DT1, 2)),
         Set(A, Member(Member(DT1, 3), 1)) >>,
      << << >>, << >> >>)}

Test_Assign == {
    Expect(PointerTo(TInt), << >>,
      << Do1(Call("printf", << STR >>)), Return(Unary("&x", A)) >>,
      << << Op("leal"), Called("printf"), Op("leal"), To("jmp", 2) >>, << >>, << >> >>),
    Expect(TInt, << >>,
      << Set(A, K(1)), Do1(Binary("+=", Star(CallF), K(3))),
         Do1(Binary("+=", Star(CallF), Plus(Star(CallF), K(3)))), Return(K(0)) >>,
      << << Called("f"), Op("addl"), Called("f"), Called("f"), Op("addl"), Op("addl"),
            To("jmp", 2) >>, << >>, << >> >>)}

Test_BitOr_Assign == {
    Expect(TVoid, << >>, << Do1(Binary("|=", A, K(1))) >>, << << Op("orl") >>, << >> >>)}

Test_Sub_Assign == {
    Expect(TVoid, << >>, << Do1(Binary("-=", A, K(3))) >>, << << Op("addl") >>, << >> >>)}

Test_Div_Assign == {
    Expect(TVoid, << >>, << Do1(Binary("/=", A, K(3))) >>, << << Op("idivl") >>, << >> >>)}

Test_Binary == {
    Expect(TVoid, << >>,
      << Do1(Binary("|", A, K(3))), Do1(Binary("<<", A, K(3))), Do1(Binary("+", A, K(3))),
         Do1(Binary("-", A, K(3))), Do1(Binary("*", A, K(3))), Do1(Binary("/", A, K(3))),
         Do1(Binary("%", A, K(3))) >>,
      << << Op("orl"), Op("shll"), Op("addl"), Op("addl"), Op("imull"), Op("idivl"),
            Op("idivl") >>, << >> >>)}

Test_Binary_Multiplicative == {
    Expect(TVoid, << >>,
      << Do1(Binary("*", A, K(3))), Do1(Binary("/", A, K(3))), Do1(Binary("%", A, K(3))),
         Set(A, Binary("*", K(3), K(3))), Set(A, Binary("/", K(3), K(4))),
         Set(A, Binary("%", K(3), K(4))), Set(A, Binary("/", UC, UD)),
         Set(A, Binary("*", UC, UD)), Set(A, Binary("%", UC, UD)),
         Set(A, Binary("*", UC, K(1))), Set(A, Binary("/", UC, K(1))),
         Set(A, Binary("*", UC, K(4))), Set(A, Binary("/", UC, K(4))) >>,
      << << Op("imull"), Op("idivl"), Op("idivl"), Op("divl"), Op("mull"), Op("divl"),
            Op("shll"), Op("shrl") >>, << >> >>)}

Test_Binary_Shift == {
    Expect(TVoid, << >>,
      << Do1(Binary(">>", A, K(3))), Do1(Binary("<<", A, K(3))),
         Set(A, Binary(">>", K(8), K(3))), Set(A, Binary("<<", K(1), K(3))),
         Set(A, Binary("<<", C, LEN)), Set(A, Binary(">>", C, LEN)),
         Set(A, Binary("<<", C, UD)), Set(A, Binary(">>", C, UD)) >>,
      << << Op("sarl"), Op("shll"), Op("movsbl"), Op("shll"), Op("movsbl"), Op("sarl"),
            Op("shll"), Op("sarl") >>, << >> >>)}

Test_Binary_Add_Sub == {
    Expect(TVoid, << >>,
      << Do1(Binary("+", A, K(3))), Do1(Binary("-", A, K(3))),
         Set(A, Binary("+", K(3), K(4))), Set(A, Binary("-", K(3), K(4))),
         Set(A, Binary("-", Address(At(ARR, K(9))), Address(At(ARR, K(1))))),
         Set(A, Binary("+", ARR, K(1))) >>,
      << << Op("addl"), Op("addl"), Op("leal"), Op("addl"), Op("leal"), Op("addl"),
            Op("subl"), Op("sarl"), Op("leal"), Op("addl") >>, << >> >>)}

Test_Binary_Bitwise == {
    Expect(TVoid, << >>,
      << Do1(Binary("|", A, K(3))), Do1(Binary("&", A, K(3))), Do1(Binary("^", A, K(3))),
         Set(A, Binary("|", K(1), K(2))), Set(A, Binary("&", K(1), K(2))),
         Set(A, Binary("^", K(1), K(2))), Set(A, Binary("|", B, K(0))),
         Set(A, Binary("|", B, K(-1))), Set(A, Binary("^", B, K(0))),
         Set(A, Binary("&", B, K(0))), Set(A, Binary("&", B, K(-1))) >>,
      << << Op("orl"), Op("andl"), Op("xorl") >>, << >> >>)}

Test_Binary_Logical == {
    Expect(TVoid, << >>,
      << Do1(Binary("||", A, K(3))), Do1(Binary("&&", A, K(3))),
         Set(A, Binary("||", K(1), K(2))), Set(A, Binary("&&", K(1), K(2))) >>,
      << << To("jne", 3) >>, << To("jmp", 3) >>, << To("jmp", 4) >>, << >>,
         << To("je", 6) >>, << To("jmp", 7) >>, << To("jmp", 8) >>, << >>, << >>, << >> >>)}

Test_Binary_Equality == {
    Expect(TVoid, << >>,
      << Do1(Binary("==", A, K(3))), Do1(Binary("!=", A, K(3))),
         Do1(Binary("==", CP, VP)) >>,
      << << To("je", 2) >>, << To("jmp", 3) >>, << >>, << To("jne", 5) >>,
         << To("jmp", 6) >>, << >>, << To("je", 8) >>, << To("jmp", 9) >>, << >>, << >>,
         << >> >>)}

Test_Binary_Relational == {
    Expect(TVoid, << >>,
      << Do1(Binary(">", A, K(3))), Do1(Binary("<", A, K(3))), Do1(Binary(">=", A, K(3))),
         Do1(Binary("<=", A, K(3))) >>,
      << << To("jg", 2) >>, << To("jmp", 3) >>, << >>, << To("jl", 5) >>,
         << To("jmp", 6) >>, << >>, << To("jge", 8) >>, << To("jmp", 9) >>, << >>,
         << To("jle", 11) >>, << To("jmp", 12) >>, << >>, << >>, << >> >>)}

Test_Conditional == {
    Expect(TVoid, << >>,
      << Do1(Conditional(A, K(3), K(2))), Set(A, Conditional(K(300), B, C)),
         Set(DT, Conditional(A, DT, DT2)),
         Set(C, Conditional(Binary(">", A, K(0)), Plus(B, K(2)), Plus(B, K(3)))) >>,
      << << To("je", 2) >>, << To("jmp", 3) >>, << >>, << To("je", 5) >>,
         << To("jmp", 6) >>, << >>, << To("jle", 8) >>, << Op("addl"), To("jmp", 9) >>,
         << Op("addl") >>, << >>, << >> >>)}

Test_Unary_Inc == {
    Expect(TVoid, << >>,
      << Do1(Unary("++x", A)), Do1(Unary("--x", A)), Do1(Unary("x++", A)),
         Do1(Unary("x--", A)) >>,
      << << Op("addl"), Op("addl"), Op("addl"), Op("addl") >>, << >> >>)}

Test_Unary_Not == {
    Expect(TVoid, << >>,
      << Do1(Unary("!", A)) >>,
      << << To("je", 2) >>, << To("jmp", 3) >>, << >>, << >>, << >> >>)}

Test_Unary_Comp == {
    Expect(TVoid, << >>, << Do1(Unary("~", A)) >>, << << Op("notl") >>, << >> >>)}

Test_Unary_Neg == {
    Expect(TVoid, << >>,
      << Do1(Unary("+x", A)), Do1(Unary("-x", A)) >>,
      << << Op("negl") >>, << >> >>)}

Test_Unary_Sizeof == {
    Expect(TVoid, << >>,
      << Set(A, Unary("sizeof", A)), Set(A, Unary("sizeof", ARR)) >>,
      << << >>, << >> >>)}

Test_Unary_Cast == {
    Expect(TVoid, << >>,
      << Do1(CastTo(TChar, A)), Do1(CastTo(PointerTo(TChar), Call("malloc", << K(16) >>))),
         Set(A, US), Set(A, UCH), Set(UD, US), Set(UD, UCH), Set(US, A), Set(US, UD),
         Set(US, UCH) >>,
      << << Called("malloc"), Op("movzwl"), Op("movzbl"), Op("movzwl"), Op("movzbl"),
            Op("movzbl") >>, << >> >>)}

Test_Postfix_Dot == {
    Expect(TVoid, << >>, << Set(Member(DT, 1), K(1)) >>, << << >>, << >> >>)}

Test_Postfix_Pointer == {
    Expect(TVoid, << >>,
      << Set(PtrMember(PDT, 1), K(10)), Set(PtrMember(PDT, 2), K(3)),
         Set(Member(DT, 2), K(5)) >>,
      << << Op("addl") >>, << >> >>)}

Test_Postfix_Bracket == {
    Expect(TVoid, << >>,
      << Set(At(At(ARR2, K(1)), K(2)), K(5)), Set(At(At(PARR, K(1)), K(2)), K(1)),
         Set(At(At(ARR2, K(1)), K(2)), K(2)), Set(At(At(ARR2, K(0)), K(0)), K(3)),
         Set(At(At(PPTR, K(0)), K(0)), K(5)) >>,
      << << Op("addl") >>, << >> >>)}

Test_Const == {
    Expect(TInt, << >>,
      << Return(Plus(A, B)) >>,
      << << Op("addl"), To("jmp", 2) >>, << >>, << >> >>),
    Expect(TVoid, << Whole("ptr", Address(I)), Whole("ptr2", Address(B)) >>,
      << Set(PTR, Address(B)), Set(Star(PTR2), K(10)), Set(PTR, Address(B)),
         Set(Star(PTR2), K(11)), Set(I, Call("add", << K(3), K(4) >>)) >>,
      << << Op("leal"), Op("leal"), Op("leal"), Op("leal"), Called("add") >>, << >> >>)}

Test_If == {
    Expect(TInt, << >>,
      << IfElse(Binary("==", A, K(1)), Set(A, K(2)), Set(A, K(3))) >>,
      << << To("jne", 2) >>, << To("jmp", 3) >>, << >>, << >>, << >> >>)}

Test_While == {
    Expect(TInt, << >>,
      << While(A, Set(A, K(1))) >>,
      << << To("jmp", 2) >>, << >>, << To("jne", 1) >>, << >>, << >> >>)}

Test_Do_While == {
    Expect(TVoid, << >>,
      << Do(Set(A, K(1)), A) >>,
      << << >>, << >>, << To("jne", 1) >>, << >>, << >> >>)}

Test_For == {
    Expect(TVoid, << >>,
      << UpTo5(Set(A, K(1))) >>,
      << << To("jmp", 3) >>, << >>, << Op("addl") >>, << To("jl", 1) >>, << >>, << >> >>)}

Test_Break == {
    Expect(TVoid, << >>,
      << UpTo5(Break) >>,
      << << To("jmp", 4) >>, << To("jmp", 5) >>, << >>, << Op("addl") >>, << To("jl", 1) >>,
         << >>, << >> >>)}

Test_Continue == {
    Expect(TVoid, << >>,
      << UpTo5(Continue) >>,
      << << To("jmp", 4) >>, << To("jmp", 3) >>, << >>, << Op("addl") >>, << To("jl", 1) >>,
         << >>, << >> >>)}

Test_Extern == {
    Expect(TVoid, << >>,
      << Set(A, K(1)), Do1(Call("malloc", << K(16) >>)) >>,
      << << Called("malloc") >>, << >> >>)}

Test_Fig1_24 == {
    Expect(TVoid, << >>,
      << Set(PTR3, PTR4),
         Set(PTR3, CastTo(PointerTo(TChar), Call("malloc", << K(16) >>))) >>,
      << << Called("malloc") >>, << >> >>),
    Expect(TVoid, << >>,
      << Set(PTR3, STR), Do1(Call("h", << PTR3 >>)) >>,
      << << Op("leal"), Called("h") >>, << >> >>)}

Test_Fig1_28 == {
    Expect(TInt, << >>,
      << Set(C, Binary("|", A, B)), Set(C, Binary("&", A, B)),
         Set(C, Binary("<<", A, K(2))), Set(C, Binary(">>", A, K(2))),
         Set(C, Binary("+", A, B)), Set(C, Binary("-", A, B)), Set(C, Binary("*", A, B)),
         Set(C, Binary("/", A, B)), Do1(Unary("x++", C)), Do1(Unary("x--", C)),
         Set(C, Binary("%", A, B)), Set(C, Unary("-x", A)), Set(C, Unary("~", A)),
         Return(K(0)) >>,
      << << Op("orl"), Op("andl"), Op("shll"), Op("sarl"), Op("addl"), Op("subl"),
            Op("imull"), Op("idivl"), Op("addl"), Op("addl"), Op("idivl"), Op("negl"),
            Op("notl"), To("jmp", 2) >>, << >>, << >> >>)}

Test_Fig1_31 == {
    Expect(TInt, << >>,
      << If(Unary("!", A), Do1(Unary("x++", C))),
         If(Binary("==", A, B), Do1(Unary("x++", C))),
         If(Binary(">", A, B), Do1(Unary("x++", C))), Return(K(0)) >>,
      << << To("jne", 2) >>, << Op("addl") >>, << To("jne", 4) >>, << Op("addl") >>,
         << To("jle", 6) >>, << Op("addl") >>, << To("jmp", 8) >>, << >>, << >> >>)}

Test_Fig1_32 == {
    Expect(TInt, << >>,
      << If(Binary(">", CastTo(TInt, A), CastTo(TInt, B)), Do1(Call("printf", << STR >>))),
         If(Binary(">", CastTo(TUInt, A), CastTo(TUInt, B)),
            Do1(Call("printf", << STR >>))),
         If(Binary(">", CastTo(TInt, A), CastTo(TUInt, B)), Do1(Call("printf", << STR >>))),
         If(Binary(">", CastTo(TUInt, A), CastTo(TInt, B)), Do1(Call("printf", << STR >>))),
         Return(K(0)) >>,
      << << To("jle", 2) >>, << Op("leal"), Called("printf") >>, << To("jbe", 4) >>,
         << Op("leal"), Called("printf") >>, << To("jbe", 6) >>,
         << Op("leal"), Called("printf") >>, << To("jbe", 8) >>,
         << Op("leal"), Called("printf") >>, << To("jmp", 10) >>, << >>, << >> >>)}

Test_Fig1_33 == {
    Expect(TInt, << >>,
      << If(Binary(">", A, UD), Do1(Call("printf", << STR >>))), Return(K(0)) >>,
      << << To("jbe", 2) >>, << Op("leal"), Called("printf") >>, << To("jmp", 4) >>, << >>,
         << >> >>)}

Test_Fig1_41 == {
    Expect(TInt, << Parts("arr", << K(2015) >>) >>,
      << Set(PTR, Address(At(ARR, K(1)))), Set(Star(PTR), K(2016)),
         Set(Member(DT, 2), Star(PTR)), Return(K(0)) >>,
      << << Called("memset"), Op("leal"), Op("addl"), To("jmp", 2) >>, << >>, << >> >>)}

Test_Fig1_43 == {
    Expect(TInt, << >>,
      << Do1(Call("printf", << STR, C, LEN >>)), Return(K(0)) >>,
      << << Op("leal"), Op("movsbl"), Called("printf"), To("jmp", 2) >>, << >>, << >> >>)}

Test_Fig2_27 == {
    Expect(TInt, << Whole("ptr3", STR) >>,
      << Set(C, Plus(A, B)), Set(D, Plus(A, B)), Set(A, K(3)),
         Set(Member(DT, 2), Plus(A, B)), Return(K(0)) >>,
      << << Op("leal"), Op("addl"), Op("addl"), Op("addl"), To("jmp", 2) >>, << >>,
         << >> >>)}

Test_Fig2_36 == {
    Expect(TInt, << >>,
      << Block(<< Whole("b", K(20)), Parts("arr", << K(1), K(2) >>) >>,
               << Block(<< Whole("c", K(30)) >>, << Set(C, K(40)) >>), Set(B, K(50)) >>),
         Set(A, K(60)), Return(K(0)) >>,
      << << Called("memset"), To("jmp", 2) >>, << >>, << >> >>)}

Test_Fig4_9 == {
    Expect(TInt, << Whole("str2", STR), Whole("ptr3", STR) >>,
      << Do1(Call("printf", << STR >>)), Return(K(0)) >>,
      << << Op("leal"), Op("leal"), Called("printf"), To("jmp", 2) >>, << >>, << >> >>)}

Test_Fig4_18 == {
    Expect(TInt, << >>,
      << Set(B, CastTo(TInt, Binary(">>", CastTo(TUInt, S), K(1)))), Return(K(0)) >>,
      << << Op("movswl"), Op("shrl"), To("jmp", 2) >>, << >>, << >> >>)}

Test_Fig4_19 == {
    Expect(TVoid, << >>, << >>, << << >>, << >> >>),
    Expect(TInt, << >>,
      << Do1(Call("printf", << STR, Call("inner", << K(3), K(4) >>) >>)),
         Return(K(0)) >>,
      << << Op("leal"), Called("inner"), Called("printf"), To("jmp", 2) >>, << >>,
         << >> >>),
    Expect(TInt, << >>,
      << Return(Plus(A, B)) >>,
      << << Op("addl"), To("jmp", 2) >>, << >>, << >> >>)}

Test_Fig4_32 == {
    Expect(TInt, << >>,
      << Set(Star(Star(ARR2)), K(1)), Set(Star(Star(PARR)), K(2)),
         Set(Star(Star(PPTR)), K(3)), Return(K(0)) >>,
      << << To("jmp", 2) >>, << >>, << >> >>)}

Test_Fig5_1 == {
    Expect(TInt, << >>,
      << IfElse(Binary("<", I, K(1)), Return(K(1)),
                Return(Binary("*", I, Call("fac", << Binary("-", I, K(1)) >>)))) >>,
      << << To("jge", 3) >>, << To("jmp", 6) >>, << To("jmp", 5) >>,
         << Op("addl"), Called("fac"), Op("imull"), To("jmp", 6) >>, << >>, << >>, << >> >>),
    Expect(TInt, << Whole("i", K(1)) >>,
      << While(Binary("<=", I, K(10)),
               Compound(<< Do1(Call("printf", << STR, I, Call("fac", << I >>) >>)),
                           Do1(Unary("x++", I)) >>)), Return(K(0)) >>,
      << << To("jmp", 2) >>, << Op("leal"), Called("fac"), Called("printf"), Op("addl") >>,
         << To("jle", 1) >>, << To("jmp", 5) >>, << >>, << >> >>)}

Test_Fig5_5 == {
    Expect(TInt, << >>,
      << IfElse(Plus(A, B), Set(C, K(1)), Set(C, K(2))),
         IfElse(Binary("&&", A, B), Set(C, K(3)), Set(C, K(4))),
         IfElse(Binary("&", A, B), Set(C, K(5)), Set(C, K(6))), Set(C, Binary("||", A, B)),
         Return(K(0)) >>,
      << << Op("addl"), To("je", 2) >>, << To("jmp", 3) >>, << >>, << To("je", 6) >>,
         << To("je", 6) >>, << To("jmp", 7) >>, << >>, << Op("andl"), To("je", 9) >>,
         << To("jmp", 10) >>, << >>, << To("jne", 13) >>, << To("jne", 13) >>,
         << To("jmp", 14) >>, << >>, << To("jmp", 16) >>, << >>, << >> >>)}

Test_Fig5_8 == {
    Expect(TInt, << >>,
      << IfElse(Binary("||", Binary("&&", A, B), C), Set(D, K(1)), Set(D, K(2))),
         Return(K(0)) >>,
      << << To("je", 2) >>, << To("jne", 3) >>, << To("je", 4) >>, << To("jmp", 5) >>,
         << >>, << To("jmp", 7) >>, << >>, << >> >>)}

Test_Fig5_12 == {
    Expect(TInt, << Whole("rec1", REC), Parts("rec2", << K(1), K(2), K(3) >>) >>,
      << Set(C, Plus(A, B)), Set(PTR, Address(A)),
         Set(C, Plus(Member(REC, 1), Member(REC, 2))),
         Set(C, Plus(At(ARR, K(0)), At(ARR, K(1)))), Set(At(At(ARR5, I), K(2)), K(30)),
         Set(At(Member(REC, 3), K(3)), K(50)), Return(K(0)) >>,
      << << Called("memset"), Op("addl"), Op("leal"), Op("addl"), Op("addl"), Op("imull"),
            Op("leal"), Op("addl"), Op("addl"), To("jmp", 2) >>, << >>, << >> >>)}

Test_Fig5_13 == {
    Expect(TInt, << >>,
      << Set(At(ARR, I), K(30)), Set(At(ARR, K(3)), K(50)),
         Set(At(Member(REC, 3), I), K(60)), Set(At(Member(REC, 3), K(2)), K(80)),
         Return(K(0)) >>,
      << << Op("shll"), Op("leal"), Op("addl"), Op("shll"), Op("leal"), Op("addl"),
            To("jmp", 2) >>, << >>, << >> >>)}

Test_Fig6_1 == {
    Expect(TInt, << >>,
      << Set(B, K(1)), Do1(Call("printf", << STR, B >>)), Return(Plus(A, K(2))) >>,
      << << Op("leal"), Called("printf"), Op("addl"), To("jmp", 2) >>, << >>, << >> >>),
    Expect(TInt, << >>,
      << Set(A, Call("fac", << K(30) >>)), Return(K(0)) >>,
      << << Called("fac"), To("jmp", 2) >>, << >>, << >> >>)}

Test_Fig6_5 == {
    Expect(TVoid, << >>,
      << Set(S1, Plus(A, B)), Set(S2, Plus(C, D)), Set(S3, Plus(Plus(A, B), Plus(C, D))),
         Set(S1, Plus(A, B)), Set(S2, Plus(C, D)) >>,
      << << Op("addl"), Op("addl"), Op("addl"), Op("addl"), Op("addl"), Op("addl"),
            Op("addl") >>, << >> >>),
    Expect(TVoid, << >>,
      << Set(S1, Plus(A, B)), Set(S2, Plus(C, D)), Set(S3, Plus(Plus(A, B), Plus(C, D))) >>,
      << << Op("addl"), Op("addl"), Op("addl"), Op("addl"), Op("addl") >>, << >> >>)}

Test_Fig6_19 == {
    Expect(TInt, << >>,
      << Set(I, LEN), Set(LEN, I), Set(S, I), Return(K(0)) >>,
      << << Op("movsbl"), To("jmp", 2) >>, << >>, << >> >>)}

Test_Fig6_21 == {
    Expect(TVoid, << Parts("arr", << K(10) >>) >>,
      << Set(PTR, Address(A)), Set(PTR2, Address(B)), Set(Star(PTR), Star(PTR2)) >>,
      << << Called("memset"), Op("leal"), Op("leal") >>, << >> >>)}

TestPrograms == UNION {Test_Function_Definition, Test_Static, Test_Function_Call,
    Test_Struct, Test_Assign, Test_BitOr_Assign, Test_Sub_Assign, Test_Div_Assign,
    Test_Binary, Test_Binary_Multiplicative, Test_Binary_Shift, Test_Binary_Add_Sub,
    Test_Binary_Bitwise, Test_Binary_Logical, Test_Binary_Equality, Test_Binary_Relational,
    Test_Conditional, Test_Unary_Inc, Test_Unary_Not, Test_Unary_Comp, Test_Unary_Neg,
    Test_Unary_Sizeof, Test_Unary_Cast, Test_Postfix_Dot, Test_Postfix_Pointer,
    Test_Postfix_Bracket, Test_Const, Test_If, Test_While, Test_Do_While, Test_For,
    Test_Break, Test_Continue, Test_Extern, Test_Fig1_24, Test_Fig1_28, Test_Fig1_31,
    Test_Fig1_32, Test_Fig1_33, Test_Fig1_41, Test_Fig1_43, Test_Fig2_27, Test_Fig2_36,
    Test_Fig4_9, Test_Fig4_18, Test_Fig4_19, Test_Fig4_32, Test_Fig5_1, Test_Fig5_5,
    Test_Fig5_8, Test_Fig5_12, Test_Fig5_13, Test_Fig6_1, Test_Fig6_5, Test_Fig6_19,
    Test_Fig6_21}
=============================================================================
