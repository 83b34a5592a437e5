---------------------------- MODULE MCExpressions ----------------------------
(***************************************************************************)
(* Every operator on operands of every kind of type, nested two deep, with *)
(* words of 3, 4 and 7 bits and inputs at their limits.                    *)
(***************************************************************************)
EXTENDS Compilation

MCBits == [size \in {1, 2, 4} |-> CASE size = 1 -> 3 [] size = 2 -> 4 [] size = 4 -> 7]

Pair == Struct(<< TChar, TInt >>)
Row == ArrayOf(2, TInt)
Tail2 == Struct(<< TChar, Row >>)
MCVarType == [c |-> TChar, k |-> TUChar, h |-> TShort, i |-> TInt, j |-> TInt, u |-> TUInt,
              p |-> PointerTo(TInt), a |-> Row, s |-> Pair, q |-> PointerTo(Pair),
              m |-> ArrayOf(2, Row), t |-> Pair, r |-> Tail2]
MCVarBase == [c |-> 0, k |-> 1, h |-> 2, i |-> 4, j |-> 8, u |-> 12, p |-> 16, a |-> 20,
              s |-> 28, q |-> 36, m |-> 40, t |-> 56, r |-> 64]
MCFunType == [f |-> [result |-> TInt, params |-> << TChar, TInt >>, more |-> FALSE],
              g |-> [result |-> TVoid, params |-> << TUInt >>, more |-> FALSE]]

\* x and y in all the variables, as far as they fit; the pointers into a and to s.
Memory(x, y) ==
    [b \in Addresses |->
        CASE b = MCVarBase["p"] -> MCVarBase["a"]
          [] b = MCVarBase["q"] -> MCVarBase["s"]
          [] b \notin {MCVarBase["p"], MCVarBase["q"]} ->
               Wrap(CellCode[b], IF b \in {0, 4, 24, 28, 44, 48, 60, 68} THEN x ELSE y)]
Inputs == {-64, -1, 0, 1, 63}
MCMemories == {Memory(x, y) : x \in Inputs, y \in Inputs}
MCAnswers == {<< >>, << 1 >>, << 1, -2 >>}

K(n) == Constant(TInt, n)
Word(n) == Constant(TUInt, n)
At(x, y) == Binary("[]", x, y)
Star(x) == Unary("*x", x)
Plus(x, y) == Binary("+", x, y)
C == Id("c")
I == Id("i")
J == Id("j")
U == Id("u")
P == Id("p")
A == Id("a")
VoidP == CastTo(PointerTo(TVoid), P)
M == Id("m")
Ints == {C, Id("k"), I, U}
Vars == Ints \cup {Id("h"), J}
Consts == {K(0), K(1), K(4), K(-3), Word(2)}

\* Objects with a place of their own, those found by adding to an address, the others.
Fixed == {At(A, K(1)), Member(Id("s"), 1), Member(Id("s"), 2), At(At(M, K(1)), K(1)),
          At(Member(Id("r"), 2), K(1)), Star(Unary("&x", I))}
Reached == {At(P, K(1)), At(P, J), Star(Plus(P, I))}
Indexed == {At(A, I), At(At(M, I), J), At(At(M, K(1)), I), At(At(M, I), K(1)),
            At(Member(Id("r"), 2), I), Star(Plus(A, I))}
ByPointer == {Star(P), PtrMember(Id("q"), 1), PtrMember(Id("q"), 2), Star(Unary("x++", P))}
Objects == Vars \cup Fixed \cup Reached \cup Indexed \cup ByPointer

\* Every operator on variables and constants; the operators on what they give.
Flat == {Binary(op, x, y) : op \in BinaryOps, x \in Vars \cup Consts, y \in Vars \cup Consts}
Inner == {Binary(op, x, y) : op \in {"+", "-", "*", "&&", "<", "==", ">>"},
                             x \in {C, U}, y \in {I, K(1)}}
             \cup {Unary(op, I) : op \in {"-x", "~", "!"}}
Nested == {Binary(op, x, y) : op \in {"+", "-", "/", "&", "||", ">=", "<<"},
                              x \in Inner, y \in {Id("h"), U}}
              \cup {Binary(op, y, x) : op \in {"-", "&&", "!=", "*"},
                                       x \in Inner, y \in {Id("k"), I}}
Unaries == {Unary(op, x) : op \in {"-x", "~", "+x", "!"}, x \in (Vars \ {U}) \cup Fixed}
               \cup {Unary("!", Unary("!", x)) : x \in Ints} \cup {Unary("!", x) : x \in Inner}
Casts == {CastTo(ty, x) : ty \in {TChar, TUChar, TShort, TInt, TUInt}, x \in Vars \cup Inner}
Conditions == {Conditional(x, y, z) : x \in Inner \cup {C}, y \in {C, U, K(2)}, z \in {I, K(-1)}}
Sizes == {Unary("sizeof", x) : x \in {A, M, Id("s"), C, Star(P)}}
Calls == {Call("f", << x, y >>) : x \in {C, U, K(9)}, y \in {Id("k"), I}}
             \cup {Call("f", << C >>), Call("f", << C, I, J >>), Call("f", << >>)}
Pointers == {Plus(P, x) : x \in {I, C, K(1)}}
                \cup {Plus(I, P), Binary("-", P, K(0)), A, Plus(A, K(1))}
                \cup {Conditional(C, x, y) : x \in {P, A, VoidP}, y \in {P, Plus(A, K(1)), K(0), VoidP}}
                \cup {Conditional(C, K(0), P)}
                \cup {Unary("&x", x) : x \in {I, At(A, I), At(A, K(1)), Star(P), At(P, J)}}
Tests == {Binary(op, x, y) : op \in {"==", "!=", "<", ">=", "-"}, x \in {P, Plus(P, K(1))},
                             y \in {A, P, Unary("&x", At(A, K(1)))}}
             \cup {Unary("!", P), Binary("==", P, K(0)), Binary("&&", P, I)}
Commas == {Binary(",", x, y) : x \in {C, I}, y \in {J, U, Plus(C, I)}}

(* Five forms are left out, for the code does not give them their value: the *)
(* operand a comma drops is never evaluated, so that here it has no effect.  *)
\* A constant divided by a constant zero is divided in the compiler, which stops.
Stops(e) == e.op \in {"/", "%"} /\ IsConst(e.kids[1]) /\ e.kids[2] = K(0)
\* A signed number divided by a power of two is shifted: it rounds down.
Halves(e) == e.op \in {"/", "/="} /\ e.kids[2] = K(4) /\ e.kids[1] # U
\* A constant is no operand of the comparison with zero.
TestsConstant(e) == \/ e.op = "&&" /\ IsConst(e.kids[1]) /\ ~IsConst(e.kids[2])
                    \/ e.op = "?" /\ e.kids[1].op = "&&" /\ IsConst(e.kids[1].kids[2])
\* The value of a store through an address is the address: such stores are statements below.
Values == {e \in Flat \cup Nested \cup Unaries \cup Casts \cup Conditions \cup Sizes \cup Calls
                     \cup Tests \cup Commas \cup Objects : ~(Stops(e) \/ Halves(e) \/ TestsConstant(e))}

\* Stores, among them those that combine an object with a value, where the code can.
Assignments(objects) == {Binary("=", x, y) : x \in objects, y \in {C, U, K(5), J, At(A, I)}}
Compounds == {Binary(op, x, y) : op \in CompoundOps, x \in Vars, y \in Ints \cup {K(4), K(-1)}}
                 \cup {Binary(op, P, y) : op \in {"+=", "-="}, y \in {I, K(1)}}
CompoundStores == {Binary(op, x, y) : op \in {"+=", "<<=", "&="}, x \in Reached \cup Indexed,
                                      y \in {C, K(1)}}
Increments(objects) == {Unary(op, x) : op \in IncrementOps, x \in objects}
Stores == {e \in Assignments(Vars \cup Fixed) \cup Compounds \cup Increments(Vars \cup {P})
                     \cup {Binary("=", P, x) : x \in Pointers} : ~Halves(e)}
Statements1 == Assignments(Reached \cup Indexed \cup ByPointer)
                   \cup CompoundStores \cup Increments(Reached)
                   \cup {Binary("=", Id("s"), Id("t")), Binary("=", Star(Id("q")), Id("t"))}
                   \cup {Call("g", << x >>) : x \in Vars} \cup {CastTo(TVoid, I)}

Returned(e) == Program(Return(e), TInt)
Executed(e) == Program(ExprStmt(e), TVoid)
MCPrograms == {Returned(e) : e \in Values \cup Stores}
                  \cup {Executed(e) : e \in Stores \cup Statements1}
HalvingPrograms == {Returned(Binary("/", x, K(4))) : x \in Vars}
MCFuel == 1
=============================================================================
