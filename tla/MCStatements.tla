---------------------------- MODULE MCStatements ----------------------------
(***************************************************************************)
(* Loops, conditions, jumps and switches in one another, driven by a       *)
(* function whose answers are arbitrary; and the functions of the test     *)
(* suite, which are compiled but not run.                                  *)
(***************************************************************************)
EXTENDS UclTests

MCBits == [size \in {1, 2, 4} |-> CASE size = 1 -> 3 [] size = 2 -> 4 [] size = 4 -> 6]
Pair == Struct(<< TChar, TInt >>)
MCVarType == [i |-> TInt, j |-> TInt, ch |-> TChar, row |-> ArrayOf(2, TInt), pr |-> Pair]
                 @@ TestVarType
MCVarBase == [j |-> 44, ch |-> 48, i |-> 20, row |-> 12, pr |-> 4]
\* They are where a function lays out two parameters and three locals round this place.
EBP == 24
ASSUME FrameAssumption ==
    LET param == ParameterOffsets(<< 4, 1 >>)
        local == LocalOffsets(<< 4, 8, 8 >>)
    IN  MCVarBase = [j |-> EBP + param[1], ch |-> EBP + param[2],
                     i |-> EBP + local[1], row |-> EBP + local[2], pr |-> EBP + local[3]]
MCFunType == [ask |-> [result |-> TInt, params |-> << >>, more |-> FALSE],
              note |-> [result |-> TVoid, params |-> << TInt >>, more |-> FALSE]]
                 @@ TestFunType
MCMemories ==
    {[b \in Addresses |-> CASE b = MCVarBase.i -> x [] b \in {MCVarBase.j, MCVarBase.ch} -> 2 [] OTHER -> -1]
       : x \in {0, 1}}
MCAnswers == UNION {[1 .. n -> {0, 1, 2}] : n \in 0 .. 3}
MCFuel == 6

J == Id("j")
Ask == Call("ask", << >>)
Note(n) == ExprStmt(Call("note", << K(n) >>))
Count == ExprStmt(Unary("x--", J))
Both(a, b) == Compound(<< a, b >>)

Conditions == {Ask, I, Unary("!", Ask), Binary("<", I, J), Binary("&&", I, Ask),
               Binary("||", Unary("!", Ask), Binary("==", J, Ask)), Unary("x--", J),
               Unary("!", Binary("&&", Ask, Unary("!", Ask))), Id("ch"),
               Conditional(Ask, I, Ask)}
Jumps == {Break, Continue, Return(J), Note(3)}

Ifs == {If(c, s) : c \in Conditions, s \in Jumps}
           \cup {IfElse(c, s, Note(4)) : c \in Conditions, s \in {Note(3), Return(I), Break}}
           \cup {IfElse(Ask, If(c, Note(3)), Note(4)) : c \in {I, Ask}}
Bodies == {Both(If(Ask, s), Note(1)) : s \in Jumps} \cup {Both(Note(1), s) : s \in Jumps} \cup {Empty}
Loop(c, s) == {While(c, s), Do(s, c), For(<< >>, << c >>, << Unary("x++", I) >>, s)}
Forever(s) == {While(K(1), s), For(<< Binary("=", J, K(0)) >>, << >>, << >>, s), Do(s, K(0))}
Loops == UNION {Loop(c, s) : c \in Conditions, s \in Bodies}
             \cup UNION {Forever(Both(If(Ask, s), Note(2))) : s \in {Break, Return(I)}}
             \cup UNION {Loop(Ask, Both(t, Note(2))) : t \in UNION {Loop(Unary("x--", J), s) : s \in Bodies}}

\* Labels in and out of order, falling through, doubled, and where none may be.
Labelled(s, t, u) ==
    {Compound(<< Case(2, s), Case(0, t), Note(5) >>),
     Compound(<< Case(1, Case(0, s)), t, Default(u), Case(2, Note(5)) >>),
     Compound(<< Note(5), Case(1, s), t, Case(1, u) >>),
     Compound(<< Default(s), t, Default(u) >>), Compound(<< Default(s), t >>),
     Compound(<< Case(0, s), Both(t, Case(2, u)) >>), Note(5), Compound(<< >>)}
Switches == {Switch(c, b) : c \in {Ask, Id("ch")},
                            b \in UNION {Labelled(s, t, u) : s \in {Note(1), Break},
                                                            t \in {Break, Note(2), If(Ask, Break)},
                                                            u \in {Return(I), Note(4)}}}
Mixed == UNION {Loop(c, Both(Switch(Ask, b), Note(6))) :
                    c \in {Ask, Unary("x--", J)},
                    b \in UNION {Labelled(s, Break, u) : s \in {Continue, Note(1)}, u \in {Break, Return(J)}}}
             \cup {Switch(Ask, Both(Case(1, While(Ask, s)), Case(0, Note(1)))) : s \in Jumps}
             \cup {Switch(Ask, Both(Case(1, Switch(Ask, Both(Case(1, Break), Default(Note(2))))), s)) : s \in Jumps}

\* Locals with all, some or none of their parts initialised.
Locals == {Block(<< i >>, << Note(1) >>) :
             i \in {Local("row", << Part(0, TInt, I) >>), Local("row", << Part(4, TInt, Ask) >>),
                    Local("row", << Part(0, TInt, Id("ch")), Part(4, TInt, Ask) >>),
                    Local("pr", << Part(0, TChar, I) >>), Local("ch", << Part(0, TChar, Ask) >>),
                    Local("pr", << Part(0, TChar, Ask), Part(4, TInt, Id("ch")) >>)}}

Stray == Jumps \cup {Case(0, Empty), Default(Empty), Switch(Ask, Both(Case(1, Continue), Empty)), ReturnNothing}
Bodies1 == Ifs \cup Loops \cup Switches \cup Mixed \cup Locals \cup Stray
MCPrograms == {Program(Both(s, Note(7)), TInt) : s \in Bodies1} \cup TestPrograms
=============================================================================
