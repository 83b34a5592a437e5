--------------------------- MODULE MCDeclarations ---------------------------
(***************************************************************************)
(* Files of one, two or three declarations: every way to write the values  *)
(* of some types, every declarator three deep, every spelling of the       *)
(* specifiers, declarations of one name that agree or do not, and data     *)
(* whose alignments and strings follow one another.                        *)
(***************************************************************************)
EXTENDS CData

MCBits == [size \in {1, 2, 4} |-> CASE size = 1 -> 8 [] size = 2 -> 16 [] size = 4 -> 24]
Pair == Struct(<< TChar, TInt >>)
MCVarType == [i |-> TInt, a |-> ArrayOf(3, TInt), s |-> Pair, m |-> ArrayOf(2, ArrayOf(2, TInt))]
MCFunType == [f |-> [result |-> TInt, params |-> << >>, more |-> FALSE]]
MCObject == "i"
MCText == [ab |-> << 97, 98, 0 >>, c |-> << 99, 0 >>]

Words1(word) == Specifiers(<< word >>, TVoid)
Typed(ty) == Specifiers(<< "type" >>, ty)
K(n) == Constant(TInt, n)
Nothing == Meaning(TRUE, 0, {})

Initialised(id, ty, items, legal, values) ==
    Declaration(id, "none", Typed(ty), Name, items, Meaning(legal, SizeOf(ty), values))
Before == Initialised("x", TChar, << Expr(K(1)) >>, TRUE, {Value(0, 1, "", 1)})

-----------------------------------------------------------------------------
(* Initialisers: some or all of the members, with or without inner braces. *)

Strings == {ArrayOf(2, TChar), ArrayOf(3, TChar), ArrayOf(4, TChar)}
Aggregates == Strings \cup
    {Pair, ArrayOf(2, Pair), ArrayOf(2, ArrayOf(2, TShort)),
     Struct(<< TShort, ArrayOf(3, TChar), TInt >>), Struct(<< Pair, TChar >>),
     Struct(<< TChar, ArrayOf(2, TInt) >>), Struct(<< PointerTo(TChar), PointerTo(TInt), TUShort >>),
     Struct(<< TChar, Anonymous(Struct(<< TInt, TShort >>)), TChar >>)}
Whole(ty) ==
    IF IsScalar(ty) THEN Writings(ty, 0) \cup {InBraces(w) : w \in Writings(ty, 0)}
    ELSE {InBraces(l) : l \in Lists(ty, 0, 1)} \cup
         IF ty \in Strings THEN {StringWriting(ty, 0, "ab"), InBraces(StringWriting(ty, 0, "ab"))} ELSE {}
Scalars == {TChar, TUShort, TInt, PointerTo(TChar), PointerTo(TInt)}
Initialisers ==
    UNION {{<< Before, Initialised("v", ty, w.items, TRUE, w.values) >> : w \in Whole(ty)}
             : ty \in Aggregates \cup Scalars}

\* The length is the number of elements that are given a value, in part or in full.
Measured(n, base) ==
    {w \in Whole(ArrayOf(n, base)) : \E v \in w.values : v.at >= (n - 1) * SizeOf(base)}
Open(base, n, w) ==
    << Before, Declaration("v", "none", Typed(base), ArrayDeclarator(Name, 0), w.items,
                           Meaning(TRUE, n * SizeOf(base), w.values)) >>
OpenArrays ==
    UNION {{Open(base, n, w) : w \in Measured(n, base)} : n \in 1 .. 3, base \in {TInt, TShort}}
    \cup UNION {{Open(base, 2, w) : w \in Measured(2, base)} : base \in {Pair, ArrayOf(2, TShort)}}
    \cup {Open(TChar, 3, w) : w \in {StringWriting(ArrayOf(3, TChar), 0, "ab"),
                                     InBraces(StringWriting(ArrayOf(3, TChar), 0, "ab"))}}

\* Constants converted to the type of the variable.
Number(ty, e, n) == Initialised("v", ty, << Expr(e) >>, TRUE, {v \in {Value(0, SizeOf(ty), "", n)} : n # 0})
Numbers == {Number(TChar, K(300), 44), Number(TUChar, K(-1), 255), Number(TShort, K(-2), 2 ^ 16 - 2),
            Number(TInt, Binary("-", K(2), K(5)), 2 ^ 24 - 3), Number(TUInt, Unary("-x", K(1)), 2 ^ 24 - 1),
            Number(TInt, Unary("sizeof", Id("s")), 8), Number(TInt, K(0), 0),
            Number(TUChar, CastTo(TChar, K(7)), 7), Number(TEnum, K(3), 3),
            Number(PointerTo(TInt), K(0), 0), Number(TInt, Binary("==", K(2), K(2)), 1)}

\* Addresses: what is added is counted in elements, and must be known.
Address(ty, e, sym, n) == Initialised("v", PointerTo(ty), << Expr(e) >>, TRUE, {Value(0, 4, sym, n)})
Row(i) == Binary("[]", Id("m"), K(i))
Addresses ==
    {Address(TInt, Id("a"), "a", 0), Address(TInt, Unary("&x", Id("i")), "i", 0),
     Address(TInt, Unary("&x", Binary("[]", Id("a"), K(1))), "a", 4),
     Address(TInt, Binary("+", Id("a"), K(2)), "a", 8),
     Address(TInt, Binary("+", K(1), Id("a")), "a", 4),
     Address(TInt, Binary("+", Binary("+", Id("a"), K(1)), K(2)), "a", 12),
     Address(TInt, Unary("&x", Binary("[]", Row(1), K(1))), "m", 12),
     Address(TInt, Row(1), "m", 8), Address(TInt, Unary("&x", Member(Id("s"), 2)), "s", 4),
     Address(TChar, Unary("&x", Member(Id("s"), 1)), "s", 0),
     Address(Pair, Unary("&x", Id("s")), "s", 0)}
NoConstants ==
    {Initialised("v", TInt, << Expr(Id("i")) >>, FALSE, {}),
     Initialised("v", TInt, << Expr(Binary("+", Id("i"), K(1))) >>, FALSE, {}),
     Initialised("v", PointerTo(TInt), << Expr(Binary("+", Id("a"), Id("i"))) >>, FALSE, {}),
     Initialised("v", PointerTo(TInt), << Expr(Unary("&x", Binary("[]", Id("a"), Id("i")))) >>, FALSE, {}),
     Initialised("v", ArrayOf(2, TInt), << Braces(<< Expr(K(1)), Expr(Id("i")) >>) >>, FALSE, {}),
     Initialised("v", ArrayOf(2, TInt), << Expr(K(1)) >>, FALSE, {}),
     Initialised("v", ArrayOf(2, TInt), << Expr(Str("ab")) >>, FALSE, {}),
     Initialised("v", Pair, << Expr(K(1)) >>, FALSE, {}),
     Initialised("v", TInt, << Expr(Id("s")) >>, FALSE, {})}

-----------------------------------------------------------------------------
(* Types. *)

ParameterLists ==
    {<< >>, NoParameters, << << Words1("int"), PointerDeclarator(Name) >> >>,
     << << Words1("char"), Name >>, << Words1("int"), ArrayDeclarator(PointerDeclarator(Name), 2) >> >>,
     << << Words1("int"), FunctionDeclarator(Name, << << Words1("char"), Name >> >>, FALSE) >> >>,
     << << Words1("int"), PointerDeclarator(ArrayDeclarator(Name, 2)) >> >>}
Round(dec) == {PointerDeclarator(dec), ArrayDeclarator(dec, 2), ArrayDeclarator(dec, 0), ArrayDeclarator(dec, -1),
               FunctionDeclarator(dec, << << Words1("char"), Name >> >>, TRUE)}
                 \cup {FunctionDeclarator(dec, ps, FALSE) : ps \in ParameterLists}
RoundAll(decs) == UNION {Round(dec) : dec \in decs}
Deep == {Name} \cup Round(Name) \cup RoundAll(Round(Name))
Deeper == RoundAll(RoundAll({PointerDeclarator(Name), ArrayDeclarator(Name, 2), FunctionDeclarator(Name, << >>, FALSE)}))
External(specs, dec) == << Declaration("v", "extern", specs, dec, << >>, Nothing) >>
\* Structures of one, two or three declarations of members.
Inner == StructSpecifier(<< << Words1("char"), << Name >> >>, << Words1("int"), << Name, ArrayDeclarator(Name, 2) >> >> >>)
MemberDeclarations ==
    {<< Words1("int"), << Name >> >>, << Words1("char"), << Name, PointerDeclarator(Name) >> >>,
     << Words1("short"), << ArrayDeclarator(Name, 2), ArrayDeclarator(Name, 0) >> >>,
     << Words1("char"), << ArrayDeclarator(Name, 0) >> >>,
     << Words1("int"), << FunctionDeclarator(Name, << >>, FALSE) >> >>,
     << Words1("int"), << FunctionDeclarator(PointerDeclarator(Name), << >>, FALSE) >> >>,
     << Typed(FunctionType(TInt, << >>, FALSE)), << Name >> >>,
     << Specifiers(<< "unsigned", "signed" >>, TVoid), << Name >> >>,
     << Inner, << >> >>, << Inner, << Name >> >>, << Inner, << ArrayDeclarator(Name, 2) >> >>}
\* The code does not report an unnamed structure behind an array without a length.
IsOpen(d) == d[2] # << >> /\ Last(d[2]) = ArrayDeclarator(Name, 0)
Reported(ds) == \A i, j \in DOMAIN ds : i < j /\ IsOpen(ds[i]) => ds[j] # << Inner, << >> >>
WithMembers(ds, dec) == IF Reported(ds) THEN {External(StructSpecifier(ds), dec)} ELSE {}
Structures ==
    UNION {WithMembers(ds, dec) : dec \in {Name, ArrayDeclarator(PointerDeclarator(Name), 2)},
               ds \in UNION {[1 .. n -> MemberDeclarations] : n \in 1 .. 2}}
      \cup UNION {WithMembers(<< << Words1("char"), << Name >> >>, d, e >>, Name) :
                     d \in MemberDeclarations, e \in MemberDeclarations \cup {<< Words1("int"), << >> >>}}

\* void and more: only where void comes first does the code report it.
VoidAndMore ==
    {FunctionDeclarator(dec, Append(NoParameters, << Words1("int"), Name >>), more) :
         dec \in {Name, PointerDeclarator(Name)}, more \in BOOLEAN}
Declared == {External(Words1("int"), dec) : dec \in Deep \cup Deeper \cup VoidAndMore}
              \cup {External(Typed(ty), dec) : dec \in Deep,
                        ty \in {ArrayOf(2, TInt), PointerTo(TChar), FunctionType(TInt, << TInt >>, FALSE)}}
Spelled == {External(Specifiers(words, TVoid), dec) :
              words \in UNION {Spellings(name) : name \in DOMAIN TypeOfWords}
                          \cup Orders(<< "signed", "unsigned", "int" >>) \cup {<< "unsigned", "unsigned" >>},
              dec \in {Name, PointerDeclarator(Name)}}
             \cup {External(Specifiers(words, Pair), Name) : words \in Orders(<< "unsigned", "type" >>)}

-----------------------------------------------------------------------------
(* One name declared twice; data after data; one file after another. *)

Plain(sclass, specs, dec, size) == Declaration("v", sclass, specs, dec, << >>, Meaning(TRUE, size, {}))
WithValue(sclass, n) ==
    Declaration("v", sclass, Words1("int"), Name, << Expr(K(n)) >>, Meaning(TRUE, 4, {Value(0, 4, "", n)}))
OneName == {Plain(sclass, Words1("int"), Name, 4) : sclass \in {"none", "extern", "static"}}
             \cup {WithValue(sclass, 5) : sclass \in {"none", "static"}}
             \cup {Plain("none", Words1("char"), Name, 1), Plain("extern", Words1("int"), ArrayDeclarator(Name, 2), 8),
                   Plain("none", Words1("int"), ArrayDeclarator(Name, 2), 8)}
Repeated == {<< d, e >> : d \in OneName, e \in OneName}
              \cup {<< d, e, f >> : d \in OneName, e \in OneName, f \in {WithValue("none", 6), Plain("extern", Words1("int"), Name, 4)}}

Datum(id, ty, items, values) == Initialised(id, ty, items, TRUE, values)
Data(id) ==
    {Datum(id, TChar, << Expr(K(3)) >>, {Value(0, 1, "", 3)}),
     Datum(id, TShort, << Expr(K(3)) >>, {Value(0, 2, "", 3)}),
     Datum(id, TInt, << Expr(K(3)) >>, {Value(0, 4, "", 3)}),
     Datum(id, ArrayOf(3, TChar), << Braces(<< Expr(K(3)) >>) >>, {Value(0, 1, "", 3)}),
     Datum(id, PointerTo(TChar), << Expr(Str("c")) >>, {Value(0, 4, "c", 0)}),
     Datum(id, Struct(<< TInt, TChar >>), << Braces(<< Expr(K(3)), Expr(K(4)) >>) >>,
           {Value(0, 4, "", 3), Value(4, 1, "", 4)}),
     Declaration(id, "none", Typed(TInt), Name, << >>, Meaning(TRUE, 4, {}))}
Aligned3 == {<< d, e, f >> : d \in Data("d"), e \in Data("e"), f \in Data("f")}
TwoFiles == {<< << d >>, << e, f >> >> : d \in Data("d"), e \in Data("e"), f \in Data("d")}

MCCompilations ==
    {<< file >> : file \in Initialisers \cup OpenArrays \cup Declared \cup Structures \cup Spelled \cup Repeated \cup Aligned3
                             \cup {<< Before, d >> : d \in Numbers \cup Addresses \cup NoConstants}}
      \cup TwoFiles
=============================================================================
