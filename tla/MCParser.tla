------------------------------ MODULE MCParser ------------------------------
(***************************************************************************)
(* Every operator within every other, casts and sizes of types next to     *)
(* parenthesised expressions, declarators three deep, statements in one    *)
(* another.                                                                *)
(***************************************************************************)
EXTENDS Grammar

MCNames == {"a", "b", "f"}
MCTypeNames == {"T"}
MCLiterals == {"1"}

A == Leaf("id", "a")
B == Leaf("id", "b")
One == Leaf("const", "1")
Specifiers(storage, types, quals) ==
    Tree("specs", "", << Tree("storage", "", storage), Tree("types", "", types), Tree("quals", "", quals) >>)
Word(w) == Leaf("word", w)
IntSpecs == Specifiers(<< >>, << Word("int") >>, << >>)
TSpecs == Specifiers(<< >>, << Leaf("typedef", "T") >>, << >>)
Name(x) == Leaf("name", x)
Ptr(d) == Tree("ptr", "", << d >>)
ConstPtr(d) == Tree("ptr", "const", << d >>)
Arr(d, e) == Tree("array", "", << d, e >>)
Param(specs, d) == Tree("parameter", "", << specs, d >>)
Func(d, params) == Tree("func", "", << d >> \o params)
Type(specs, d) == Tree("type", "", << specs, d >>)

\* Declarators of a name, or of none in a type name.
Declarators1(x) == {Ptr(Name(x)), ConstPtr(Name(x)), Arr(Name(x), One), Func(Name(x), << >>)}
Wider(ds) == {Ptr(d) : d \in ds} \cup {Arr(d, One) : d \in ds}
                 \cup {Func(d, << Param(IntSpecs, Name("")), Param(TSpecs, Ptr(Name("b"))) >>) : d \in ds}
Declarators(x) == {Name(x)} \cup Declarators1(x) \cup Wider(Declarators1(x))
                      \cup Wider(Wider({Name(x)}) )

Casts == {Tree("cast", "", << Type(TSpecs, Name("")), A >>),
          Tree("cast", "", << Type(IntSpecs, Ptr(Name(""))), A >>)}
Sizes == {Tree("sizeof", "", << Type(TSpecs, Name("")) >>), Tree("sizeof", "", << A >>)}
Ops1(x) == {Tree("unary", op, << x >>) : op \in UnaryTokens}
               \cup {Tree("sizeof", "", << x >>), Tree("cast", "", << Type(TSpecs, Name("")), x >>)}
               \cup {Tree("post", "++", << x >>), Tree(".", "b", << x >>), Tree("->", "b", << x >>)}
Ops2(x, y) == {Tree("binary", op, << x, y >>) : op \in DOMAIN Prec}
                  \cup {Tree("assign", op, << x, y >>) : op \in {"=", "<<="}}
                  \cup {Tree(op, "", << x, y >>) : op \in {",", "[]", "call"}}
                  \cup {Tree("?", "", << x, y, B >>), Tree("?", "", << B, x, y >>)}
Simple == Ops1(A) \cup Ops2(A, B) \cup Sizes
Some == {A, Tree("call", "", << A, B, One >>), Tree("call", "", << A >>)} \cup Sizes
            \cup {Tree("unary", "*", << A >>), Tree("binary", "*", << A, B >>)}
Nested == UNION {Ops1(x) : x \in Simple \cup Some}
              \cup UNION {Ops2(x, One) \cup Ops2(One, x) : x \in Simple}
              \cup UNION {Ops2(x, y) : x \in Some, y \in Some}

\* The parser gives comparisons of both kinds one precedence: an equality whose right
\* operand is a relation is left out, for it needs no parentheses.
RECURSIVE Mixes(_)
Mixes(e) == \/ /\ e.op = "binary" /\ e.id \in {"==", "!="}
               /\ e.kids[2].op = "binary" /\ e.kids[2].id \in {"<", ">", "<=", ">="}
            \/ \E i \in DOMAIN e.kids : Mixes(e.kids[i])
Expressions1 == {e \in Simple \cup Nested : ~Mixes(e)}

Do(e) == Tree("expr", "", << e >>)
Block(ss) == Tree("compound", "", ss)
Init2(d) == Tree("init", "", << d >>)
Set(d, e) == Tree("init", "", << d, e >>)
Braces(es) == Tree("braces", "", es)
Decl1(specs, decs) == Tree("declaration", "", << specs >> \o decs)
Void == Specifiers(<< >>, << Word("void") >>, << >>)
Function(ss) == Tree("function", "", << Void, Func(Name("f"), << Param(TSpecs, Name("a")) >>), Block(ss) >>)

If(s) == Tree("if", "", << A, s >>)
IfElse(s, t) == Tree("if", "", << A, s, t >>)
Inner == {Do(A), Do(None), Leaf("break", ""), Leaf("continue", ""), Tree("return", "", << None >>),
          Tree("return", "", << Tree(",", "", << A, B >>) >>), Block(<< >>), Block(<< Do(A), Do(B) >>)}
Around(s) == {If(s), IfElse(s, Do(B)), IfElse(Do(B), s), Tree("while", "", << A, s >>),
              Tree("do", "", << s, A >>), Tree("switch", "", << A, s >>),
              Tree("for", "", << A, B, One, s >>), Tree("for", "", << None, None, None, s >>),
              Tree("case", "", << One, s >>), Tree("default", "", << s >>), Block(<< s, Do(B) >>)}
\* Where an else would go with an if inside, braces are needed.
RECURSIVE Open(_)
Open(s) == \/ s.op = "if" /\ (Len(s.kids) = 2 \/ Open(s.kids[3]))
           \/ s.op \in {"while", "switch", "case", "for", "default"} /\ Open(s.kids[Len(s.kids)])
RECURSIVE Dangling(_)
Dangling(s) == \/ s.op = "if" /\ Len(s.kids) = 3 /\ Open(s.kids[2])
               \/ \E i \in DOMAIN s.kids : Dangling(s.kids[i])
Statements1 == {s \in UNION {Around(s) : s \in Inner \cup UNION {Around(s) : s \in Inner}} : ~Dangling(s)}

\* Specifiers with tags and bodies, names of types in their different parts.
Field(ds) == Decl1(IntSpecs, ds)
Tags == {Leaf("struct", "a"), Tree("struct", "T", << Tree("body", "", << Field(<< Name("a"), Ptr(Name("b")) >>) >>) >>),
         Tree("struct", "", << Tree("body", "", << Decl1(TSpecs, << Arr(Name("T"), One) >>) >>) >>),
         Tree("struct", "a", << Tree("body", "", << >>) >>),
         Tree("struct", "a", << Tree("body", "", << Decl1(Specifiers(<< >>,
             << Tree("struct", "", << Tree("body", "", << Field(<< Name("a") >>) >>) >>) >>, << >>), << >>) >>) >>),
         Leaf("enum", "b"),
         Tree("enum", "", << Tree("body", "", << Leaf("enumerator", "a"), Tree("enumerator", "b", << One >>) >>) >>)}
SpecSets == {Specifiers(storage, types, quals) :
                storage \in {<< >>, << Word("static") >>, << Word("extern") >>, << Word("typedef") >>},
                types \in {<< Word("unsigned"), Word("int") >>, << Leaf("typedef", "T") >>} \cup {<< t >> : t \in Tags},
                quals \in {<< >>, << Word("const") >>}}
Declarations1 == {Decl1(s, << Init2(Name("b")) >>) : s \in SpecSets}
                     \cup {Decl1(s, << Init2(Ptr(Name("T"))), Init2(Name("a")) >>) : s \in SpecSets}
                     \cup {Decl1(s, << >>) : s \in SpecSets}
                     \cup {Decl1(IntSpecs, << Init2(d) >>) : d \in Declarators("a")}
                     \cup {Decl1(TSpecs, << Init2(Name("b")), Init2(d) >>) : d \in Declarators("T")}
                     \cup {Decl1(IntSpecs, << Set(Name("a"), Tree("assign", "=", << A, One >>)), Init2(Name("b")) >>),
                           Decl1(IntSpecs, << Set(Arr(Name("a"), None), Braces(<< One, Braces(<< A, B >>) >>)) >>),
                           Decl1(IntSpecs, << Init2(Func(Name("f"), << Param(IntSpecs, Name("a")), Leaf("...", "") >>)) >>)}
TypeTests == UNION {{Tree("cast", "", << Type(s, d), A >>), Tree("sizeof", "", << Type(s, d) >>)} :
                       s \in {IntSpecs, TSpecs}, d \in Declarators("")}

\* A name that is a type starts a declaration, any other a statement.
Bodies == {<< Do(e) >> : e \in Expressions1 \cup TypeTests} \cup {<< s >> : s \in Statements1}
              \cup {<< d, Do(Tree("call", "", << A, B >>)) >> : d \in Declarations1}
MCUnits == {Tree("unit", "", << Function(b) >>) : b \in Bodies}
               \cup {Tree("unit", "", << d, Function(<< >>), d >>) : d \in Declarations1}
=============================================================================
