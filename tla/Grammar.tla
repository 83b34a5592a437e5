------------------------------- MODULE Grammar -------------------------------
(***************************************************************************)
(* How the grammar of C writes a tree, and a parser that is given what was *)
(* written.  Every operand is put in parentheses, or only those that the   *)
(* grammar asks for; specifiers come in one order or the other.            *)
(***************************************************************************)
EXTENDS Parser

CONSTANT Units          \* the files: trees of declarations and functions

VARIABLES tree,         \* the file
          tokens,       \* its text
          parsed        \* what the parser makes of it: nothing yet, or a tree and a rest

vars == << tree, tokens, parsed >>

\* The nonterminal of an expression: where it may stand without parentheses.
Levels == << {","}, {"="}, {"?"}, {"||"}, {"&&"}, {"|"}, {"^"}, {"&"}, {"==", "!="},
             {"<", ">", "<=", ">="}, {"<<", ">>"}, {"+", "-"}, {"*", "/", "%"}, {"cast"},
             {"unary", "sizeof"}, {"[]", "call", ".", "->", "post"}, {"id", "const"} >>
Sign(e) == IF e.op = "binary" THEN e.id ELSE IF e.op = "assign" THEN "=" ELSE e.op
Level(e) == CHOOSE i \in DOMAIN Levels : Sign(e) \in Levels[i]
Lowest == 1
Assignment == 2
Conditional == 3
CastLevel == 14
UnaryLevel == 15
PostfixLevel == 16

RECURSIVE Expr(_, _, _), Listed(_, _, _), Declarator(_, _), Specs(_, _), Init1(_, _), Decl(_, _),
          Stmt(_, _), Stmts(_, _)

\* An expression where a nonterminal of a level is wanted.
Expr(style, e, level) ==
    LET x(i, l) == Expr(style, e.kids[i], l)
        n == Level(e)
        type(t) == Specs(style, t.kids[1]) \o Declarator(style, t.kids[2])
        text == CASE e.op \in {"id", "const"} -> << e.id >>
                  [] e.op = "," -> x(1, Lowest) \o << "," >> \o x(2, Assignment)
                  [] e.op = "assign" -> x(1, UnaryLevel) \o << e.id >> \o x(2, Assignment)
                  [] e.op = "?" -> x(1, Conditional + 1) \o << "?" >> \o x(2, Lowest)
                                       \o << ":" >> \o x(3, Conditional)
                  [] e.op = "binary" -> x(1, n) \o << e.id >> \o x(2, n + 1)
                  [] e.op = "cast" -> << "(" >> \o type(e.kids[1]) \o << ")" >> \o x(2, CastLevel)
                  [] e.op = "sizeof" ->
                       IF e.kids[1].op = "type"
                       THEN << "sizeof", "(" >> \o type(e.kids[1]) \o << ")" >>
                       ELSE << "sizeof" >> \o x(1, UnaryLevel)
                  [] e.op = "unary" ->
                       << e.id >> \o x(1, IF e.id \in {"++", "--"} THEN UnaryLevel ELSE CastLevel)
                  [] e.op = "post" -> x(1, PostfixLevel) \o << e.id >>
                  [] e.op \in {".", "->"} -> x(1, PostfixLevel) \o << e.op, e.id >>
                  [] e.op = "[]" -> x(1, PostfixLevel) \o << "[" >> \o x(2, Lowest) \o << "]" >>
                  [] e.op = "call" -> x(1, PostfixLevel) \o << "(" >>
                                          \o Listed(style, "argument", Tail(e.kids)) \o << ")" >>
    IN  IF n < level \/ style.full THEN << "(" >> \o text \o << ")" >> ELSE text

\* The initialiser of a member, of braces, of an enumerator.
Init1(style, e) ==
    IF e.op # "braces" THEN Expr(style, e, Assignment)
    ELSE << "{" >> \o Listed(style, "initializer", e.kids)
             \o (IF style.full THEN << "," >> ELSE << >>) \o << "}" >>

Listed(style, kind, items) ==
    LET i == Head(items)
        item == CASE kind \in {"argument"} -> Expr(style, i, Assignment)
                  [] kind = "initializer" -> Init1(style, i)
                  [] kind = "field" -> Declarator(style, i)
                  [] kind = "enumerator" ->
                       << i.id >> \o (IF i.kids = << >> THEN << >>
                                      ELSE << "=" >> \o Expr(style, i.kids[1], Conditional))
                  [] kind = "parameter" ->
                       IF i.op = "..." THEN << "..." >>
                       ELSE Specs(style, i.kids[1]) \o Declarator(style, i.kids[2])
                  [] kind = "declarator" ->
                       Declarator(style, i.kids[1])
                           \o (IF Len(i.kids) = 1 THEN << >> ELSE << "=" >> \o Init1(style, i.kids[2]))
    IN  CASE items = << >> -> << >>
          [] Len(items) = 1 -> item
          [] OTHER -> item \o << "," >> \o Listed(style, kind, Tail(items))

\* What a pointer is part of binds tighter than its star.
Declarator(style, d) ==
    LET k == Declarator(style, d.kids[1])
        direct == IF d.kids[1].op = "ptr" \/ (style.full /\ d.kids[1].id \in Names)
                  THEN << "(" >> \o k \o << ")" >> ELSE k
    IN  CASE d.op = "name" -> IF d.id = "" THEN << >> ELSE << d.id >>
          [] d.op = "ptr" -> << "*" >> \o (IF d.id = "" THEN << >> ELSE << d.id >>) \o k
          [] d.op = "func" -> direct \o << "(" >> \o Listed(style, "parameter", Tail(d.kids)) \o << ")" >>
          [] d.op = "array" -> direct \o << "[" >>
                                   \o (IF d.kids[2] = None THEN << >> ELSE Expr(style, d.kids[2], Conditional))
                                   \o << "]" >>

Specs(style, specs) ==
    LET words(i) == [j \in DOMAIN specs.kids[i].kids |-> specs.kids[i].kids[j].id]
        types == specs.kids[2].kids
        body == types[1].kids[1].kids
        type == CASE types # << >> /\ types[1].op \in {"struct", "enum"} ->
                       << types[1].op >>
                       \o (IF types[1].id = "" THEN << >> ELSE << types[1].id >>)
                       \o (IF types[1].kids = << >> THEN << >>
                           ELSE << "{" >> \o (IF types[1].op = "struct" THEN Stmts(style, body)
                                              ELSE Listed(style, "enumerator", body)) \o << "}" >>)
                  [] OTHER -> words(2)
    IN  IF style.full THEN words(3) \o words(1) \o type ELSE words(1) \o type \o words(3)

\* A declaration; the declarators of a structure's have no initialiser.
Decl(style, d) ==
    LET decs == Tail(d.kids)
        field == decs # << >> /\ decs[1].op # "init"
    IN  Specs(style, d.kids[1]) \o Listed(style, IF field THEN "field" ELSE "declarator", decs) \o << ";" >>

Stmt(style, s) ==
    LET k == s.kids
        e(i) == IF k[i] = None THEN << >> ELSE Expr(style, k[i], Lowest)
        body(i) == Stmt(style, k[i])
    IN  CASE s.op = "declaration" -> Decl(style, s)
          [] s.op = "function" -> Specs(style, k[1]) \o Declarator(style, k[2]) \o body(3)
          [] s.op = "expr" -> e(1) \o << ";" >>
          [] s.op = "return" -> << "return" >> \o e(1) \o << ";" >>
          [] s.op \in {"break", "continue"} -> << s.op, ";" >>
          [] s.op = "compound" -> << "{" >> \o Stmts(style, k) \o << "}" >>
          [] s.op = "if" -> << "if", "(" >> \o e(1) \o << ")" >> \o body(2)
                                \o (IF Len(k) = 2 THEN << >> ELSE << "else" >> \o body(3))
          [] s.op \in {"while", "switch"} -> << s.op, "(" >> \o e(1) \o << ")" >> \o body(2)
          [] s.op = "do" -> << "do" >> \o body(1) \o << "while", "(" >> \o e(2) \o << ")", ";" >>
          [] s.op = "for" -> << "for", "(" >> \o e(1) \o << ";" >> \o e(2) \o << ";" >>
                                 \o e(3) \o << ")" >> \o body(4)
          [] s.op = "case" -> << "case" >> \o Expr(style, k[1], Conditional) \o << ":" >> \o body(2)
          [] s.op = "default" -> << "default", ":" >> \o body(1)
Stmts(style, ss) == IF ss = << >> THEN << >> ELSE Stmt(style, Head(ss)) \o Stmts(style, Tail(ss))

-----------------------------------------------------------------------------
Nothing == << >>
Init == tree \in Units /\ tokens = << >> /\ parsed = Nothing

Write ==
    /\ tokens = << >>
    /\ \E full \in BOOLEAN : tokens' = Stmts([full |-> full], tree.kids)
    /\ UNCHANGED << tree, parsed >>

ParseFile ==
    /\ tokens # << >> /\ parsed = Nothing
    /\ LET r == ParseTranslationUnit(Stream(tokens), << >>)
       IN  parsed' = << r.t, r.s >>
    /\ UNCHANGED << tree, tokens >>

Next == Write \/ ParseFile
Spec == Init /\ [][Next]_vars

(* What the grammar writes for a tree is parsed into that tree, down to the  *)
(* last token: operators bind as they must, a parenthesis is taken for a     *)
(* cast exactly if it is one, an else goes with the nearest if, a declarator *)
(* is read inside out, and no token looked at ahead is lost.                 *)
ParsesBack == parsed # Nothing => parsed = << tree, Stream(<< >>) >>
=============================================================================
