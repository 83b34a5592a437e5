------------------------------- MODULE Parser -------------------------------
(***************************************************************************)
(* The recursive descent of expr.c, stmt.c and decl.c: a sequence of       *)
(* tokens becomes a tree, with one token of lookahead and, after a left    *)
(* parenthesis, one more that is given back.  Which names are types is     *)
(* fixed here; how it changes is the subject of Typedefs.                  *)
(***************************************************************************)
EXTENDS Integers, Sequences

CONSTANTS Names,        \* identifiers that are no types
          TypeNames,    \* identifiers declared as typedefs
          Literals      \* numbers and strings

(* A tree: what it is, the token it carries, and what it is made of. *)
Tree(op, id, kids) == [op |-> op, id |-> id, kids |-> kids]
Leaf(op, id) == Tree(op, id, << >>)
None == Leaf("none", "")
Constant0 == Leaf("const", "0")

Identifiers == Names \cup TypeNames
StorageClasses == {"extern", "auto", "static", "typedef"}
TypeWords == {"void", "char", "int", "short", "unsigned", "signed"}
Qualifiers == {"const", "volatile"}
Keywords == StorageClasses \cup TypeWords \cup Qualifiers \cup {"struct", "enum"}
FirstDeclaration == (Keywords \ {"volatile"}) \cup Identifiers
\* Mutant of IsTypeName: any identifier will do.
IsTypeNameOrName(tok) == tok \in Identifiers \cup Keywords
IsTypeName(tok) == tok \in TypeNames \cup Keywords

AssignTokens == {"=", "|=", "^=", "&=", "<<=", ">>=", "+=", "-=", "*=", "/=", "%="}
UnaryTokens == {"--", "++", "&", "*", "+", "-", "~", "!"}
\* The precedence of a binary operator: comparisons of both kinds share one.
Ranks == << {"||"}, {"&&"}, {"|"}, {"^"}, {"&"}, {"==", "!=", ">", "<", ">=", "<="},
            {"<<", ">>"}, {"+", "-"}, {"*", "/", "%"} >>
Prec == [op \in UNION {Ranks[i] : i \in DOMAIN Ranks} |-> CHOOSE i \in DOMAIN Ranks : op \in Ranks[i]]
IsBinaryOP(tok) == tok \in DOMAIN Prec

(* What is left of the tokens, and whether all that were expected came. *)
Stream(toks) == [toks |-> toks, ok |-> TRUE]
CurrentToken(s) == IF s.toks = << >> THEN "END" ELSE Head(s.toks)
NextToken(s) == IF s.toks = << >> THEN s ELSE [s EXCEPT !.toks = Tail(@)]
\* The token after the current one, seen between BeginPeekToken and EndPeekToken.
Peeked(s) == CurrentToken(NextToken(s))
Expect(tok, s) == IF CurrentToken(s) = tok THEN NextToken(s) ELSE [s EXCEPT !.ok = FALSE]
Failed(s) == [s EXCEPT !.ok = FALSE]
Parsed(t, s) == [t |-> t, s |-> s]

(* The functions call one another: each is one part of Parse, and what it *)
(* takes besides the tokens is its argument.                              *)
RECURSIVE Parse(_, _, _)
ParseExpression(s) == Parse("expression", None, s)
ParseAssignmentExpression(s) == Parse("assignment", None, s)
ParseConditionalExpression(s) == Parse("conditional", None, s)
ParseBinaryExpression(prec, s) == Parse("binary", prec, s)
ParseUnaryExpression(s) == Parse("unary", None, s)
ParsePostfixExpression(e, s) == Parse("postfix", e, s)
BinaryTail(e, prec, s) == Parse("binary rest", << e, prec >>, s)
CommaTail(e, s) == Parse("comma rest", e, s)
ParseList(kind, s, done) == Parse("list", << kind, done >>, s)
ParseDeclarationSpecifiers(s, sofar) == Parse("specifiers", sofar, s)
ParseDeclarator(kind, s) == Parse("declarator", kind, s)
ParsePostfixDeclarator(dec, s) == Parse("postfix declarator", dec, s)
ParseInitializer(s) == Parse("initializer", None, s)
ParseStructDeclarations(s, done) == Parse("struct declarations", done, s)
ParseStatement(s) == Parse("statement", None, s)
ParseDeclarations(s, done) == Parse("declarations", done, s)
ParseStatements(s, done) == Parse("statements", done, s)
ParseExternalDeclaration(s) == Parse("external declaration", None, s)
ParseTranslationUnit(s, done) == Parse("unit", done, s)

-----------------------------------------------------------------------------
(* expr.c *)

ParseConstantExpression(s) == ParseConditionalExpression(s)
ParseTypeName(s) ==
    LET specs == ParseDeclarationSpecifiers(s, None)
        dec == ParseDeclarator("abstract", specs.s)
    IN  Parsed(Tree("type", "", << specs.t, dec.t >>), dec.s)

ParsePrimaryExpression(s) ==
    LET tok == CurrentToken(s)
        inner == ParseExpression(NextToken(s))
    IN  CASE tok \in Identifiers -> Parsed(Leaf("id", tok), NextToken(s))
          [] tok \in Literals -> Parsed(Leaf("const", tok), NextToken(s))
          [] tok = "(" -> Parsed(inner.t, Expect(")", inner.s))
          [] OTHER -> Parsed(Constant0, s)

PostfixExpressionRule(e, s) ==
    LET n == NextToken(s)
        tok == CurrentToken(s)
        index == ParseExpression(n)
        args == IF CurrentToken(n) = ")" THEN Parsed(<< >>, n) ELSE ParseList("argument", n, << >>)
    IN  CASE tok = "[" -> ParsePostfixExpression(Tree("[]", "", << e, index.t >>),
                                                 Expect("]", index.s))
          [] tok = "(" -> ParsePostfixExpression(Tree("call", "", << e >> \o args.t),
                                                 Expect(")", args.s))
          [] tok \in {".", "->"} ->
               ParsePostfixExpression(Tree(tok, CurrentToken(n), << e >>), NextToken(n))
          [] tok \in {"++", "--"} -> ParsePostfixExpression(Tree("post", tok, << e >>), n)
          [] OTHER -> Parsed(e, s)

\* A parenthesis is a cast, or a type to take the size of, if a type name follows it.
UnaryExpressionRule(s) ==
    LET n == NextToken(s)
        tok == CurrentToken(s)
        ty(u) == LET t == ParseTypeName(u) IN Parsed(t.t, Expect(")", t.s))
        operand(u) == ParseUnaryExpression(u)
        primary == ParsePrimaryExpression(s)
    IN  CASE tok \in UnaryTokens ->
               LET k == operand(n) IN Parsed(Tree("unary", tok, << k.t >>), k.s)
          [] tok = "sizeof" ->
               LET k == IF CurrentToken(n) = "(" /\ IsTypeName(Peeked(n)) THEN ty(NextToken(n))
                        ELSE operand(n)
               IN  Parsed(Tree("sizeof", "", << k.t >>), k.s)
          [] tok = "(" /\ IsTypeName(Peeked(s)) ->
               LET t == ty(n)
                   k == operand(t.s)
               IN  Parsed(Tree("cast", "", << t.t, k.t >>), k.s)
          [] OTHER -> ParsePostfixExpression(primary.t, primary.s)

BinaryRestRule(e, prec, s) ==
    LET op == CurrentToken(s)
        right == ParseBinaryExpression(Prec[op] + 1, NextToken(s))
    IN  IF IsBinaryOP(op) /\ Prec[op] >= prec
        THEN BinaryTail(Tree("binary", op, << e, right.t >>), prec, right.s)
        ELSE Parsed(e, s)
BinaryExpressionRule(prec, s) ==
    LET left == ParseUnaryExpression(s) IN BinaryTail(left.t, prec, left.s)

ConditionalExpressionRule(s) ==
    LET c == ParseBinaryExpression(Prec["||"], s)
        a == ParseExpression(NextToken(c.s))
        b == ParseConditionalExpression(Expect(":", a.s))
    IN  IF CurrentToken(c.s) # "?" THEN c ELSE Parsed(Tree("?", "", << c.t, a.t, b.t >>), b.s)

AssignmentExpressionRule(s) ==
    LET left == ParseConditionalExpression(s)
        op == CurrentToken(left.s)
        right == ParseAssignmentExpression(NextToken(left.s))
    IN  IF op \in AssignTokens THEN Parsed(Tree("assign", op, << left.t, right.t >>), right.s)
        ELSE left

CommaRestRule(e, s) ==
    LET right == ParseAssignmentExpression(NextToken(s))
    IN  IF CurrentToken(s) = "," THEN CommaTail(Tree(",", "", << e, right.t >>), right.s)
        ELSE Parsed(e, s)
ExpressionRule(s) ==
    LET left == ParseAssignmentExpression(s) IN CommaTail(left.t, left.s)

-----------------------------------------------------------------------------
(* decl.c *)

(* A tree of specifiers: storage classes, types and qualifiers.  Once a type *)
(* was seen, a typedef name is the name that is declared.                    *)
NoSpecifiers == Tree("specs", "", << Leaf("storage", ""), Leaf("types", ""), Leaf("quals", "") >>)
AddSpecifier(specs, i, t) == [specs EXCEPT !.kids[i].kids = Append(@, t)]

ParseEnumerator(s) ==
    LET n == NextToken(s)
        e == ParseConstantExpression(NextToken(n))
    IN  IF CurrentToken(s) \notin Identifiers THEN Parsed(None, Failed(s))
        ELSE IF CurrentToken(n) = "=" THEN Parsed(Tree("enumerator", CurrentToken(s), << e.t >>), e.s)
        ELSE Parsed(Leaf("enumerator", CurrentToken(s)), n)

\* The name and the braces of a structure or an enumeration, either of which may be missing.
ParseTagSpecifier(word, s) ==
    LET named == CurrentToken(s) \in Identifiers
        id == IF named THEN CurrentToken(s) ELSE ""
        n == IF named THEN NextToken(s) ELSE s
        b == NextToken(n)
        body == CASE word = "struct" -> ParseStructDeclarations(b, << >>)
                  [] word = "enum" /\ CurrentToken(b) = "}" -> Parsed(<< >>, Failed(b))
                  [] OTHER -> ParseList("enumerator", b, << >>)
    IN  IF CurrentToken(n) = "{" THEN Parsed(Tree(word, id, << Tree("body", "", body.t) >>),
                                             Expect("}", body.s))
        ELSE Parsed(Leaf(word, id), IF named THEN n ELSE Failed(n))

ParseStructDeclaration(s) ==
    LET specs == ParseDeclarationSpecifiers(s, None)
        decs == ParseList("field", specs.s, << >>)
    IN  IF CurrentToken(specs.s) = ";"
        THEN Parsed(Tree("declaration", "", << specs.t >>), NextToken(specs.s))
        ELSE Parsed(Tree("declaration", "", << specs.t >> \o decs.t), Expect(";", decs.s))
StructDeclarationsRule(s, done) ==
    LET d == ParseStructDeclaration(s)
    IN  IF CurrentToken(s) \in FirstDeclaration
        THEN ParseStructDeclarations(d.s, Append(done, d.t)) ELSE Parsed(done, s)

DeclarationSpecifiersRule(s, sofar) ==
    LET specs == IF sofar = None THEN NoSpecifiers ELSE sofar
        tok == CurrentToken(s)
        seeTy == specs.kids[2].kids # << >>
        add(i, t, u) == ParseDeclarationSpecifiers(u, AddSpecifier(specs, i, t))
        tag == ParseTagSpecifier(tok, NextToken(s))
    IN  CASE tok \in StorageClasses -> add(1, Leaf("word", tok), NextToken(s))
          [] tok \in TypeWords -> add(2, Leaf("word", tok), NextToken(s))
          [] tok \in TypeNames /\ ~seeTy -> add(2, Leaf("typedef", tok), NextToken(s))
          [] tok \in {"struct", "enum"} -> add(2, tag.t, tag.s)
          [] tok \in Qualifiers -> add(3, Leaf("word", tok), NextToken(s))
          [] OTHER -> Parsed(specs, s)

ParseDirectDeclarator(kind, s) ==
    LET inner == ParseDeclarator(kind, NextToken(s))
        tok == CurrentToken(s)
    IN  CASE tok = "(" /\ Peeked(s) \in Identifiers \cup {"(", "*"} ->
               Parsed(inner.t, Expect(")", inner.s))
          [] tok = "(" /\ Peeked(s) \notin Identifiers \cup {"(", "*"} -> Parsed(Leaf("name", ""), s)
          [] tok \in Identifiers ->
               Parsed(Leaf("name", tok),
                      IF kind = "abstract" THEN Failed(NextToken(s)) ELSE NextToken(s))
          [] OTHER -> Parsed(Leaf("name", ""), IF kind = "concrete" THEN Failed(s) ELSE s)

PostfixDeclaratorRule(dec, s) ==
    LET n == NextToken(s)
        params == IF IsTypeName(CurrentToken(n)) THEN ParseList("parameter", n, << >>)
                  ELSE Parsed(<< >>, n)
        size == IF CurrentToken(n) = "]" THEN Parsed(None, n) ELSE ParseConstantExpression(n)
    IN  CASE CurrentToken(s) = "(" ->
               ParsePostfixDeclarator(Tree("func", "", << dec >> \o params.t), Expect(")", params.s))
          [] CurrentToken(s) = "[" ->
               ParsePostfixDeclarator(Tree("array", "", << dec, size.t >>), Expect("]", size.s))
          [] OTHER -> Parsed(dec, s)

DeclaratorRule(kind, s) ==
    LET n == NextToken(s)
        const == CurrentToken(n) = "const"
        inner == ParseDeclarator(kind, IF const THEN NextToken(n) ELSE n)
        direct == ParseDirectDeclarator(kind, s)
    IN  IF CurrentToken(s) = "*"
        THEN Parsed(Tree("ptr", IF const THEN "const" ELSE "", << inner.t >>), inner.s)
        ELSE ParsePostfixDeclarator(direct.t, direct.s)

InitializerRule(s) ==
    LET list == ParseList("initializer", NextToken(s), << >>)
    IN  IF CurrentToken(s) = "{" THEN Parsed(Tree("braces", "", list.t), Expect("}", list.s))
        ELSE ParseAssignmentExpression(s)

ParseInitDeclarator(s) ==
    LET dec == ParseDeclarator("concrete", s)
        init == ParseInitializer(NextToken(dec.s))
    IN  IF CurrentToken(dec.s) = "=" THEN Parsed(Tree("init", "", << dec.t, init.t >>), init.s)
        ELSE Parsed(Tree("init", "", << dec.t >>), dec.s)

ParseParameterDeclaration(s) ==
    LET specs == ParseDeclarationSpecifiers(s, None)
        dec == ParseDeclarator("either", specs.s)
    IN  Parsed(Tree("parameter", "", << specs.t, dec.t >>), dec.s)

\* Lists separated by commas; some may end in one more, or in an ellipsis.
ParseItem(kind, s) ==
    CASE kind = "argument" -> ParseAssignmentExpression(s)
      [] kind = "parameter" -> ParseParameterDeclaration(s)
      [] kind = "declarator" -> ParseInitDeclarator(s)
      [] kind = "field" -> ParseDeclarator("concrete", s)
      [] kind = "initializer" -> ParseInitializer(s)
      [] kind = "enumerator" -> ParseEnumerator(s)
ListRule(kind, s, done) ==
    LET r == ParseItem(kind, s)
        n == NextToken(r.s)
        all == Append(done, r.t)
    IN  CASE CurrentToken(r.s) # "," -> Parsed(all, r.s)
          [] CurrentToken(r.s) = "," /\ CurrentToken(n) = "}"
             /\ kind \in {"initializer", "enumerator"} -> Parsed(all, n)
          [] CurrentToken(r.s) = "," /\ CurrentToken(n) = "..." /\ kind = "parameter" ->
               Parsed(Append(all, Leaf("...", "")), NextToken(n))
          [] OTHER -> ParseList(kind, n, all)

ParseCommonHeader(s) ==
    LET specs == ParseDeclarationSpecifiers(s, None)
        decs == ParseList("declarator", specs.s, << >>)
    IN  IF CurrentToken(specs.s) = ";" THEN Parsed(Tree("declaration", "", << specs.t >>), specs.s)
        ELSE Parsed(Tree("declaration", "", << specs.t >> \o decs.t), decs.s)
ParseDeclaration(s) == LET d == ParseCommonHeader(s) IN Parsed(d.t, Expect(";", d.s))

-----------------------------------------------------------------------------
(* stmt.c *)

ParseOptional(end, s) == IF CurrentToken(s) = end THEN Parsed(None, s) ELSE ParseExpression(s)
ParseParenthesised(s) ==
    LET e == ParseExpression(Expect("(", s)) IN Parsed(e.t, Expect(")", e.s))

ParseDoStatement(s) ==
    LET body == ParseStatement(s)
        e == ParseParenthesised(Expect("while", body.s))
    IN  Parsed(Tree("do", "", << body.t, e.t >>), Expect(";", e.s))

ParseIfStatement(s) ==
    LET e == ParseParenthesised(s)
        then == ParseStatement(e.s)
        else == ParseStatement(NextToken(then.s))
    IN  IF CurrentToken(then.s) = "else"
        THEN Parsed(Tree("if", "", << e.t, then.t, else.t >>), else.s)
        ELSE Parsed(Tree("if", "", << e.t, then.t >>), then.s)

ParseForStatement(s) ==
    LET init == ParseOptional(";", Expect("(", s))
        e == ParseOptional(";", Expect(";", init.s))
        incr == ParseOptional(")", Expect(";", e.s))
        body == ParseStatement(Expect(")", incr.s))
    IN  Parsed(Tree("for", "", << init.t, e.t, incr.t, body.t >>), body.s)

ParseConditionAndBody(word, s) ==
    LET e == ParseParenthesised(s)
        body == ParseStatement(e.s)
    IN  Parsed(Tree(word, "", << e.t, body.t >>), body.s)

ParseCaseStatement(s) ==
    LET e == ParseConstantExpression(s)
        body == ParseStatement(Expect(":", e.s))
    IN  Parsed(Tree("case", "", << e.t, body.t >>), body.s)
ParseDefaultStatement(s) ==
    LET body == ParseStatement(Expect(":", s)) IN Parsed(Tree("default", "", << body.t >>), body.s)

\* Declarations come first: a name starts one only if it is a type.
DeclarationsRule(s, done) ==
    LET tok == CurrentToken(s)
        d == ParseDeclaration(s)
    IN  IF tok \in FirstDeclaration /\ (tok \in Identifiers => IsTypeName(tok))
        THEN ParseDeclarations(d.s, Append(done, d.t))
        ELSE Parsed(done, s)
StatementListRule(s, done) ==
    LET r == ParseStatement(s)
    IN  IF CurrentToken(s) \in {"}", "END"} THEN Parsed(done, s)
        ELSE ParseStatements(r.s, Append(done, r.t))
ParseCompoundStatement(s) ==
    LET decls == ParseDeclarations(s, << >>)
        stmts == ParseStatements(decls.s, << >>)
    IN  Parsed(Tree("compound", "", decls.t \o stmts.t), Expect("}", stmts.s))

StatementRule(s) ==
    LET n == NextToken(s)
        word == CurrentToken(s)
        optional(u) == LET e == ParseOptional(";", u) IN [e EXCEPT !.s = Expect(";", @)]
    IN  CASE word = "case" -> ParseCaseStatement(n)
          [] word = "default" -> ParseDefaultStatement(n)
          [] word \in {"while", "switch"} -> ParseConditionAndBody(word, n)
          [] word = "for" -> ParseForStatement(n)
          [] word = "do" -> ParseDoStatement(n)
          [] word = "if" -> ParseIfStatement(n)
          [] word \in {"break", "continue"} -> Parsed(Leaf(word, ""), Expect(";", n))
          [] word = "return" -> LET e == optional(n) IN Parsed(Tree("return", "", << e.t >>), e.s)
          [] word = "{" -> ParseCompoundStatement(n)
          [] OTHER -> LET e == optional(s) IN Parsed(Tree("expr", "", << e.t >>), e.s)

-----------------------------------------------------------------------------
(* Declarations and functions of a file. *)

\* The function declarator of a name within a declarator, if there is one.
RECURSIVE FunctionDeclarator(_)
FunctionDeclarator(dec) ==
    CASE dec.op = "func" /\ dec.kids[1].op = "name" -> dec
      [] dec.op = "name" -> None
      [] OTHER -> FunctionDeclarator(dec.kids[1])

\* That of a declaration whose declarator stands alone, without an initialiser.
GetFunctionDeclarator(decl) ==
    IF Len(decl.kids) = 2 /\ Len(decl.kids[2].kids) = 1 THEN FunctionDeclarator(decl.kids[2].kids[1])
    ELSE None
HasParameters(fdec) == Len(fdec.kids) > 1
IsTypedef(decl) == LET storage == decl.kids[1].kids[1].kids
                   IN  storage # << >> /\ storage[1].id = "typedef"

\* The semicolon of a prototype is taken here; what follows it must be no body.  A declarator
\* without parameters begins a function whatever follows, and that token is taken for its brace.
ExternalDeclarationRule(s) ==
    LET d == ParseCommonHeader(s)
        fdec == GetFunctionDeclarator(d.t)
        tok == CurrentToken(d.s)
        after == NextToken(d.s)
        body == ParseCompoundStatement(NextToken(IF tok = ";" THEN Failed(after) ELSE d.s))
    IN  CASE \/ IsTypedef(d.t) \/ fdec = None
             \/ HasParameters(fdec) /\ tok \notin {";", "{"} -> Parsed(d.t, Expect(";", d.s))
          [] ~IsTypedef(d.t) /\ fdec # None /\ tok = ";" /\ CurrentToken(after) # "{" ->
               Parsed(d.t, after)
          [] OTHER ->
               Parsed(Tree("function", "", << d.t.kids[1], d.t.kids[2].kids[1], body.t >>), body.s)

TranslationUnitRule(s, done) ==
    LET d == ParseExternalDeclaration(s)
    IN  CASE CurrentToken(s) = "END" -> Parsed(Tree("unit", "", done), s)
          [] CurrentToken(s) = ";" -> ParseTranslationUnit(NextToken(s), done)
          [] OTHER -> IF d.s.ok THEN ParseTranslationUnit(d.s, Append(done, d.t))
                      ELSE Parsed(Tree("unit", "", Append(done, d.t)), d.s)

Parse(what, with, s) ==
    CASE what = "expression" -> ExpressionRule(s)
      [] what = "assignment" -> AssignmentExpressionRule(s)
      [] what = "conditional" -> ConditionalExpressionRule(s)
      [] what = "binary" -> BinaryExpressionRule(with, s)
      [] what = "unary" -> UnaryExpressionRule(s)
      [] what = "postfix" -> PostfixExpressionRule(with, s)
      [] what = "binary rest" -> BinaryRestRule(with[1], with[2], s)
      [] what = "comma rest" -> CommaRestRule(with, s)
      [] what = "list" -> ListRule(with[1], s, with[2])
      [] what = "specifiers" -> DeclarationSpecifiersRule(s, with)
      [] what = "declarator" -> DeclaratorRule(with, s)
      [] what = "postfix declarator" -> PostfixDeclaratorRule(with, s)
      [] what = "initializer" -> InitializerRule(s)
      [] what = "struct declarations" -> StructDeclarationsRule(s, with)
      [] what = "statement" -> StatementRule(s)
      [] what = "declarations" -> DeclarationsRule(s, with)
      [] what = "statements" -> StatementListRule(s, with)
      [] what = "external declaration" -> ExternalDeclarationRule(s)
      [] what = "unit" -> TranslationUnitRule(s, with)
=============================================================================
