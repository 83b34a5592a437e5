----------------------------- MODULE Statements -----------------------------
(***************************************************************************)
(* The statements of stmt.h and what stmtchk.c makes of them.  The stacks  *)
(* loops, breakable and switches of the function give a break and a        *)
(* continue their target, and a case and a default their switch; loops and *)
(* switches are numbered so that a target can be named.                    *)
(***************************************************************************)
EXTENDS Expressions, FiniteSets

(* A statement.  exprs holds its expressions, each in a sequence that is empty *)
(* where the source leaves it out; n numbers a loop or a switch, or is the     *)
(* target of a break or a continue; inits are the initialised locals.          *)
Stmt(kind, exprs, stmts) ==
    [kind |-> kind, exprs |-> exprs, stmts |-> stmts, n |-> 0, val |-> 0,
     cases |-> {}, default |-> FALSE, inits |-> << >>]
ExprStmt(e) == Stmt("expr", << << e >> >>, << >>)
Empty == Stmt("expr", << << >> >>, << >>)
Return(e) == Stmt("return", << << e >> >>, << >>)
ReturnNothing == Stmt("return", << << >> >>, << >>)
If(e, s) == Stmt("if", << << e >> >>, << s >>)
IfElse(e, s, t) == Stmt("if", << << e >> >>, << s, t >>)
Do(s, e) == Stmt("do", << << e >> >>, << s >>)
While(e, s) == Stmt("while", << << e >> >>, << s >>)
For(init, e, incr, s) == Stmt("for", << init, e, incr >>, << s >>)
Break == Stmt("break", << >>, << >>)
Continue == Stmt("continue", << >>, << >>)
Case(n, s) == [Stmt("case", << << Constant(TInt, n) >> >>, << s >>) EXCEPT !.val = n]
Default(s) == Stmt("default", << >>, << s >>)
Switch(e, s) == Stmt("switch", << << e >> >>, << s >>)
Compound(stmts) == Stmt("compound", << >>, stmts)
\* An initialised local: a variable, and the offset, type and expression of each part.
Local(name, data) == [id |-> name, data |-> data]
Block(inits, stmts) == [Compound(stmts) EXCEPT !.inits = inits]

\* What a check makes of a statement it reports, and of one that stops the compiler.
BadStatement == Stmt("error", << >>, << >>)
Stopped == Stmt("crash", << >>, << >>)
Refused == {BadStatement, Stopped}
Refusal(stops) == IF stops THEN Stopped ELSE BadStatement

(* The function being checked: the stacks, and for every switch the type of its *)
(* expression and the labels seen.                                              *)
NoFunction == [loops |-> << >>, breakable |-> << >>, switches |-> << >>, count |-> 0,
               types |-> [n \in {} |-> TInt], cases |-> [n \in {} |-> {}], defaults |-> {}]

Push(stack, n) == << n >> \o stack
Top(stack) == Head(stack)
Checked(f, s) == [f |-> f, s |-> s]

Adjusted(e) == IF e \in Failures THEN e ELSE Adjust(e, TRUE)

\* The initialisers of a block: each part is converted to its type; a string stays an array.
CheckedInit(ty, e) == IF e \in Failures \/ ty.categ = "ARRAY" THEN e ELSE Cast(ty, Adjusted(e))
CheckedInits(inits) ==
    [i \in DOMAIN inits |-> [inits[i] EXCEPT !.data = [j \in DOMAIN @ |->
        [@[j] EXCEPT !.expr = CheckedInit(inits[i].data[j].ty, CheckExpression(@))]]]]

\* The i-th expression of a statement: its value is taken, but not that of an expression
\* statement, nor what a for begins with and steps by.
Used(s, i) == ~(s.kind = "expr" \/ (s.kind = "for" /\ i # 2))
CheckedExprs(s) ==
    [s EXCEPT !.exprs = [i \in DOMAIN @ |-> [j \in DOMAIN @[i] |->
        IF Used(s, i) THEN Adjusted(CheckExpression(@[i][j])) ELSE CheckExpression(@[i][j])]],
              !.inits = CheckedInits(@)]

\* How the expressions of a statement fail.
Faults(s) ==
    Failures \cap (UNION {{s.exprs[i][j] : j \in DOMAIN s.exprs[i]} : i \in DOMAIN s.exprs}
                   \cup UNION {{s.inits[i].data[j].expr : j \in DOMAIN s.inits[i].data} : i \in DOMAIN s.inits})

CheckReturnStatement(s, result) ==
    [s EXCEPT !.exprs = [i \in DOMAIN @ |-> [j \in DOMAIN @[i] |-> Cast(result, @[i][j])]]]

CheckSwitchExpression(s) ==
    IF IsInteg(s.exprs[1][1].ty) THEN [s EXCEPT !.exprs[1][1] = DoIntegerPromotion(@)]
    ELSE BadStatement

\* Mutant of CheckBreakStatement: the innermost loop, where a switch may be nearer.
CheckBreakOfLoop(f, s) == IF f.loops = << >> THEN BadStatement
                          ELSE [s EXCEPT !.n = Top(f.loops)]
CheckBreakStatement(f, s) == IF f.breakable = << >> THEN BadStatement
                             ELSE [s EXCEPT !.n = Top(f.breakable)]
CheckContinueStatement(f, s) == IF f.loops = << >> THEN BadStatement
                                ELSE [s EXCEPT !.n = Top(f.loops)]

AddCase(f, val) == [f EXCEPT !.cases[Top(f.switches)] = @ \cup {val}]
Repeated(f, val) == val \in f.cases[Top(f.switches)]

RECURSIVE CheckStatement(_, _, _), CheckStatements(_, _, _, _)

CheckStatements(f, result, stmts, done) ==
    IF stmts = << >> THEN Checked(f, done)
    ELSE LET r == CheckStatement(f, result, Head(stmts))
         IN  CheckStatements(r.f, result, Tail(stmts), Append(done, r.s))

\* The body of a statement, checked with a function whose stacks it is on.
WithChecked(s, r) ==
    LET refused == Refused \cap ({s} \cup {r.s[i] : i \in DOMAIN r.s})
    IN  Checked(r.f, IF refused = {} THEN [s EXCEPT !.stmts = r.s] ELSE Refusal(Stopped \in refused))
WithBody(f, result, s) == WithChecked(s, CheckStatements(f, result, s.stmts, << >>))

LeaveLoop(r) == Checked([r.f EXCEPT !.loops = Tail(@), !.breakable = Tail(@)], r.s)
CheckLoopStatement(f, result, s) ==
    LET n == f.count + 1
        in == [f EXCEPT !.loops = Push(@, n), !.breakable = Push(@, n), !.count = n]
    IN  LeaveLoop(WithBody(in, result, [s EXCEPT !.n = n]))

LeaveSwitch(n, r) ==
    Checked([r.f EXCEPT !.switches = Tail(@), !.breakable = Tail(@)],
            IF r.s \in Refused THEN r.s
            ELSE [r.s EXCEPT !.n = n, !.cases = r.f.cases[n], !.default = n \in r.f.defaults])
InSwitch(f, n, ty) ==
    [f EXCEPT !.switches = Push(@, n), !.breakable = Push(@, n), !.count = n,
              !.types = [m \in DOMAIN @ \cup {n} |-> IF m = n THEN ty ELSE @[m]],
              !.cases = [m \in DOMAIN @ \cup {n} |-> IF m = n THEN {} ELSE @[m]]]
SwitchType(s) == IF s = BadStatement THEN TInt ELSE s.exprs[1][1].ty
SwitchBody(f, n, result, s) == LeaveSwitch(n, WithBody(InSwitch(f, n, SwitchType(s)), result, s))
CheckSwitchStatement(f, result, s) == SwitchBody(f, f.count + 1, result, CheckSwitchExpression(s))

\* The label gets the type of the switch; its value is an int whatever the type.
Relabelled(f, s) ==
    IF s \in Refused THEN s
    ELSE [s EXCEPT !.exprs[1][1] = FoldCast(f.types[Top(f.switches)], @)]
LeaveCase(r, val) == IF Repeated(r.f, val) THEN Checked(r.f, Refusal(r.s = Stopped))
                     ELSE Checked(AddCase(r.f, val), Relabelled(r.f, r.s))
CheckCaseStatement(f, result, s) ==
    IF f.switches = << >> THEN Checked(f, BadStatement)
    ELSE LeaveCase(WithBody(f, result, [s EXCEPT !.n = Top(f.switches)]), s.val)

LeaveDefault(r) == Checked([r.f EXCEPT !.defaults = @ \cup {Top(r.f.switches)}], r.s)
CheckDefaultStatement(f, result, s) ==
    IF f.switches = << >> \/ Top(f.switches) \in f.defaults THEN Checked(f, BadStatement)
    ELSE LeaveDefault(WithBody(f, result, [s EXCEPT !.n = Top(f.switches)]))

\* A statement whose expressions are checked; its body is not yet.
CheckKind(f, result, s) ==
    CASE Faults(s) # {} -> WithBody(f, result, Refusal(Crash \in Faults(s)))
      [] Faults(s) = {} ->
           CASE s.kind = "expr" -> Checked(f, s)
             [] s.kind = "return" -> Checked(f, CheckReturnStatement(s, result))
             [] s.kind = "if" -> WithBody(f, result, s)
             [] s.kind \in {"do", "while", "for"} -> CheckLoopStatement(f, result, s)
             [] s.kind = "break" -> Checked(f, CheckBreakStatement(f, s))
             [] s.kind = "continue" -> Checked(f, CheckContinueStatement(f, s))
             [] s.kind = "case" -> CheckCaseStatement(f, result, s)
             [] s.kind = "default" -> CheckDefaultStatement(f, result, s)
             [] s.kind = "switch" -> CheckSwitchStatement(f, result, s)
             [] s.kind = "compound" -> WithBody(f, result, s)
CheckStatement(f, result, s) == CheckKind(f, result, CheckedExprs(s))
=============================================================================
