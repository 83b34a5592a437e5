---------------------------- MODULE SymbolTable ----------------------------
(***************************************************************************)
(* The symbol table (symbol.c) as the semantic check drives it (declchk.c, *)
(* exprchk.c, stmtchk.c) and the emitter reads it (emit.c, x86linux.c).    *)
(* The table is the record tab; every C function is an operator from one   *)
(* table to the next.  Types are left out: variables, enumerators and      *)
(* typedefs are of type int, so that they are compatible with one another. *)
(*                                                                         *)
(* The program under compilation is chosen step by step among programs C   *)
(* accepts; env, saved and linked record what C says its names denote and  *)
(* never feed back into the table.                                         *)
(***************************************************************************)
EXTENDS Scoping, Integers, FiniteSets

CONSTANTS
  MaxDepth,     \* scopes open at once, the file's included
  MaxSymbols,   \* identifiers and tags the program declares
  AnyExtern     \* FALSE: without the forms of extern the table confuses: a list of
                \* variables after a defined one, and one in a block of a name that
                \* is, or is later declared as, something else or static at
                \* file scope

ASSUME BoundsAssumption ==
  /\ MaxDepth \in Nat \ {0}
  /\ MaxSymbols \in Nat
  /\ AnyExtern \in BOOLEAN

ASSUME NamesAssumption == "none" \notin Names      \* it stands for no name in NoHead

VARIABLES
  tab,      \* the symbol table of the compiler
  ctx,      \* kinds of the open scopes: "file", "def", "list", "body", "block"
  head,     \* the function definition between its declarator and its body
  env,      \* C's environment
  envSaved, \* C's scope of the parameter list whose body is to follow
  linked    \* per name: the object or function with linkage, as C sees it
vars == <<tab, ctx, head, env, envSaved, linked>>

-----------------------------------------------------------------------------
(* The compiler's table. *)

NewTable(level) ==
  [level |-> level, ids |-> [n \in Names |-> 0], tags |-> [n \in TagNames |-> 0]]

InitSymbolTable ==
  [symbols |-> <<>>, tags |-> <<>>, scopes |-> <<NewTable(0)>>,
   saved |-> NewTable(0), Level |-> 0, Globals |-> <<>>, functions |-> {},
   FSYM |-> 0, rejected |-> FALSE]

Error(t) == [t EXCEPT !.rejected = TRUE]

EnterScope(t) == [t EXCEPT !.Level = @ + 1, !.scopes = Append(@, NewTable(t.Level + 1))]
ExitScope(t)  == [t EXCEPT !.Level = @ - 1, !.scopes = Front(@)]

\* Mutant of SaveParameterListTable: saved after the list is left
SaveLate(t) == [t EXCEPT !.saved = t.scopes[Len(t.scopes) - 1]]

SaveParameterListTable(t) == [t EXCEPT !.saved = Last(t.scopes)]

\* Mutant of RestoreParameterListTable: the level is not entered
RestoreAtLevel(t) == [t EXCEPT !.scopes = Append(@, t.saved)]

RestoreParameterListTable(t) ==
  [t EXCEPT !.Level = @ + 1,
            !.scopes = Append(@, [t.saved EXCEPT !.level = t.Level + 1])]

(* The table a lookup stops at, 0 if none has the name. *)
FoundIn(t, ns, n) ==
  LET having == {i \in 1..Len(t.scopes) : t.scopes[i][ns][n] # 0}
  IN  IF having = {} THEN 0 ELSE CHOOSE i \in having : \A j \in having : j <= i

Found(t, ns, n) == IF FoundIn(t, ns, n) = 0 THEN 0 ELSE t.scopes[FoundIn(t, ns, n)][ns][n]

\* Mutant of LookedUpID: the level of the lookup, not of the table found in
LookedUpHere(t, n) ==
  IF Found(t, "ids", n) = 0 THEN t
  ELSE [t EXCEPT !.symbols[Found(t, "ids", n)].level = t.Level]

(* A lookup writes the level of the table into the symbol. *)
LookedUpID(t, n) ==
  IF Found(t, "ids", n) = 0 THEN t
  ELSE [t EXCEPT !.symbols[Found(t, "ids", n)].level = t.scopes[FoundIn(t, "ids", n)].level]
LookedUpTag(t, n) ==
  IF Found(t, "tags", n) = 0 THEN t
  ELSE [t EXCEPT !.tags[Found(t, "tags", n)].level = t.scopes[FoundIn(t, "tags", n)].level]

LookupID(t, n)  == Found(t, "ids", n)
LookupTag(t, n) == Found(t, "tags", n)

(* Symbol s into the i-th open table, in front of what its bucket held. *)
AddSymbol(t, i, s) ==
  [t EXCEPT !.scopes[i].ids[t.symbols[s].name] = s,
            !.symbols[s].level = t.scopes[i].level]

NewSymbol(t, kind, n, sclass) ==
  [t EXCEPT !.symbols = Append(@, [kind |-> kind, name |-> n, sclass |-> sclass, level |-> 0,
                                   defined |-> FALSE, idata |-> FALSE, ref |-> FALSE])]
Newest(t)  == Len(t.symbols)
Current(t) == Len(t.scopes)

(* New file-scope and static variables join the list that is emitted. *)
OnGlobals(t, sclass) == t.Level = 0 \/ sclass = "static"

(* A block's extern is put into the file's table as well. *)
AlsoGlobal(t, sclass) == sclass = "extern" /\ Current(t) # 1

AddVariable(t, n, sclass) ==
  LET new  == NewSymbol(t, "Variable", n, sclass)
      s    == Newest(new)
      list == IF OnGlobals(t, sclass) THEN [new EXCEPT !.Globals = Append(@, s)] ELSE new
      glob == IF AlsoGlobal(t, sclass) THEN AddSymbol(list, 1, s) ELSE list
  IN  AddSymbol(glob, Current(t), s)

AddFunction(t, n, sclass) ==
  LET new == NewSymbol(t, "Function", n, sclass)
      s   == Newest(new)
      loc == IF Current(t) # 1 THEN AddSymbol(new, Current(t), s) ELSE new
  IN  AddSymbol(loc, 1, s)

AddTypedefName(t, n) ==
  LET new == NewSymbol(t, "TypedefName", n, "none") IN AddSymbol(new, Current(t), Newest(new))
AddEnumConstant(t, n) ==
  LET new == NewSymbol(t, "EnumConstant", n, "none") IN AddSymbol(new, Current(t), Newest(new))

AddTag(t, n, categ, complete) ==
  LET s == Len(t.tags) + 1
  IN  [t EXCEPT !.tags = Append(@, [categ |-> categ, level |-> Last(t.scopes).level,
                                    complete |-> complete]),
                !.scopes[Len(t.scopes)].tags[n] = s]

-----------------------------------------------------------------------------
(* Declarations, definitions and uses: the semantic check. *)

Compatible(t, s) == t.symbols[s].kind # "Function"

(* One declarator of a file-scope declaration.  The storage class is a     *)
(* variable of the loop over the declarators, so the result carries it on. *)
\* Mutant of Inherited: extern after a declaration forgets its class
InheritedNone(t, s, sclass) == IF sclass = "extern" THEN "none" ELSE sclass

Inherited(t, s, sclass) == IF sclass = "extern" THEN t.symbols[s].sclass ELSE sclass

\* Symbol s, declared once more or for the first time
Declared(t, s, sclass, init) ==
  LET was == t.symbols[s]
      conflict == \/ sclass = "none" /\ was.sclass = "static"
                  \/ sclass # "none" /\ was.sclass # sclass
      bad == conflict \/ ~Compatible(t, s) \/ (init /\ was.defined)
      now == [was EXCEPT !.sclass = IF @ = "extern" THEN sclass ELSE @,
                         !.idata = @ \/ init,
                         !.defined = @ \/ (init /\ Compatible(t, s))]
  IN  [t EXCEPT !.rejected = @ \/ bad, !.symbols[s] = now]

GlobalDeclarator(acc, d) ==
  LET l  == LookedUpID(acc.tab, d.name)
      a  == IF LookupID(acc.tab, d.name) = 0 THEN AddVariable(l, d.name, acc.sclass) ELSE l
      s  == LookupID(a, d.name)
      sc == Inherited(a, s, acc.sclass)
  IN  [tab |-> Declared(a, s, sc, d.init), sclass |-> sc]

(* The loop over the declarators, of which the program writes one or two.   *)
CheckGlobalDeclaration(t, sclass, ds) ==
  LET first == GlobalDeclarator([tab |-> t, sclass |-> sclass], ds[1])
  IN  IF Len(ds) = 1 THEN first.tab ELSE GlobalDeclarator(first, ds[2]).tab

OrExtern(sclass) == IF sclass = "none" THEN "extern" ELSE sclass

GlobalFunctionDeclarator(t, n, sclass) ==
  IF LookupID(t, n) = 0 THEN AddFunction(t, n, OrExtern(sclass)) ELSE LookedUpID(t, n)

(* A declaration in a block replaces only what an outer scope declared.     *)
OuterOnly(t, s) == t.symbols[s].level < t.Level

CheckLocalDeclaration(t, n, sclass) ==
  LET l == LookedUpID(t, n)
      s == LookupID(t, n)
  IN  IF s = 0 THEN AddVariable(l, n, sclass)
      ELSE IF OuterOnly(l, s)
           THEN LET a == AddVariable(l, n, sclass)
                IN IF sclass = "extern" /\ ~Compatible(l, s) THEN Error(a) ELSE a
           ELSE IF l.symbols[s].sclass = "extern" /\ sclass = "extern" /\ Compatible(l, s)
                THEN l ELSE Error(l)

(* The test compares an uninitialised pointer with what the lookup found    *)
(* instead of assigning it, so whether they are equal is open.              *)
LocalFunctionDeclarator(t, n, equal) ==
  LET l == LookedUpID(t, n) IN IF equal THEN l ELSE AddFunction(l, n, "extern")

CheckEnumerator(t, n) ==
  LET l == LookedUpID(t, n)
      s == LookupID(t, n)
  IN  IF s # 0 /\ l.symbols[s].level = l.Level THEN Error(AddEnumConstant(l, n))
      ELSE AddEnumConstant(l, n)

(* struct n, or enum n, without a list: any visible tag will do. *)
ReferTag(t, n, categ) ==
  LET l == LookedUpTag(t, n)
      s == LookupTag(t, n)
  IN  IF s = 0 THEN AddTag(l, n, categ, FALSE)
      ELSE IF categ = "struct" /\ l.tags[s].categ # categ THEN Error(l) ELSE l

(* struct n { ... }: a tag of an outer scope is hidden, one of this scope   *)
(* completed. *)
\* Mutant of NewHere: a tag of an outer scope is redefined instead of hidden
NewHereNever(t, s) == s = 0

NewHere(t, s) == s = 0 \/ t.tags[s].level < t.Level

DefineStruct(t, n) ==
  LET l == LookedUpTag(t, n)
      s == LookupTag(t, n)
  IN  IF NewHere(l, s) THEN AddTag(l, n, "struct", TRUE)
      ELSE IF l.tags[s].categ = "struct" /\ ~l.tags[s].complete
           THEN [l EXCEPT !.tags[s].complete = TRUE]
           ELSE Error(l)

DefineEnum(t, n) ==
  LET l == LookedUpTag(t, n)
      s == LookupTag(t, n)
  IN  IF NewHere(l, s) THEN AddTag(l, n, "enum", TRUE) ELSE l

(* The part of CheckFunction between the declarator and the body. *)
FunctionSymbol(t, n, sclass) ==
  LET l == LookedUpID(t, n)
      s == LookupID(t, n)
  IN  IF s = 0 THEN AddFunction(l, n, sclass)
      ELSE IF l.symbols[s].kind # "Function" THEN Error(AddFunction(l, n, sclass))
      ELSE IF l.symbols[s].defined \/ (l.symbols[s].sclass = "extern" /\ sclass = "static")
           THEN Error(l)
      ELSE l

WithParameter(t, n) == AddVariable(t, n, "auto")

(* The loop over the parameters, two at most. *)
WithParameters(t, params) ==
  IF params = <<>> THEN t
  ELSE LET first == WithParameter(t, params[1])
       IN  IF Len(params) = 1 THEN first ELSE WithParameter(first, params[2])

CheckFunction(t, n, sclass, params) ==
  LET f == FunctionSymbol(t, n, OrExtern(sclass))
      s == LookupID(f, n)
      r == RestoreParameterListTable([f EXCEPT !.symbols[s].defined = TRUE, !.FSYM = s,
                                               !.functions = @ \cup {s}])
  IN  WithParameters(r, params)

(* An identifier in an expression, and the function of a call.              *)
CheckPrimaryExpression(t, n) ==
  LET l == LookedUpID(t, n)
      s == LookupID(t, n)
  IN  IF s = 0 THEN Error(AddVariable(l, n, IF l.Level = 0 THEN "none" ELSE "auto"))
      ELSE IF l.symbols[s].kind = "TypedefName" THEN Error(l) ELSE l

CheckFunctionCall(t, n) ==
  LET l == LookedUpID(t, n)
      s == LookupID(t, n)
  IN  IF s = 0 THEN Error(AddFunction(l, n, "extern"))
      ELSE [CheckPrimaryExpression(l, n) EXCEPT !.symbols[s].ref = TRUE]

-----------------------------------------------------------------------------
(* What the emitter makes of the table. *)

Objects(t) == {t.Globals[i] : i \in 1..Len(t.Globals)}
EmittedObjects(t) ==
  {s \in Objects(t) : t.symbols[s].sclass # "extern" \/ t.symbols[s].idata}
EmittedFunctions(t) ==
  {s \in t.functions : t.symbols[s].sclass # "static" \/ t.symbols[s].ref}
Exported(t, s) == t.symbols[s].sclass # "static"

(* How GetAccessName writes a variable, and one of its fields.              *)
AccessName(sym) ==
  IF sym.level = 0 \/ sym.sclass = "extern" THEN "label"
  ELSE IF sym.sclass = "static" THEN "private" ELSE "frame"
FieldAccessName(sym) == IF sym.level = 0 THEN AccessName(sym) ELSE "frame"

-----------------------------------------------------------------------------
(* A program, declaration by declaration. *)

Fits(t) == Len(t.symbols) + Len(t.tags) <= MaxSymbols

NoHead == [name |-> "none", sclass |-> "none"]
NeverLinked == [kind |-> "unbound", link |-> "none", def |-> FALSE, init |-> FALSE,
                called |-> FALSE, plain |-> TRUE]

Init ==
  /\ tab = InitSymbolTable
  /\ ctx = <<"file">>
  /\ head = NoHead
  /\ env = <<EmptyScope>>
  /\ envSaved = EmptyScope
  /\ linked = [n \in Names |-> NeverLinked]

Place == Last(ctx)
AtFile == Place = "file" /\ head = NoHead
InBody == Place \in {"body", "block"}
InList == Place \in {"def", "list"}
Go == ~tab.rejected

(* The same name with linkage: of one kind, and external once external.     *)
Agrees(n, kind, link) ==
  linked[n].kind = "unbound" \/ (linked[n].kind = kind /\ linked[n].link = link)

FileLink(n, sclass) ==
  IF sclass = "static" THEN "internal"
  ELSE IF sclass = "none" THEN "external" ELSE ExternLink(env, n)

MayDeclareFile(n, kind, link) ==
  /\ Here(env, "ids", n).kind \in {"unbound", kind}
  /\ Agrees(n, kind, link)

DeclareLinked(e, n, kind, link) == Bind(e, "ids", n, Entity(kind, link, 0))

(* One or two variables declared at file scope, perhaps with a value.       *)
Declarator == [name : Names, init : BOOLEAN]
Declarators == {<<d>> : d \in Declarator}
               \cup {ds \in Declarator \X Declarator : ~ds[1].init /\ ~ds[2].init}
Position(ds, n) == CHOOSE i \in 1..Len(ds) : ds[i].name = n

GlobalVariables(ds, sclass) ==
  LET named == {ds[i].name : i \in 1..Len(ds)}
  IN
  /\ AtFile /\ Go
  /\ Cardinality(named) = Len(ds)
  /\ \A n \in named : MayDeclareFile(n, "object", FileLink(n, sclass))
  /\ \A i \in 1..Len(ds) : ds[i].init => ~linked[ds[i].name].init
  /\ AnyExtern \/ Len(ds) = 1 \/ sclass # "extern" \/ ~linked[ds[1].name].def
  /\ AnyExtern \/ \A n \in named : linked[n].plain
  /\ tab' = CheckGlobalDeclaration(tab, sclass, ds)
  /\ Fits(tab')
  /\ env' = [env EXCEPT ![1].ids =
               [n \in Names |-> IF n \in named THEN Entity("object", FileLink(n, sclass), 0)
                                ELSE @[n]]]
  /\ linked' = [n \in Names |->
       IF n \notin named THEN linked[n]
       ELSE [linked[n] EXCEPT
               !.kind = "object", !.link = FileLink(n, sclass),
               !.def = @ \/ sclass # "extern" \/ ds[Position(ds, n)].init,
               !.init = @ \/ ds[Position(ds, n)].init]]
  /\ UNCHANGED <<ctx, head, envSaved>>

GlobalFunction(n, sclass) ==
  LET link == IF sclass = "static" THEN "internal" ELSE ExternLink(env, n)
  IN
  /\ AtFile /\ Go
  /\ MayDeclareFile(n, "function", link)
  /\ tab' = GlobalFunctionDeclarator(tab, n, sclass)
  /\ Fits(tab')
  /\ env' = DeclareLinked(env, n, "function", link)
  /\ linked' = [linked EXCEPT ![n].kind = "function", ![n].link = link]
  /\ UNCHANGED <<ctx, head, envSaved>>

(* A typedef or an enumerator, wherever declarations may stand.             *)
Typedef(n) ==
  /\ (AtFile \/ InBody) /\ Go
  /\ MayDeclare(env, n) /\ (AtFile => linked[n].kind = "unbound")
  /\ tab' = AddTypedefName(LookedUpID(tab, n), n)
  /\ Fits(tab')
  /\ env' = Bind(env, "ids", n, Entity("typedef", "none", Newest(tab) + 1))
  /\ UNCHANGED <<ctx, head, envSaved, linked>>

Enumerator(n) ==
  /\ (AtFile \/ InBody \/ InList) /\ Go
  /\ MayDeclare(env, n) /\ (AtFile => linked[n].kind = "unbound")
  /\ tab' = CheckEnumerator(tab, n)
  /\ Fits(tab')
  /\ env' = Bind(env, "ids", n, Entity("enum", "none", Newest(tab) + 1))
  /\ UNCHANGED <<ctx, head, envSaved, linked>>

TagReference(n, categ) ==
  LET e == Visible(env, "tags", n)
  IN
  /\ Go /\ (AtFile \/ InBody \/ InList)
  /\ Bound(e) => e.kind = categ
  /\ tab' = ReferTag(tab, n, categ)
  /\ Fits(tab')
  /\ env' = IF Bound(e) THEN env
            ELSE Bind(env, "tags", n, Entity(categ, "none", Len(tab.tags) + 1))
  /\ UNCHANGED <<ctx, head, envSaved, linked>>

(* A struct of this scope may be completed once.                            *)
Completable(e) == e.kind = "struct" /\ ~tab.tags[e.id].complete

TagDefinition(n, categ) ==
  LET e == Here(env, "tags", n)
  IN
  /\ (AtFile \/ InBody \/ InList) /\ Go
  /\ ~Bound(e) \/ (categ = "struct" /\ Completable(e))
  /\ tab' = IF categ = "struct" THEN DefineStruct(tab, n) ELSE DefineEnum(tab, n)
  /\ Fits(tab')
  /\ env' = IF Bound(e) THEN env
            ELSE Bind(env, "tags", n, Entity(categ, "none", Len(tab.tags) + 1))
  /\ UNCHANGED <<ctx, head, envSaved, linked>>

(* Parameter lists: that of a definition first, then any others of its      *)
(* declarator; those of prototypes anywhere.                                *)
EnterParameterList(kind) ==
  /\ Go /\ Len(ctx) < MaxDepth
  /\ tab' = EnterScope(tab)
  /\ env' = Open(env)
  /\ ctx' = Append(ctx, kind)

DefinitionList(n, sclass) ==
  LET link == IF sclass = "static" THEN "internal" ELSE ExternLink(env, n)
  IN
  /\ AtFile /\ Go
  /\ MayDeclareFile(n, "function", link) /\ ~linked[n].def
  /\ head' = [name |-> n, sclass |-> sclass]
  /\ EnterParameterList("def")
  /\ UNCHANGED <<envSaved, linked>>

PrototypeList ==
  /\ EnterParameterList("list")
  /\ UNCHANGED <<head, envSaved, linked>>

LeaveParameterList ==
  /\ Go /\ InList
  /\ tab' = ExitScope(IF Place = "def" THEN SaveParameterListTable(tab) ELSE tab)
  /\ envSaved' = IF Place = "def" THEN Last(env) ELSE envSaved
  /\ env' = Close(env)
  /\ ctx' = Front(ctx)
  /\ UNCHANGED <<head, linked>>

ParameterLists == {<<>>} \cup {<<n>> : n \in Names}
                  \cup ({<<m, n>> : m \in Names, n \in Names} \ {<<n, n>> : n \in Names})

(* The body follows: the list's scope is open again, with the parameters.   *)
StartBody(params) ==
  LET n    == head.name
      link == IF head.sclass = "static" THEN "internal" ELSE ExternLink(env, n)
      id(i) == Newest(tab') - Len(params) + i
  IN
  /\ Place = "file" /\ head # NoHead /\ Go
  /\ \A i \in 1..Len(params) : ~Bound(envSaved.ids[params[i]])
  /\ tab' = CheckFunction(tab, n, head.sclass, params)
  /\ Fits(tab')
  /\ env' = Append(DeclareLinked(env, n, "function", link),
                   [envSaved EXCEPT !.ids = [p \in Names |->
                      IF \E i \in 1..Len(params) : params[i] = p
                      THEN Entity("auto", "none", id(CHOOSE i \in 1..Len(params) : params[i] = p))
                      ELSE @[p]]])
  /\ linked' = [linked EXCEPT ![n].kind = "function", ![n].link = link, ![n].def = TRUE]
  /\ ctx' = Append(ctx, "body")
  /\ head' = NoHead
  /\ envSaved' = EmptyScope

OpenBlock ==
  /\ Go /\ InBody /\ Len(ctx) < MaxDepth
  /\ tab' = EnterScope(tab)
  /\ env' = Open(env)
  /\ ctx' = Append(ctx, "block")
  /\ UNCHANGED <<head, envSaved, linked>>

CloseBlock ==      \* and, for the outermost block, the end of the function
  /\ Go /\ InBody
  /\ tab' = ExitScope(tab)
  /\ env' = Close(env)
  /\ ctx' = Front(ctx)
  /\ UNCHANGED <<head, envSaved, linked>>

LocalVariable(n, kind) ==      \* kind "auto" or "static"
  /\ InBody /\ Go /\ MayDeclare(env, n)
  /\ tab' = CheckLocalDeclaration(tab, n, kind)
  /\ Fits(tab')
  /\ env' = Bind(env, "ids", n, Entity(kind, "none", Newest(tab) + 1))
  /\ UNCHANGED <<ctx, head, envSaved, linked>>

(* A declaration in a block of something with linkage. *)
MayLink(n, kind) ==
  /\ ~Bound(Here(env, "ids", n)) \/ HasLinkage(Here(env, "ids", n))
  /\ Agrees(n, kind, ExternLink(env, n))
  /\ AnyExtern \/ ~Bound(env[1].ids[n]) \/ HasLinkage(env[1].ids[n])
  /\ AnyExtern \/ kind = "object" \/ ExternLink(env, n) = "external"

LinkedInBlock(n, kind) ==
  /\ env' = DeclareLinked(env, n, kind, ExternLink(env, n))
  /\ linked' = [linked EXCEPT ![n].kind = kind, ![n].link = ExternLink(env, n),
                              ![n].plain = FALSE]
  /\ UNCHANGED <<ctx, head, envSaved>>

LocalExtern(n) ==
  /\ InBody /\ Go /\ MayLink(n, "object")
  /\ tab' = CheckLocalDeclaration(tab, n, "extern")
  /\ Fits(tab')
  /\ LinkedInBlock(n, "object")

LocalFunction(n, equal) ==
  /\ InBody /\ Go /\ MayLink(n, "function")
  /\ tab' = LocalFunctionDeclarator(tab, n, equal)
  /\ Fits(tab')
  /\ LinkedInBlock(n, "function")

Use(n) ==
  /\ Go /\ InBody
  /\ Visible(env, "ids", n).kind \in {"object", "auto", "static", "enum"}
  /\ tab' = CheckPrimaryExpression(tab, n)
  /\ UNCHANGED <<ctx, head, env, envSaved, linked>>

(* A function that a block declared is not called: whether its declaration  *)
(* has an effect is open. *)
Call(n) ==
  /\ Go /\ InBody
  /\ Visible(env, "ids", n).kind = "function" /\ linked[n].plain
  /\ tab' = CheckFunctionCall(tab, n)
  /\ linked' = [linked EXCEPT ![n].called = TRUE]
  /\ UNCHANGED <<ctx, head, env, envSaved>>

Next ==
  \/ \E ds \in Declarators, sclass \in {"none", "extern", "static"} : GlobalVariables(ds, sclass)
  \/ \E n \in Names, sclass \in {"none", "static"} : GlobalFunction(n, sclass)
  \/ \E n \in Names : Typedef(n) \/ Enumerator(n)
  \/ \E n \in TagNames, categ \in {"struct", "enum"} : TagReference(n, categ) \/ TagDefinition(n, categ)
  \/ \E n \in Names, sclass \in {"none", "static"} : DefinitionList(n, sclass)
  \/ PrototypeList
  \/ LeaveParameterList
  \/ \E params \in ParameterLists : StartBody(params)
  \/ OpenBlock
  \/ CloseBlock
  \/ \E n \in Names, kind \in {"auto", "static"} : LocalVariable(n, kind)
  \/ \E n \in Names : LocalExtern(n) \/ Use(n) \/ Call(n)
  \/ \E n \in Names, equal \in BOOLEAN : LocalFunction(n, equal)

Spec == Init /\ [][Next]_vars

-----------------------------------------------------------------------------
(* Properties. *)

Kinds == {"Variable", "Function", "TypedefName", "EnumConstant"}
Classes == {"none", "extern", "static", "auto"}
SymbolSet ==
  [kind : Kinds, name : Names, sclass : Classes, level : Nat,
   defined : BOOLEAN, idata : BOOLEAN, ref : BOOLEAN]

(* The table has the shape the program relies on: scope i has level i - 1   *)
(* and the names in it are those of their symbols.                          *)
TypeOK ==
  /\ tab.symbols \in Seq(SymbolSet)
  /\ tab.Level = Len(tab.scopes) - 1
  /\ \A i \in 1..Len(tab.scopes) :
       /\ tab.scopes[i].level = i - 1
       /\ \A n \in Names :
            LET s == tab.scopes[i].ids[n] IN s # 0 => tab.symbols[s].name = n
  /\ Objects(tab) \cup tab.functions \subseteq 1..Len(tab.symbols)
  /\ tab.FSYM \in 0..Len(tab.symbols)
  /\ Len(ctx) = Len(env) /\ Len(ctx) = Len(tab.scopes)

(* The kind of entity a symbol stands for.                                  *)
Represents(s, e) ==
  LET sym == tab.symbols[s]
  IN  IF HasLinkage(e)
      THEN sym.kind = IF e.kind = "function" THEN "Function" ELSE "Variable"
      ELSE s = e.id

(* Whatever scopes, parameter lists and blocks were opened and closed, a    *)
(* lookup in the current tables finds the entity C says the name denotes:   *)
(* the tag or the innermost declaration, one of a prototype's list no       *)
(* longer, one of a definition's list in the body.                          *)
ResolvesRight ==
  /\ \A n \in TagNames : LookupTag(tab, n) = Visible(env, "tags", n).id
  /\ \A n \in Names :
    LET e == Visible(env, "ids", n)
    IN  Bound(e) /\ (e.kind = "function" => linked[n].plain) =>
          /\ LookupID(tab, n) # 0
          /\ Represents(LookupID(tab, n), e)

(* A variable is addressed by what it is after any sequence of lookups: by  *)
(* its label if it has linkage, by a private label if it is static, in the  *)
(* frame otherwise (symbol.c rewrites the level x86linux.c reads).          *)
AccessRight ==
  \A n \in Names :
    LET e   == Visible(env, "ids", n)
        sym == tab.symbols[LookupID(tab, n)]
    IN  e.kind \in {"object", "auto", "static"} =>
          AccessName(sym) = CASE e.kind = "object" -> "label"
                              [] e.kind = "static" -> "private"
                              [] e.kind = "auto" -> "frame"

(* A program that C accepts is not rejected: no declaration is taken for a  *)
(* redefinition and no name for undeclared because of a stale level or a    *)
(* scope left or entered wrongly.                                           *)
AcceptsValid == ~tab.rejected

(* At the end of the file, a name with linkage is emitted exactly if the    *)
(* file defines it, once and with its linkage, and so is a static function  *)
(* that is called; for names that no block declares extern.                 *)
EmittedOnce(n) ==
  LET those == {s \in EmittedObjects(tab) : tab.symbols[s].name = n /\ tab.symbols[s].level = 0}
  IN  IF linked[n].kind = "object" /\ linked[n].def
      THEN /\ Cardinality(those) = 1
           /\ \A s \in those : Exported(tab, s) = (linked[n].link = "external")
      ELSE those = {}

EmittedRight ==
  ctx = <<"file">> =>
    \A n \in Names : linked[n].plain =>
      /\ EmittedOnce(n)
      /\ linked[n].kind = "function" /\ linked[n].def =>
           (\E s \in EmittedFunctions(tab) : tab.symbols[s].name = n)
             = (linked[n].link = "external" \/ linked[n].called)

(* Nothing is emitted for what is only declared extern (doc/extern.md).     *)
ExternsNotEmitted ==
  \A n \in Names : linked[n].kind = "object" /\ ~linked[n].def =>
    \A s \in EmittedObjects(tab) : tab.symbols[s].name = n => tab.symbols[s].level # 0

(* A field of a variable is addressed by what the variable is.              *)
FieldAccessRight ==
  \A n \in Names : Visible(env, "ids", n).kind \in {"object", "static"} =>
    FieldAccessName(tab.symbols[LookupID(tab, n)]) # "frame"
=============================================================================
