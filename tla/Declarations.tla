---------------------------- MODULE Declarations ----------------------------
(***************************************************************************)
(* What declchk.c makes of a declaration: the type that specifiers and     *)
(* declarator give a name, the layout of a structure, and the list of      *)
(* values at offsets that an initialiser stands for.  Qualifiers and tags  *)
(* are left out; names of types are those of SymbolTable.                  *)
(***************************************************************************)
EXTENDS Expressions, FiniteSets, TLC

(* Declarators.  A length of 0 is one that is not given. *)
Declarator(kind, dec, len, params, more) ==
    [kind |-> kind, dec |-> dec, len |-> len, params |-> params, more |-> more]
Name == Declarator("name", << >>, 0, << >>, FALSE)
PointerDeclarator(dec) == Declarator("pointer", << dec >>, 0, << >>, FALSE)
ArrayDeclarator(dec, len) == Declarator("array", << dec >>, len, << >>, FALSE)
FunctionDeclarator(dec, params, more) == Declarator("function", << dec >>, 0, params, more)

\* Specifiers: words, and what a typedef, a structure or an enumeration stands for.
Specifiers(words, named) == [words |-> words, named |-> named, members |-> << >>]
\* A structure's members: << specifiers, declarators >>.
StructSpecifier(members) == [words |-> << "struct" >>, named |-> TVoid, members |-> members]

\* A structure that is a member without a name: its members are its owner's.
Anonymous(ty) == [ty EXCEPT !.len = 1]
IsAnonymous(ty) == IsRecord(ty) /\ ty.len = 1

-----------------------------------------------------------------------------
(* Types. *)

AdjustParameter(ty) ==
    CASE ty.categ = "ARRAY" -> PointerTo(Base(ty))
      [] ty.categ = "FUNCTION" -> PointerTo(ty)
      [] OTHER -> ty

Words(specs, ws) == {i \in DOMAIN specs.words : specs.words[i] \in ws}
Latest(is) == CHOOSE i \in is : \A j \in is : j <= i

RECURSIVE CheckDeclarationSpecifiers(_), CheckStructSpecifier(_)
RECURSIVE DeriveType(_, _), ParameterType(_)
\* The last word that names a type counts; "type" stands for what is named.
CheckDeclarationSpecifiers(specs) ==
    LET signs == Words(specs, {"signed", "unsigned"})
        types == Words(specs, {"char", "int", "void", "type", "struct"})
        unsigned == signs # {} /\ specs.words[Latest(signs)] = "unsigned"
        word == IF types = {} THEN "int" ELSE specs.words[Latest(types)]
        ty == CASE word = "char" -> TChar [] word = "int" -> TInt [] word = "void" -> TVoid
                [] word = "type" -> specs.named
                [] word = "struct" -> CheckStructSpecifier(specs.members)
    IN  CASE Cardinality(signs) > 1 -> Illegal
          [] Cardinality(signs) <= 1 ->
               CASE ty = TChar -> IF unsigned THEN TUChar ELSE TChar
                 [] ty = TInt -> IF Words(specs, {"short"}) # {}
                                 THEN IF unsigned THEN TUShort ELSE TShort
                                 ELSE IF unsigned THEN TUInt ELSE TInt
                 [] OTHER -> IF signs # {} THEN Illegal ELSE ty

\* The outermost declarator is what is nearest to the type of the specifiers.
RECURSIVE Derivations(_), DerivationsFromName(_)
\* Mutant of Derivations: from the name outwards.
DerivationsFromName(dec) ==
    IF dec.kind = "name" THEN << >>
    ELSE DerivationsFromName(dec.dec[1]) \o << [dec EXCEPT !.dec = << >>] >>
Derivations(dec) ==
    IF dec.kind = "name" THEN << >>
    ELSE << [dec EXCEPT !.dec = << >>] >> \o Derivations(dec.dec[1])

\* A parameter: << specifiers, declarator >>.
ParameterType(param) ==
    LET ty == DeriveType(Derivations(param[2]), CheckDeclarationSpecifiers(param[1]))
    IN  IF ty = Illegal THEN Illegal ELSE AdjustParameter(ty)

\* A first parameter that is just void must be the only one.
StartsWithVoid(params) == /\ params # << >> /\ params[1][2].kind = "name"
                          /\ CheckDeclarationSpecifiers(params[1][1]) = TVoid
CheckParameters(params) ==
    IF StartsWithVoid(params) THEN IF Len(params) = 1 THEN << >> ELSE << Illegal >>
    ELSE [i \in DOMAIN params |-> ParameterType(params[i])]

DeriveType(derivs, ty) ==
    LET d == Head(derivs)
        params == CheckParameters(d.params)
    IN  CASE derivs = << >> \/ ty = Illegal -> ty
          [] derivs # << >> /\ ty # Illegal ->
               DeriveType(Tail(derivs),
                   CASE d.kind = "pointer" -> PointerTo(ty)
                     [] d.kind = "array" ->
                          IF ty.categ = "FUNCTION" \/ IsIncomplete(ty) \/ d.len < 0 THEN Illegal
                          ELSE ArrayOf(d.len, ty)
                     [] d.kind = "function" ->
                          IF ty.categ \in {"ARRAY", "FUNCTION"} \/ \E i \in DOMAIN params : params[i] = Illegal
                          THEN Illegal ELSE FunctionType(ty, params, d.more))

DeclaredType(specs, dec) == DeriveType(Derivations(dec), CheckDeclarationSpecifiers(specs))

-----------------------------------------------------------------------------
(* Structures. *)

RECURSIVE CheckStructDeclarators(_, _, _), CheckStructDeclarations(_, _)
\* Nothing may follow an array without a length.
CheckStructDeclarators(fields, ty, decs) ==
    LET fty == DeriveType(Derivations(Head(decs)), ty)
        wrong == \/ Illegal \in {fields[i] : i \in DOMAIN fields} \cup {fty}
                 \/ fty.categ = "FUNCTION"
                 \/ \E i \in DOMAIN fields : IsIncomplete(fields[i])
    IN  IF decs = << >> THEN fields
        ELSE CheckStructDeclarators(IF wrong THEN << Illegal >> ELSE Append(fields, fty),
                                    ty, Tail(decs))
CheckStructDeclarations(fields, decls) ==
    LET d == Head(decls)
        ty == CheckDeclarationSpecifiers(d[1])
    IN  CASE decls = << >> -> fields
          [] decls # << >> /\ d[2] = << >> ->
               CheckStructDeclarations(IF IsRecord(ty) THEN Append(fields, Anonymous(ty)) ELSE fields,
                                       Tail(decls))
          [] OTHER -> CheckStructDeclarations(CheckStructDeclarators(fields, ty, d[2]), Tail(decls))
CheckStructSpecifier(decls) ==
    LET fields == CheckStructDeclarations(<< >>, decls)
        flexible == \E i \in DOMAIN fields : IsIncomplete(fields[i])
    IN  IF \/ Illegal \in {fields[i] : i \in DOMAIN fields}
           \/ flexible /\ SizeOf(Struct(fields)) = 0
        THEN Illegal ELSE Struct(fields)

\* The offsets of the fields; those of an anonymous structure count from its owner.
RECURSIVE AddOffset(_, _, _), EndRecord(_)
AddOffset(ty, layout, n) ==
    [i \in DOMAIN layout |->
        LET at == layout[i].at + n
        IN  [at |-> at, in |-> IF IsAnonymous(ty.of[i]) THEN AddOffset(ty.of[i], layout[i].in, at)
                               ELSE layout[i].in]]
EndRecord(ty) ==
    IF ~IsRecord(ty) THEN << >>
    ELSE [i \in DOMAIN ty.of |->
            LET at == FieldOffset(ty, i)
            IN  [at |-> at, in |-> IF IsAnonymous(ty.of[i])
                                   THEN AddOffset(ty.of[i], EndRecord(ty.of[i]), at)
                                   ELSE << >>]]

RECURSIVE LayoutOf(_)
LayoutOf(ty) == IF ty.categ = "ARRAY" THEN LayoutOf(Base(ty)) ELSE EndRecord(ty)

-----------------------------------------------------------------------------
(* Initialisers.  An item is an expression or a list of items in braces;   *)
(* the cursor stands before the items that are left, and has the data      *)
(* found so far and the strings that were given a name of their own.       *)

Expr(e) == [braces |-> FALSE, items |-> << >>, expr |-> e]
Braces(items) == [braces |-> TRUE, items |-> items, expr |-> Invalid]
Cursor(items, strings) == [items |-> items, offset |-> 0, size |-> 0, data |-> << >>,
                           strings |-> strings, ok |-> TRUE]
Initial(c, e, ok) ==
    [c EXCEPT !.items = Tail(@), !.ok = @ /\ ok,
              !.data = Append(@, [offset |-> c.offset, expr |-> e])]

\* A failed check, or one that stops the compiler, leaves the initialiser without a value.
Adjusted(e) == IF e \in Failures THEN e ELSE Adjust(e, TRUE)

RECURSIVE InnerExpression(_)
InnerExpression(item) ==
    IF item.braces THEN InnerExpression(Head(item.items)) ELSE item.expr

\* A string that is no array's becomes a variable, numbered from 0.
StringName(k) == ".str" \o ToString(k)
AddString(strings, e) == [e EXCEPT !.op = "id", !.id = StringName(Len(strings)), !.lvalue = TRUE]

\* Of a pointer and an integer of one size, either is stored as the other.
KeepsBits(ty, e) == SizeOf(ty) = SizeOf(e.ty) /\ ((IsPtr(ty) /\ IsInteg(e.ty)) \/ (IsPtr(e.ty) /\ IsInteg(ty)))
InitScalar(c, ty, e) ==
    LET ok == e \notin Failures /\ CanAssign(ty, e)
    IN  Initial(c, IF ok /\ ~KeepsBits(ty, e) THEN Cast(ty, e) ELSE e, ok)
CheckGiven(c, ty, given) ==
    IF given.op = "str"
    THEN InitScalar([c EXCEPT !.strings = Append(@, given)], ty, Adjust(AddString(c.strings, given), TRUE))
    ELSE InitScalar(c, ty, Adjusted(CheckExpression(given)))
CheckScalar(c, ty) == CheckGiven(c, ty, InnerExpression(Head(c.items)))

IsString(items, ty) ==
    /\ ~Head(items).braces
    /\ Head(items).expr.op = "str"
    /\ Base(ty).categ \in {"CHAR", "UCHAR"}
\* As much of a string as the array has room for, without the final 0 if need be.
CheckString(c, ty, e) ==
    LET size == IF IsIncomplete(ty) \/ SizeOf(ty) > SizeOf(e.ty) THEN SizeOf(e.ty) ELSE SizeOf(ty)
    IN  [Initial(c, [e EXCEPT !.ty = ArrayOf(size, TChar)], TRUE) EXCEPT !.size = size]

RECURSIVE CheckInitializerInternal(_, _, _), CheckElementsInPlace(_, _, _, _, _)
RECURSIVE CheckElements(_, _, _, _, _), CheckFields(_, _, _, _, _)
\* Mutant of CheckElements: every element starts where the one before stopped.
CheckElementsInPlace(c, ty, layout, start, size) ==
    IF c.items = << >> \/ (size > 0 /\ size = SizeOf(ty)) THEN [c EXCEPT !.size = size]
    ELSE CheckElementsInPlace(CheckInitializerInternal(c, Base(ty), layout), ty, layout, start,
                              size + SizeOf(Base(ty)))
CheckElements(c, ty, layout, start, size) ==
    LET next == size + SizeOf(Base(ty))
        done == CheckInitializerInternal(c, Base(ty), layout)
    IN  IF c.items = << >> \/ (size > 0 /\ size = SizeOf(ty)) THEN [c EXCEPT !.size = size]
        ELSE CheckElements([done EXCEPT !.offset = start + next], ty, layout, start, next)

CheckFields(c, ty, layout, start, i) ==
    LET fty == ty.of[i]
        anonymous == IsAnonymous(fty)
        done == CheckInitializerInternal(
                    [c EXCEPT !.offset = IF anonymous THEN start ELSE start + layout[i].at], fty,
                    IF anonymous THEN layout[i].in ELSE LayoutOf(fty))
    IN  IF c.items = << >> \/ i > Len(ty.of) THEN [c EXCEPT !.offset = start + SizeOf(ty)]
        ELSE CheckFields(done, ty, layout, start, i + 1)

CheckInitializerInternal(c, ty, layout) ==
    LET init == Head(c.items)
        inner == [c EXCEPT !.items = IF init.braces THEN init.items ELSE @]
        done == IF IsRecord(ty) THEN CheckFields(inner, ty, layout, c.offset, 1)
                ELSE CheckElements(inner, ty, layout, c.offset, 0)
    IN  CASE IsScalar(ty) -> CheckScalar(c, ty)
          [] /\ ty.categ = "ARRAY" /\ IsString(inner.items, ty)
             /\ init.braces => Len(init.items) = 1 -> CheckString(c, ty, Head(inner.items).expr)
          [] OTHER -> IF init.braces THEN [done EXCEPT !.items = Tail(c.items)] ELSE done

\* What is in no braces is a string for an array, and no constant for a structure.
CheckInitializer(init, ty, strings) ==
    LET c == Cursor(<< init >>, strings)
    IN  IF \/ IsRecord(ty) /\ ~init.braces
           \/ ty.categ = "ARRAY" /\ ~init.braces /\ ~IsString(c.items, ty)
        THEN [c EXCEPT !.ok = FALSE]
        ELSE CheckInitializerInternal(c, ty, LayoutOf(ty))

\* An array that has no length gets that of its initialiser.
Completed(ty, c) ==
    IF IsIncomplete(ty) /\ SizeOf(Base(ty)) # 0 THEN ArrayOf(c.size \div SizeOf(Base(ty)), Base(ty)) ELSE ty

-----------------------------------------------------------------------------
(* Constants.  An address is a symbol and what is added to it. *)

RECURSIVE Walk(_, _), CheckAddressConstant(_)
Walk(e, offset) ==
    CASE e.op = "." -> Walk(e.kids[1], offset + e.val)
      [] e.op = "[]" /\ IsConst(e.kids[2]) -> Walk(e.kids[1], offset + e.kids[2].val)
      [] e.op \notin {".", "[]"} \/ (e.op = "[]" /\ ~IsConst(e.kids[2])) -> << e, offset >>

CheckAddressConstant(e) ==
    LET addr == CheckAddressConstant(e.kids[1])
        sign == IF e.op = "+" THEN 1 ELSE -1
        found == Walk(IF e.op = "&x" THEN e.kids[1] ELSE e, 0)
    IN  CASE ~IsPtr(e.ty) -> Invalid
          [] IsPtr(e.ty) /\ e.op \in {"+", "-"} ->
               IF addr = Invalid \/ ~IsConst(e.kids[2]) THEN Invalid
               ELSE [e EXCEPT !.kids[1] = addr.kids[1], !.kids[2].val = @ + sign * addr.kids[2].val]
          [] OTHER ->
               IF found[1].op = "id" /\ (e.op = "&x" \/ found[1].isarray)
               THEN [Binary("+", found[1], Constant(TInt, found[2])) EXCEPT !.ty = e.ty]
               ELSE Invalid

InitConstant(e) == IF e.op \in {"const", "str"} THEN e ELSE CheckAddressConstant(e)
CheckInitConstant(c) ==
    LET data == [i \in DOMAIN c.data |-> [c.data[i] EXCEPT !.expr = InitConstant(@)]]
    IN  [c EXCEPT !.data = data,
                  !.ok = @ /\ \A i \in DOMAIN data : data[i].expr # Invalid]

(* What an initialiser comes to: the type it completes, its data, and the  *)
(* file's strings with those it adds.                                      *)
Initialization(init, ty, strings) ==
    LET c == CheckInitConstant(CheckInitializer(init, ty, strings))
    IN  [ok |-> c.ok, ty |-> Completed(ty, c), data |-> c.data, strings |-> c.strings]
=============================================================================
