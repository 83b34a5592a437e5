-------------------------------- MODULE CData --------------------------------
(***************************************************************************)
(* What C says of declarations: the type a name has is the one that makes  *)
(* an expression written like its declarator have the specifiers' type;    *)
(* the values of an initialiser fill the members in their order, braces    *)
(* round a member's own being optional; what is not mentioned is 0.        *)
(***************************************************************************)
EXTENDS DataEmission, Declarations, SequencesExt

CONSTANT Object     \* what the pointers that are members point to

\* A string as it is written.
Str(text) == [Node("str", << >>) EXCEPT !.id = text, !.ty = ArrayOf(Len(Text[text]), TChar)]

(* Specifiers, in any order. *)
WordsOf == [char |-> {<< "char" >>, << "signed", "char" >>},
            uchar |-> {<< "unsigned", "char" >>},
            short |-> {<< "short" >>, << "short", "int" >>, << "signed", "short" >>,
                       << "signed", "short", "int" >>},
            ushort |-> {<< "unsigned", "short" >>, << "unsigned", "short", "int" >>},
            int |-> {<< "int" >>, << "signed" >>, << "signed", "int" >>},
            uint |-> {<< "unsigned" >>, << "unsigned", "int" >>}]
TypeOfWords == [char |-> TChar, uchar |-> TUChar, short |-> TShort, ushort |-> TUShort,
                int |-> TInt, uint |-> TUInt]
Orders(ws) == {[i \in DOMAIN ws |-> ws[p[i]]] : p \in Permutations(DOMAIN ws)}
Spellings(name) == UNION {Orders(ws) : ws \in WordsOf[name]}

Meant(specs) ==
    IF "type" \in ToSet(specs.words) THEN specs.named
    ELSE TypeOfWords[CHOOSE name \in DOMAIN TypeOfWords : specs.words \in Spellings(name)]

(* The type of an expression with the form of the declarator. *)
RECURSIVE Nearest(_), Used(_, _), LegalDeclarator(_, _), IsMeant(_, _), LegalSpecifiers(_)
\* What the name itself is, read off the declarator round it.
Nearest(dec) == IF dec.kind = "name" \/ dec.dec[1].kind = "name" THEN dec ELSE Nearest(dec.dec[1])
\* The members a structure's declarations stand for: << specifiers, declarator, with a name >>.
MembersOf(d) ==
    CASE d[2] # << >> -> [i \in DOMAIN d[2] |-> << d[1], d[2][i], TRUE >>]
      [] d[2] = << >> /\ d[1].words = << "struct" >> -> << << d[1], Name, FALSE >> >>
      [] OTHER -> << >>
Members(specs) == FlattenSeq([i \in DOMAIN specs.members |-> MembersOf(specs.members[i])])
IsMeant(specs, ty) ==
    LET members == Members(specs)
    IN  IF specs.words # << "struct" >> THEN ty = Meant(specs)
        ELSE /\ IsRecord(ty) /\ Len(ty.of) = Len(members)
             /\ \A i \in DOMAIN members : /\ IsMeant(members[i][1], Used(members[i][2], ty.of[i]))
                                        /\ IsAnonymous(ty.of[i]) = ~members[i][3]
ParameterMeant(param, ty) ==
    LET kind == Nearest(param[2]).kind
        len == Nearest(param[2]).len
    IN  CASE kind = "name" -> IsMeant(param[1], ty)
          [] kind = "pointer" -> IsMeant(param[1], Used(param[2], ty))
          [] kind = "array" -> IsPtr(ty) /\ IsMeant(param[1], Used(param[2], ArrayOf(len, Base(ty))))
          [] kind = "function" -> IsPtr(ty) /\ IsMeant(param[1], Used(param[2], Base(ty)))
NoParameters == << << Specifiers(<< "void" >>, TVoid), Name >> >>
Used(dec, ty) ==
    LET t == Used(dec.dec[1], ty)
        params == IF dec.params = NoParameters THEN << >> ELSE dec.params
    IN  CASE dec.kind = "name" -> ty
          [] dec.kind = "pointer" -> IF IsPtr(t) THEN Base(t) ELSE Illegal
          [] dec.kind = "array" -> IF t.categ = "ARRAY" /\ dec.len \in {0, t.len} THEN Base(t) ELSE Illegal
          [] dec.kind = "function" ->
               IF /\ t.categ = "FUNCTION"
                  /\ (t.len = 1) = dec.more
                  /\ Len(t.of) = Len(params) + 1
                  /\ \A i \in DOMAIN params : ParameterMeant(params[i], t.of[i + 1])
               THEN Base(t) ELSE Illegal

\* No function gives an array or a function, or takes void and more; no array is of functions or of arrays without length.
LegalDeclarator(dec, of) ==
    CASE dec.kind = "name" -> TRUE
      [] dec.kind = "pointer" -> LegalDeclarator(dec.dec[1], "object")
      [] dec.kind = "array" ->
           /\ of \notin {"function", "open"} /\ dec.len >= 0
           /\ LegalDeclarator(dec.dec[1], IF dec.len = 0 THEN "open" ELSE "array")
      [] dec.kind = "function" ->
           /\ of \notin {"function", "array", "open"}
           /\ dec.params = NoParameters \/ \A i \in DOMAIN dec.params : dec.params[i] # NoParameters[1]
           /\ \A i \in DOMAIN dec.params : LegalDeclarator(dec.params[i][2], "object")
           /\ LegalDeclarator(dec.dec[1], "function")

KindOf(ty) == IF ty.categ = "FUNCTION" THEN "function" ELSE IF ty.categ # "ARRAY" THEN "object"
              ELSE IF ty.len = 0 THEN "open" ELSE "array"
KindMeant(specs) == IF specs.words = << "struct" >> THEN "object" ELSE KindOf(Meant(specs))
\* Members are no functions; only the last may have no length, and not if it is alone.
LegalSpecifiers(specs) ==
    \/ specs.words = << "type" >>
    \/ specs.words = << "void" >>
    \/ \E name \in DOMAIN TypeOfWords : specs.words \in Spellings(name)
    \/ LET members == Members(specs)
       IN  /\ specs.words = << "struct" >>
           /\ \A i \in DOMAIN members :
                LET near == Nearest(members[i][2])
                IN  /\ LegalSpecifiers(members[i][1])
                    /\ LegalDeclarator(members[i][2], KindMeant(members[i][1]))
                    /\ near.kind # "function"
                    /\ near.kind = "name" => KindMeant(members[i][1]) # "function"
                    /\ near.kind = "array" /\ near.len = 0 => i = Len(members) /\ i > 1
LegalType(d) == LegalSpecifiers(d.specs) /\ LegalDeclarator(d.dec, KindMeant(d.specs))

-----------------------------------------------------------------------------
(* Initialisers.  A writing: the items that give an object its values,     *)
(* those values, whether the next item can only be for what follows, and   *)
(* whether the first item is in braces.  The values tell the members       *)
(* apart: each is one more than its place.                                 *)

Writing(items, values, closed, braced) ==
    [items |-> items, values |-> values, closed |-> closed, braced |-> braced]
ScalarWriting(e, values) == Writing(<< Expr(e) >>, values, TRUE, FALSE)
InBraces(w) == Writing(<< Braces(w.items) >>, w.values, TRUE, TRUE)
Characters(at, text, size) ==
    {v \in {Value(at + i - 1, 1, "", Text[text][i]) : i \in 1 .. IF size < Len(Text[text]) THEN size
                                                                ELSE Len(Text[text])} : v.n # 0}
StringWriting(ty, at, text) == ScalarWriting(Str(text), Characters(at, text, SizeOf(ty)))

Parts(ty) == IF ty.categ = "ARRAY" THEN [i \in 1 .. ty.len |-> Base(ty)] ELSE ty.of
PlaceOf(ty, i) == IF ty.categ = "ARRAY" THEN (i - 1) * SizeOf(Base(ty)) ELSE FieldOffset(ty, i)

RECURSIVE Writings(_, _), Lists(_, _, _)
\* The values of the parts before one, and then some of the others.
Lists(ty, at, i) ==
    LET these == Writings(Parts(ty)[i], at + PlaceOf(ty, i))
        more == {w \in these : w.closed}
    IN  IF i = Len(Parts(ty)) THEN these
        ELSE {[w EXCEPT !.closed = FALSE] : w \in these} \cup
             {Writing(w.items \o l.items, w.values \cup l.values, l.closed, w.braced) :
                  w \in more, l \in Lists(ty, at, i + 1)}
Writings(ty, at) ==
    LET n == at + 1
        lists == Lists(ty, at, 1)
    IN  CASE IsInteg(ty) -> {ScalarWriting(Constant(TInt, n), {Value(at, SizeOf(ty), "", n)})}
          [] IsPtr(ty) -> IF Base(ty) = TChar
                          THEN {ScalarWriting(Str("ab"), {Value(at, 4, "ab", 0)})}
                          ELSE {ScalarWriting(Unary("&x", Id(Object)), {Value(at, 4, Object, 0)})}
          [] OTHER -> {InBraces(w) : w \in lists}
                      \cup {w \in lists : ~w.braced}
                      \cup IF ty.categ = "ARRAY" /\ Base(ty) = TChar
                           THEN {StringWriting(ty, at, "ab"), InBraces(StringWriting(ty, at, "ab"))}
                           ELSE {}

-----------------------------------------------------------------------------
(* What a declaration should come to: whether C allows its initialiser,    *)
(* the size of the variable and its values.                                *)
Meaning(legal, size, values) == [legal |-> legal, size |-> size, values |-> values]

Linkage[i \in Nat] ==
    LET d == File[i]
        before == {j \in 1 .. i - 1 : File[j].id = d.id}
    IN  CASE d.sclass = "static" -> "internal"
          [] d.sclass = "extern" /\ before # {} -> Linkage[Latest(before)]
          [] d.sclass = "none" \/ (d.sclass = "extern" /\ before = {}) -> "external"
\* One variable, declared twice with one type and given its values once.
Agree(i, j) ==
    LET d == File[i]
        e == File[j]
    IN  /\ Linkage[i] = Linkage[j]
        /\ d.init = << >> \/ e.init = << >>
        /\ Meant(d.specs) = Meant(e.specs)
        /\ d.dec = e.dec
FileLegal ==
    /\ \A i \in DOMAIN File : LegalType(File[i]) /\ File[i].value.legal
    /\ \A i, j \in DOMAIN File : i < j /\ File[i].id = File[j].id => Agree(i, j)

\* What an address points to: a string that stands under its name, or else a variable.
Holds(k) == LET text == strings[k].id
                size == Len(Text[text])
            IN  \E p \in Places(StringName(k - 1)) : Between(p, p + size) = Characters(0, text, size)
Resolved(v) ==
    LET held == {k \in DOMAIN strings : v.sym = StringName(k - 1) /\ Holds(k)}
    IN  IF held = {} THEN v ELSE [v EXCEPT !.sym = strings[Latest(held)].id]
Defined(d) == \E p \in Places(d.id) :
    /\ Places(d.id) = {p} /\ Room(p, d.value.size)
    /\ {Resolved(v) : v \in Between(p, p + d.value.size)} = d.value.values
Tentative(d) == Places(d.id) = {} /\ << d.id, d.value.size >> \in common
OnlyDeclared(id) == Places(id) = {} /\ \A c \in common : c[1] # id

(* Every file C allows is emitted, and no other.  In the data of one that   *)
(* is, a variable that has an initialiser stands once, with its size and    *)
(* the values the initialiser gives its members and zeros elsewhere, and   *)
(* strings pointed to stand there in full; one without is left to the      *)
(* linker, or to another file (declchk.c:595, 884; emit.c:11).              *)
DataRight ==
    phase = "end" =>
        /\ ok = FileLegal
        /\ ok => DataInOrder
        /\ ok => \A i \in DOMAIN File :
             LET d == File[i]
                 same == {j \in DOMAIN File : File[j].id = d.id}
             IN  IF declared[i].categ = "FUNCTION" THEN OnlyDeclared(d.id)
                 ELSE IF d.init # << >> THEN Defined(d)
                 ELSE IF \E j \in same : File[j].init # << >> THEN TRUE
                 ELSE IF \E j \in same : File[j].sclass # "extern" THEN Tentative(d)
                 ELSE OnlyDeclared(d.id)

(* A name has the type that its declarator promises: an expression of the  *)
(* declarator's form has the type of the specifiers.  Specifiers and       *)
(* declarators C forbids are reported (declchk.c:16, 192, 391).             *)
TypesRight ==
    \A i \in DOMAIN declared :
        LET d == File[i]
        IN  /\ (declared[i] # Illegal) = LegalType(d)
            /\ LegalType(d) => IsMeant(d.specs, Used(d.dec, declared[i]))
=============================================================================
