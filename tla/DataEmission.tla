---------------------------- MODULE DataEmission ----------------------------
(***************************************************************************)
(* The data of a program, from its declarations to the bytes the assembler *)
(* makes of them.  A compilation is a sequence of files, a file a sequence *)
(* of declarations.  The checks give every variable its type and its list  *)
(* of values (declchk.c); emit.c then walks the strings and the variables  *)
(* and writes directives (x86linux.c), which fill the image of the file.   *)
(* The assembler is external: a value of some bytes, that of a symbol plus *)
(* a number if it is an address, stands where the location counter is.     *)
(***************************************************************************)
EXTENDS CTypes

CONSTANTS Compilations,     \* sequences of files
          Text,             \* the characters of every string, with its final 0
          \* The checks of declchk.c: the type of a declarator behind specifiers; what an initialiser
          \* comes to for a type, the file's strings so far given (see Initialization in Declarations).
          CheckedType(_, _), CheckedInitializer(_, _, _),
          Compatible(_, _),
          NameOfString(_)     \* the name of a string, numbered from 0

VARIABLES files,        \* the files left; the first is being compiled
          phase,        \* "check", "strings", "globals" or "end"
          declared,     \* what the checks have seen of the file: declarations and types
          globals,      \* its variables
          strings,      \* its strings
          emitted,      \* how many of the strings, or of the variables, are written
          ok,           \* no error was reported in it
          org,          \* ORG: what the compiler takes for the location counter
          loc,          \* the assembler's location counter in the data section
          labels,       \* << name, place >> of every label
          image,        \* the values that are not 0, each at its place
          common,       \* << name, size >> of what is left to the linker
          first         \* this is the first file
vars == << files, phase, declared, globals, strings, emitted, ok, org, loc, labels, image, common, first >>

(* A declaration: static, extern or no storage class; value is what C says *)
(* of the variable's contents, in the terms of the image.                  *)
Declaration(id, sclass, specs, dec, init, value) ==
    [id |-> id, sclass |-> sclass, specs |-> specs, dec |-> dec, init |-> init, value |-> value]
Value(at, size, sym, n) == [at |-> at, size |-> size, sym |-> sym, n |-> n]
Moved(values, by) == {Value(v.at + by, v.size, v.sym, v.n) : v \in values}

NewFile == /\ phase' = "check"
           /\ declared' = << >> /\ globals' = << >> /\ strings' = << >> /\ emitted' = 0 /\ ok' = TRUE
           /\ loc' = 0 /\ labels' = {} /\ image' = {} /\ common' = {}

Init ==
    /\ files \in Compilations
    /\ phase = "check"
    /\ declared = << >> /\ globals = << >> /\ strings = << >> /\ emitted = 0 /\ ok = TRUE
    /\ org = 0 /\ loc = 0 /\ labels = {} /\ image = {} /\ common = {}
    /\ first = TRUE

-----------------------------------------------------------------------------
(* Checks. *)

File == Head(files)
Checked == Len(declared)
LookupID(id) == {g \in DOMAIN globals : globals[g].id = id}

NoData == << >>
Global(id, ty, sclass) == [id |-> id, ty |-> ty, sclass |-> sclass, data |-> NoData, defined |-> FALSE]

\* A function has no data; an illegal type is reported.
DeclareFunction(d, ty) ==
    /\ ty = Illegal \/ ty.categ = "FUNCTION"
    /\ ok' = (ok /\ ty # Illegal)
    /\ UNCHANGED << globals, strings >>

\* The storage class of the declaration, and that of a variable it declares again.
ClassOf(d, old) == IF d.sclass = "extern" THEN old.sclass ELSE d.sclass
Conflict(sclass, old) == \/ sclass = "none" /\ old.sclass = "static"
                         \/ sclass # "none" /\ old.sclass # sclass
Renewed(d, old, c) ==
    [id |-> old.id, ty |-> old.ty,
     sclass |-> IF old.sclass = "extern" THEN ClassOf(d, old) ELSE old.sclass,
     data |-> IF d.init = << >> THEN old.data ELSE c.data,
     defined |-> old.defined \/ d.init # << >>]
DeclareAs(d, c, old) ==
    /\ globals' = IF LookupID(d.id) = {} THEN Append(globals, Renewed(d, old, c))
                  ELSE [g \in DOMAIN globals |-> IF g \in LookupID(d.id) THEN Renewed(d, old, c)
                                                 ELSE globals[g]]
    /\ ok' = /\ ok /\ c.ok /\ ~Conflict(ClassOf(d, old), old)
             /\ Compatible(c.ty, old.ty)
             /\ ~(old.defined /\ d.init # << >>)
    /\ strings' = c.strings
\* An array that has no length gets that of its initialiser.
DeclareWith(d, c) ==
    DeclareAs(d, c, IF LookupID(d.id) = {} THEN Global(d.id, c.ty, d.sclass)
                    ELSE globals[CHOOSE g \in LookupID(d.id) : TRUE])
DeclareVariable(d, ty) ==
    /\ ty # Illegal /\ ty.categ # "FUNCTION"
    /\ DeclareWith(d, IF d.init = << >> THEN [ok |-> TRUE, ty |-> ty, data |-> NoData, strings |-> strings]
                      ELSE CheckedInitializer(d.init[1], ty, strings))

Declare(d, ty) ==
    /\ DeclareFunction(d, ty) \/ DeclareVariable(d, ty)
    /\ declared' = Append(declared, ty)
CheckGlobalDeclaration ==
    /\ phase = "check" /\ Checked < Len(File)
    /\ LET d == File[Checked + 1] IN Declare(d, CheckedType(d.specs, d.dec))
    /\ UNCHANGED << files, phase, emitted, org, loc, labels, image, common, first >>

\* A file with errors is not emitted.
EndOfChecks ==
    /\ phase = "check" /\ Checked = Len(File)
    /\ phase' = IF ok THEN "strings" ELSE "end"
    /\ UNCHANGED << files, declared, globals, strings, emitted, ok, org, loc, labels, image, common, first >>

-----------------------------------------------------------------------------
(* Directives. *)

\* Mutant of DefineGlobal: what was written is forgotten.
DefineGlobalStill(id, ty, size, values) ==
    LET align == AlignOf(ty)
        at == IF org % align # 0 THEN Aligned(loc, align) ELSE loc
    IN  /\ org' = Aligned(org, align)
        /\ labels' = labels \cup {<< id, at >>}
        /\ image' = image \cup Moved(values, at)
        /\ loc' = at + size
\* A label, on the alignment ORG seems to call for, and the values behind it.
DefineGlobal(id, ty, size, values) ==
    LET align == AlignOf(ty)
        at == IF org % align # 0 THEN Aligned(loc, align) ELSE loc
    IN  /\ org' = Aligned(org, align) + SizeOf(ty)
        /\ labels' = labels \cup {<< id, at >>}
        /\ image' = image \cup Moved(values, at)
        /\ loc' = at + size

DefineString(at, text, size) ==
    {Value(at + i - 1, 1, "", Text[text][i]) : i \in {j \in 1 .. size : Text[text][j] # 0}}

\* What is added to the symbol is printed behind " + " or " - " with its own sign, so
\* that a number below 0 is added as well.
DefineAddress(at, e) ==
    LET n == e.kids[2].val IN {Value(at, 4, e.kids[1].id, IF n < 0 THEN -n ELSE n)}

\* The width is that of the type; nothing is written for what is no scalar.
Width(e) == IF e.op = "+" THEN 4 ELSE IF e.op = "str" \/ IsScalar(e.ty) THEN SizeOf(e.ty) ELSE 0
DefineValue(at, e) ==
    {v \in {Value(at, Width(e), "", e.val % Modulus(TypeCode(e.ty)))} : v.n # 0 /\ v.size # 0}

Emitted(at, e) == CASE e.op = "+" -> DefineAddress(at, e)
                    [] e.op = "str" -> DefineString(at, e.id, SizeOf(e.ty))
                    [] e.op \notin {"+", "str"} -> DefineValue(at, e)

\* The space before a value, and the value: the size so far is what the checks make of it,
\* the place what was written.
EmitDatum(written, d) ==
    LET at == written.at + (d.offset - written.size)
    IN  [size |-> d.offset + SizeOf(d.expr.ty), at |-> at + Width(d.expr),
         values |-> written.values \cup Emitted(at, d.expr)]
EmitData(data) ==
    LET written[i \in 0 .. Len(data)] ==
            IF i = 0 THEN [size |-> 0, at |-> 0, values |-> {}] ELSE EmitDatum(written[i - 1], data[i])
    IN  written[Len(data)]

-----------------------------------------------------------------------------
(* Emission: the strings, then the variables. *)

EmitString ==
    /\ phase = "strings" /\ emitted < Len(strings)
    /\ LET str == strings[emitted + 1]
       IN  DefineGlobal(NameOfString(emitted), str.ty, SizeOf(str.ty),
                        DefineString(0, str.id, SizeOf(str.ty)))
    /\ emitted' = emitted + 1
    /\ UNCHANGED << files, phase, declared, globals, strings, ok, common, first >>
EndOfStrings ==
    /\ phase = "strings" /\ emitted = Len(strings)
    /\ phase' = "globals" /\ emitted' = 0
    /\ UNCHANGED << files, declared, globals, strings, ok, org, loc, labels, image, common, first >>

\* What some other file defines, what the linker places, and what has data.
SkipGlobal(g) ==
    /\ g.sclass = "extern" /\ g.data = NoData
    /\ UNCHANGED << org, loc, labels, image, common >>
DefineCommData(g) ==
    /\ g.sclass # "extern" /\ g.data = NoData
    /\ common' = common \cup {<< g.id, SizeOf(g.ty) >>}
    /\ UNCHANGED << org, loc, labels, image >>
EmitDataGlobal(g) ==
    LET written == EmitData(g.data)
        rest == IF written.size < SizeOf(g.ty) THEN SizeOf(g.ty) - written.size ELSE 0
    IN  /\ g.data # NoData
        /\ DefineGlobal(g.id, g.ty, written.at + rest, written.values)
        /\ UNCHANGED common
EmitGlobal ==
    /\ phase = "globals" /\ emitted < Len(globals)
    /\ LET g == globals[emitted + 1] IN SkipGlobal(g) \/ DefineCommData(g) \/ EmitDataGlobal(g)
    /\ emitted' = emitted + 1
    /\ UNCHANGED << files, phase, declared, globals, strings, ok, first >>
EndOfGlobals ==
    /\ phase = "globals" /\ emitted = Len(globals)
    /\ phase' = "end" /\ emitted' = 0
    /\ UNCHANGED << files, declared, globals, strings, ok, org, loc, labels, image, common, first >>

\* The next file starts anew, but for ORG.
NextFile ==
    /\ phase = "end" /\ Len(files) > 1
    /\ NewFile
    /\ files' = Tail(files) /\ first' = FALSE
    /\ UNCHANGED org

Next == CheckGlobalDeclaration \/ EndOfChecks \/ EmitString \/ EndOfStrings \/ EmitGlobal
            \/ EndOfGlobals \/ NextFile
Spec == Init /\ [][Next]_vars

-----------------------------------------------------------------------------
(* The data that stand in the image. *)

Places(name) == {l[2] : l \in {k \in labels : k[1] = name}}
\* The values from one place to another, counted from the first.
Between(p, q) == Moved({v \in image : p <= v.at /\ v.at < q}, -p)
\* The room of a variable: nothing else begins in it, and it ends before the data do.
Room(p, size) == p + size <= loc /\ \A l \in labels : l[2] <= p \/ p + size <= l[2]

\* The values the checks found for a variable, each where its member is: an address is
\* that of its symbol and the number behind it, whatever its sign.
Found(at, e) == IF e.op = "+" THEN {Value(at, 4, e.kids[1].id, e.kids[2].val)} ELSE Emitted(at, e)
Contents(data) == UNION {Found(data[i].offset, data[i].expr) : i \in 1 .. Len(data)}
\* No address lies before its symbol.
NoneBefore(data) == \A i \in 1 .. Len(data) : data[i].expr.op = "+" => ~(data[i].expr.kids[2].val < 0)

(* What the checks leave: every value behind the one before, of the size   *)
(* that is written for it, and in the room its variable has; and no name   *)
(* of a string that is another string's, or a variable's.                  *)
Sized(ty) == SizeOf(ty) \in Nat /\ AlignOf(ty) \in {1, 2, 4}
InOrder(data, size) ==
    /\ Len(data) \in Nat
    /\ \A i \in 1 .. Len(data) :
        /\ data[i].offset \in Nat /\ data[i].offset + SizeOf(data[i].expr.ty) <= size
        /\ SizeOf(data[i].expr.ty) \in Nat /\ Width(data[i].expr) = SizeOf(data[i].expr.ty)
        /\ i > 1 => data[i].offset >= data[i - 1].offset + SizeOf(data[i - 1].expr.ty)
DataInOrder ==
    /\ \A g \in DOMAIN globals :
         globals[g].data # NoData => Sized(globals[g].ty) /\ InOrder(globals[g].data, SizeOf(globals[g].ty))
    /\ Len(strings) \in Nat
    /\ \A k \in 1 .. Len(strings) :
         /\ Sized(strings[k].ty)
         /\ \A j \in 1 .. Len(strings) : NameOfString(j - 1) = NameOfString(k - 1) => j = k
         /\ \A g \in DOMAIN globals : globals[g].id # NameOfString(k - 1)

\* What stands under a name, and nowhere else: its values, in room of its own, where its type may be.
StandsAt(p, ty, values) ==
    /\ Room(p, SizeOf(ty)) /\ Between(p, p + SizeOf(ty)) = values
    /\ first => p % AlignOf(ty) = 0
Stands(name, ty, values) ==
    \E p \in Places(name) : Places(name) = {p} /\ StandsAt(p, ty, values)

(* Every variable that has data and every string stands in the image once, *)
(* with the values that the checks found for it and with zeros elsewhere,  *)
(* in room of its own; in the first file, on the alignment of its type:    *)
(* ORG follows the assembler's location counter there, and the size the    *)
(* code counts with is what has been written (x86linux.c:87, emit.c:24).   *)
(* A variable with an address before its symbol is left out: emit.c:42     *)
(* writes such an address as one behind it.                                *)
PlacementRight ==
    phase = "end" /\ ok /\ DataInOrder =>
        /\ \A g \in DOMAIN globals : globals[g].data # NoData /\ NoneBefore(globals[g].data) =>
             Stands(globals[g].id, globals[g].ty, Contents(globals[g].data))
        /\ \A k \in 1 .. Len(strings) :
             Stands(NameOfString(k - 1), strings[k].ty, DefineString(0, strings[k].id, SizeOf(strings[k].ty)))
=============================================================================
