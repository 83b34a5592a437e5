------------------------------ MODULE Typedefs ------------------------------
(***************************************************************************)
(* How the parser of UCC knows a typedef name from any other identifier    *)
(* (decl.c, stmt.c).  There is one entry for a name in TypedefNames,       *)
(* whatever the scopes that declare it; an entry is overloaded while a     *)
(* block gives its name to something else.                                 *)
(*                                                                         *)
(* The source program is the environment: it opens and closes blocks and   *)
(* declares names, at most once as a typedef and never as both in one      *)
(* scope.  Three variables are history: what the source declares in the    *)
(* scopes that are open, and the two kinds of names the entries are not    *)
(* made for.                                                               *)
(***************************************************************************)
EXTENDS Integers, Sequences

CONSTANTS
    Ids,
    MaxLevel,       \* bound on the nesting of blocks
    NULL

ASSUME TypedefsAssumption ==
    /\ MaxLevel \in Nat \ {0}
    /\ NULL \notin [level : Nat, overload : BOOLEAN, overloadLevel : Nat]

VARIABLES
    Level,
    TypedefNames,   \* the entry of each name, NULL before its first typedef
    OverloadNames,  \* the names whose entries are in the vector
    declaring,      \* the declarations of the innermost block are being parsed
    scopes,         \* history: what each open scope declares a name as
    local,          \* history: names a block has declared as a typedef
    nested          \* history: names a block declared within another block's declaration

vars == <<Level, TypedefNames, OverloadNames, declaring, scopes, local, nested>>

-----------------------------------------------------------------------------
\* The test that steers the parser
IsTypedefName(id) ==
    LET tn == TypedefNames[id]
    IN  tn # NULL /\ tn.level <= Level /\ ~tn.overload

\* Mutant of NewLevel: the first typedef of a name decides its level
NewLevelKept(tn) == tn.level

\* A typedef in an outer scope than before
NewLevel(tn) == IF Level < tn.level THEN Level ELSE tn.level

\* Mutant of Overloads: off by one level
OverloadsDeeper(id, level) == TypedefNames[id] # NULL /\ level > TypedefNames[id].level + 1

\* A declaration at this level hides the typedef
Overloads(id, level) == TypedefNames[id] # NULL /\ level > TypedefNames[id].level

Declared(S, kind) == [id \in Ids |-> IF id \in S THEN kind ELSE "none"]

\* What the source may declare in the scope that is open
MayDeclare(S, kind) ==
    /\ declaring
    /\ \A id \in S : scopes[Len(scopes)][id] \in {"none", kind}

InScope(S, kind) ==
    scopes' = [scopes EXCEPT ![Len(scopes)] =
                  [id \in Ids |-> IF id \in S THEN kind ELSE @[id]]]

\* CheckTypedefName with TK_TYPEDEF, for each declarator
Typedef(S) ==
    /\ MayDeclare(S, "typedef")
    /\ TypedefNames' = [id \in Ids |->
           IF id \notin S THEN TypedefNames[id]
           ELSE IF TypedefNames[id] = NULL
           THEN [level |-> Level, overload |-> FALSE, overloadLevel |-> 0]
           ELSE [TypedefNames[id] EXCEPT !.level = NewLevel(TypedefNames[id])]]
    /\ InScope(S, "typedef")
    /\ local' = IF Level = 0 THEN local ELSE local \cup S
    /\ UNCHANGED <<Level, OverloadNames, declaring, nested>>

\* CheckTypedefName with any other storage class
Overload(S, level) ==
    /\ TypedefNames' = [id \in Ids |->
           IF id \in S /\ Overloads(id, level)
           THEN [TypedefNames[id] EXCEPT !.overload = TRUE, !.overloadLevel = level]
           ELSE TypedefNames[id]]
    /\ OverloadNames' = OverloadNames \cup {id \in S : Overloads(id, level)}

\* Some block around the innermost one declares the name
Hidden(id) == \E l \in 2 .. Len(scopes) - 1 : scopes[l][id] = "other"

Declare(S) ==
    /\ MayDeclare(S, "other")
    /\ Overload(S, Level)
    /\ InScope(S, "other")
    /\ nested' = nested \cup {id \in S : Hidden(id)}
    /\ UNCHANGED <<Level, declaring, local>>

\* The head of a function definition and the brace of its body: the parameters are
\* checked one level deeper
Function(params) ==
    /\ Level = 0
    /\ Overload(params, 1)
    /\ Level' = 1
    /\ scopes' = Append(scopes, Declared(params, "other"))
    /\ UNCHANGED <<declaring, local, nested>>

\* The left brace of a block
OpenBlock ==
    /\ Level \in 1 .. MaxLevel - 1
    /\ Level' = Level + 1
    /\ declaring' = TRUE
    /\ scopes' = Append(scopes, Declared({}, "none"))
    /\ UNCHANGED <<TypedefNames, OverloadNames, local, nested>>

\* PostCheckTypedef: the declaration that overloads the entry is in the block
Ended(id) == Level <= TypedefNames[id].overloadLevel

\* Mutant of StillOverloaded: the vector is emptied by every block
StillOverloadedNever == {}

StillOverloaded == {id \in OverloadNames : ~Ended(id) /\ TypedefNames[id].overload}

\* Mutant of LeaveBlock: the level is not restored
LeaveBlockStays == Level' = Level

LeaveBlock == Level' = Level - 1

\* PostCheckTypedef, and the right brace of a block or a body
CloseBlock ==
    /\ Level > 0
    /\ TypedefNames' = [id \in Ids |->
           IF id \in OverloadNames /\ Ended(id)
           THEN [TypedefNames[id] EXCEPT !.overload = FALSE]
           ELSE TypedefNames[id]]
    /\ OverloadNames' = IF StillOverloaded = {} THEN {} ELSE OverloadNames
    /\ LeaveBlock
    /\ declaring' = (Level = 1)
    /\ scopes' = SubSeq(scopes, 1, Level)
    /\ nested' = IF Level = 1 THEN {} ELSE nested
    /\ UNCHANGED local

-----------------------------------------------------------------------------
Init ==
    /\ Level = 0
    /\ TypedefNames = [id \in Ids |-> NULL]
    /\ OverloadNames = {}
    /\ declaring = TRUE
    /\ scopes = <<Declared({}, "none")>>
    /\ local = {}
    /\ nested = {}

Next ==
    \/ \E S \in SUBSET Ids : Typedef(S) \/ Declare(S) \/ Function(S)
    \/ OpenBlock
    \/ CloseBlock

Spec == Init /\ [][Next]_vars

-----------------------------------------------------------------------------
(* Properties                                                               *)

Entry == [level : Nat, overload : BOOLEAN, overloadLevel : Nat]

TypeOK ==
    /\ Level \in 0 .. MaxLevel
    /\ TypedefNames \in [Ids -> Entry \cup {NULL}]
    /\ OverloadNames \in SUBSET {id \in Ids : TypedefNames[id] # NULL}
    /\ declaring \in BOOLEAN
    /\ scopes \in Seq([Ids -> {"none", "typedef", "other"}])
    /\ Len(scopes) = Level + 1
    /\ local \in SUBSET Ids
    /\ nested \in SUBSET Ids

\* What the innermost scope that declares the name declares it as
Means(id, kind) ==
    \E l \in 1 .. Len(scopes) :
        /\ scopes[l][id] = kind
        /\ \A m \in l + 1 .. Len(scopes) : scopes[m][id] = "none"

\* Outside of functions the parser is always right: whatever the functions before did
\* to an entry is undone, and a typedef in a block does not hide one at file scope.
FileScopeRight ==
    Level = 0 => \A id \in Ids : IsTypedefName(id) <=> Means(id, "typedef")

\* Inside functions it is right about names that are typedefs at file scope only and
\* that no block declares inside a block that declares them.
BlockScopeRight ==
    \A id \in Ids \ (local \cup nested) : IsTypedefName(id) <=> Means(id, "typedef")

\* PostCheckTypedef finds every overloaded entry in OverloadNames, which it empties no
\* earlier than the last of them has ended and no later than the end of the function.
OverloadsListed ==
    /\ \A id \in Ids :
           TypedefNames[id] # NULL /\ TypedefNames[id].overload => id \in OverloadNames
    /\ Level = 0 => OverloadNames = {}

\* doc/typedef.md: a typedef is not visible outside the function that declares it.
TypedefEnds ==
    \A id \in Ids : IsTypedefName(id) => \E l \in 1 .. Len(scopes) : scopes[l][id] = "typedef"

\* doc/typedef.md: a typedef name that is redeclared in a function is no type name there.
RedeclaredIsNoType ==
    \A id \in Ids \ local : Means(id, "other") => ~IsTypedefName(id)
=============================================================================
