------------------------- MODULE SymbolTableProofs -------------------------
(***************************************************************************)
(* For any names, any nesting and any number of declarations: the table of *)
(* symbol.c agrees with C's environment, as long as the program uses none  *)
(* of the forms of extern the code confuses (AnyExtern is FALSE).          *)
(***************************************************************************)
EXTENDS SymbolTableLemmas, FiniteSetTheorems

-----------------------------------------------------------------------------
(* The inductive invariant: the table mirrors C's environment (TabInv), and *)
(* the program is between two declarations of a translation unit.           *)

\* The scopes' kinds: parameter lists bind nothing that has linkage
Contexts == {"file", "def", "list", "body", "block"}
CtxInv ==
  /\ ctx \in Seq(Contexts) /\ Len(ctx) = Len(env)
  /\ \A i \in 1..Len(ctx) :
       /\ ctx[i] = "file" <=> i = 1
       /\ ctx[i] = "def" => i = 2 /\ head # NoHead
       /\ ctx[i] \in {"def", "list"} => \A n \in Names : ~HasLinkage(env[i].ids[n])
       /\ head # NoHead => ctx[i] \in {"file", "def", "list"}

\* The function whose body is to come may still be defined
HeadLink == IF head.sclass = "static" THEN "internal"
            ELSE IF HasLinkage(env[1].ids[head.name]) THEN env[1].ids[head.name].link ELSE "external"
HeadInv ==
  head # NoHead =>
    /\ head \in [name : Names, sclass : {"none", "static"}]
    /\ env[1].ids[head.name].kind \in {"unbound", "function"}
    /\ Agrees(head.name, "function", HeadLink)
    /\ ~linked[head.name].def

\* Between its list and its body, the parameter scope of that function was left and is saved
SavedInv ==
  /\ envSaved \in CScopes
  /\ head # NoHead /\ (Len(ctx) = 1 \/ ctx[2] # "def") => Detached(tab, env, tab.saved, envSaved)

IInv == TabInv(tab, env, linked) /\ CtxInv /\ HeadInv /\ SavedInv

-----------------------------------------------------------------------------
(* Declarations without linkage.                                            *)

\* What a lookup leaves in the symbol it found
LEMMA LookedUp ==
  ASSUME NEW t, NEW e, NEW l, TabInv(t, e, l), NEW n \in Names
  PROVE  LET s == LookupID(t, n)
             u == LookedUpID(t, n)
             f == FoundIn(t, "ids", n)
         IN  /\ TabInv(u, e, l) /\ u.Level = Len(e) - 1 /\ Len(u.symbols) = Len(t.symbols)
             /\ u.scopes = t.scopes /\ s \in Nat
             /\ s = 0 => u = t /\ \A i \in 1..Len(e) : t.scopes[i].ids[n] = 0
             /\ s # 0 => /\ f \in 1..Len(e) /\ s = t.scopes[f].ids[n] /\ s \in 1..Len(t.symbols)
                         /\ u.symbols[s].level = f - 1
                         /\ SameButLevel(t.symbols[s], u.symbols[s])
                         /\ \A j \in f+1..Len(e) : t.scopes[j].ids[n] = 0
<1> DEFINE s == Found(t, "ids", n)
           u == LookedUpID(t, n)
           f == FoundIn(t, "ids", n)
<1>1. TabInv(u, e, l) /\ Relevelled(t, u, n)
  BY LookupKeeps
<1>2. /\ Len(t.scopes) = Len(e) /\ Len(e) \in Nat /\ t.Level = Len(e) - 1
      /\ \A i \in 1..Len(e) : /\ t.scopes[i].level = i - 1 /\ NamedIn(t, t.scopes[i])
                              /\ t.scopes[i].ids[n] \in Nat
  BY NamedTables DEF TabInv
<1>3. /\ s = 0 => \A i \in 1..Len(e) : t.scopes[i].ids[n] = 0
      /\ s # 0 => /\ f \in 1..Len(e) /\ s = t.scopes[f].ids[n]
                  /\ \A j \in f+1..Len(e) : t.scopes[j].ids[n] = 0
  BY <1>2, LookupFinds
<1>4. s = 0 => u = t
  BY DEF LookedUpID
<1> HIDE DEF s, u, f
<1>5. s # 0 => s \in 1..Len(t.symbols)
  BY <1>2, <1>3 DEF NamedIn
<1>6. s # 0 => u.symbols[s].level = f - 1 /\ SameButLevel(t.symbols[s], u.symbols[s])
  <2>1. s # 0 => u.symbols[s].level = t.scopes[f].level /\ SameButLevel(t.symbols[s], u.symbols[s])
    BY <1>1, <1>5 DEF Relevelled, s, f
  <2> QED BY <1>2, <1>3, <2>1
<1>7. u.Level = Len(e) - 1 /\ Len(u.symbols) = Len(t.symbols) /\ u.scopes = t.scopes
  BY <1>1, <1>2 DEF Relevelled, SameScopes
<1>8. s \in Nat
  BY <1>2, <1>3
<1> QED BY <1>1, <1>3, <1>4, <1>5, <1>6, <1>7, <1>8 DEF s, u, f, LookupID

\* A name that is free in the current scope is not in the current table
LEMMA FreeHere ==
  ASSUME NEW t, NEW e, NEW l, TabInv(t, e, l), NEW n \in Names, ~Bound(e[Len(e)].ids[n]),
         Len(e) = 1 => l[n].kind = "unbound"
  PROVE  /\ t.scopes[Len(e)].ids[n] = 0
         /\ LookupID(t, n) # 0 => LookedUpID(t, n).symbols[LookupID(t, n)].level < Len(e) - 1
<1>1. Len(e) \in Nat /\ Len(e) > 0
  BY NamedTables DEF TabInv
<1>2. t.scopes[Len(e)].ids[n] = 0
  <2>1. CASE Len(e) = 1
    BY <2>1 DEF TabInv, FileAgree
  <2>2. CASE Len(e) # 1
    <3>1. Len(e) \in 2..Len(e)
      <4>1. \A c \in Nat : c > 0 /\ c # 1 => c \in 2..c
        OBVIOUS
      <4> QED BY <1>1, <2>2, <4>1
    <3> QED BY <3>1 DEF TabInv, Inner
  <2> QED BY <2>1, <2>2
<1>3. ASSUME LookupID(t, n) # 0 PROVE LookedUpID(t, n).symbols[LookupID(t, n)].level < Len(e) - 1
  <2> DEFINE s == LookupID(t, n)
             f == FoundIn(t, "ids", n)
             u == LookedUpID(t, n)
  <2>1. f \in 1..Len(e) /\ s = t.scopes[f].ids[n] /\ u.symbols[s].level = f - 1 /\ s # 0
    BY <1>3, LookedUp
  <2> HIDE DEF s, f, u
  <2>2. f # Len(e)
    BY <1>2, <2>1
  <2>3. u.symbols[s].level < Len(e) - 1
    BY <1>1, <2>1, <2>2
  <2> QED BY <2>3 DEF s, u
<1> QED BY <1>2, <1>3

\* The four declarations without linkage
OwnAdded(t, n, kind) ==
  IF kind = "typedef" THEN AddTypedefName(t, n)
  ELSE IF kind = "enum" THEN AddEnumConstant(t, n) ELSE AddVariable(t, n, kind)
OwnClass(kind) == IF kind \in {"auto", "static"} THEN kind ELSE "none"

\* A new symbol for a declaration without linkage keeps the invariant
LEMMA OwnAddedKeeps ==
  ASSUME NEW t, NEW e, NEW l, TabInv(t, e, l), NEW n \in Names, NEW kind \in OwnKinds,
         ~Bound(e[Len(e)].ids[n]),
         Len(e) = 1 => kind \in {"typedef", "enum"} /\ l[n].kind = "unbound"
  PROVE  LET u == OwnAdded(t, n, kind)
             x == Entity(kind, "none", Len(t.symbols) + 1)
         IN  /\ TabInv(u, Bind(e, "ids", n, x), l)
             /\ Placed(t, u, n, {Len(e)}, Fresh(SymbolKind[kind], n, OwnClass(kind), Len(e) - 1),
                       kind = "static")
<1> DEFINE c == Len(e)
           u == OwnAdded(t, n, kind)
           x == Entity(kind, "none", Len(t.symbols) + 1)
           sym == Fresh(SymbolKind[kind], n, OwnClass(kind), c - 1)
<1>1. /\ t \in Tables /\ Len(t.scopes) = c /\ c \in Nat /\ c > 0 /\ t.Level = c - 1
      /\ t.scopes[c].level = c - 1 /\ Current(t) = c /\ e \in Seq(CScopes)
  BY NamedTables DEF TabInv, Current, Framed
<1>2. Placed(t, u, n, {c}, sym, kind = "static")
  <2>1. CASE kind = "typedef"
    <3>1. u = LET new == NewSymbol(t, "TypedefName", n, "none") IN AddSymbol(new, Current(t), Newest(new))
      BY <2>1 DEF OwnAdded, AddTypedefName, Current, NewSymbol
    <3>2. Placed(t, u, n, {c}, Fresh("TypedefName", n, "none", c - 1), FALSE)
      BY <1>1, <3>1, AddNamePlaced DEF Kinds, Classes
    <3>3. sym = Fresh("TypedefName", n, "none", c - 1) /\ (kind = "static") = FALSE
      BY <2>1 DEF SymbolKind, OwnClass
    <3> QED BY <3>2, <3>3
  <2>2. CASE kind = "enum"
    <3>1. u = LET new == NewSymbol(t, "EnumConstant", n, "none") IN AddSymbol(new, Current(t), Newest(new))
      BY <2>2 DEF OwnAdded, AddEnumConstant, Current, NewSymbol
    <3>2. Placed(t, u, n, {c}, Fresh("EnumConstant", n, "none", c - 1), FALSE)
      BY <1>1, <3>1, AddNamePlaced DEF Kinds, Classes
    <3>3. sym = Fresh("EnumConstant", n, "none", c - 1) /\ (kind = "static") = FALSE
      BY <2>2 DEF SymbolKind, OwnClass
    <3> QED BY <3>2, <3>3
  <2>3. CASE kind \in {"auto", "static"}
    <3>1. u = AddVariable(t, n, kind) /\ sym = Fresh("Variable", n, kind, c - 1)
      BY <2>3 DEF OwnAdded, SymbolKind, OwnClass
    <3>2. ~AlsoGlobal(t, kind)
      BY <2>3 DEF AlsoGlobal
    <3>3. OnGlobals(t, kind) = (kind = "static")
      BY <1>1, <2>3 DEF OnGlobals
    <3>4. Placed(t, AddVariable(t, n, kind), n,
                 IF AlsoGlobal(t, kind) THEN {1, Current(t)} ELSE {Current(t)},
                 Fresh("Variable", n, kind, t.scopes[Current(t)].level), OnGlobals(t, kind))
      BY <1>1, <2>3, AddVariablePlaced DEF Classes
    <3> QED BY <1>1, <3>1, <3>2, <3>3, <3>4
  <2> QED BY <2>1, <2>2, <2>3 DEF OwnKinds
<1>3. x \in Entities
  BY <1>1, TableFields DEF Entity, Entities
<1>4. Rebound(e, Bind(e, "ids", n, x), c, n, x)
  BY <1>1, <1>3, BindIds
<1>5. TabInv(u, Bind(e, "ids", n, x), l)
  <2>1. kind \in {"auto", "static"} => OwnClass(kind) = kind
    BY DEF OwnClass
  <2>2. (kind = "static") \in BOOLEAN
    OBVIOUS
  <2> QED BY <1>2, <1>4, <2>1, <2>2, OwnKeeps
<1> QED BY <1>2, <1>5

\* ... after the lookup every declaration begins with
LEMMA LookedUpAdded ==
  ASSUME NEW t, NEW e, NEW l, TabInv(t, e, l), NEW n \in Names, NEW kind \in OwnKinds,
         ~Bound(e[Len(e)].ids[n]),
         Len(e) = 1 => kind \in {"typedef", "enum"} /\ l[n].kind = "unbound"
  PROVE  TabInv(OwnAdded(LookedUpID(t, n), n, kind),
                Bind(e, "ids", n, Entity(kind, "none", Newest(t) + 1)), l)
<1>1. TabInv(LookedUpID(t, n), e, l) /\ Len(LookedUpID(t, n).symbols) = Newest(t)
  BY LookedUp DEF Newest
<1> QED BY <1>1, OwnAddedKeeps

\* An enumerator C allows is not an error: it becomes a new symbol
LEMMA EnumeratorIs ==
  ASSUME NEW t, NEW e, NEW l, TabInv(t, e, l), NEW n \in Names, ~Bound(e[Len(e)].ids[n]),
         Len(e) = 1 => l[n].kind = "unbound"
  PROVE  CheckEnumerator(t, n) = OwnAdded(LookedUpID(t, n), n, "enum")
<1>1. LookedUpID(t, n).Level = Len(e) - 1 /\ Len(e) \in Nat
  BY LookedUp, NamedTables DEF TabInv
<1>2. LookupID(t, n) # 0 => LookedUpID(t, n).symbols[LookupID(t, n)].level # Len(e) - 1
  BY <1>1, FreeHere
<1> QED BY <1>1, <1>2 DEF CheckEnumerator, OwnAdded

\* A local variable C allows is not an error, whatever the level of what the lookup found
LEMMA LocalIs ==
  ASSUME NEW t, NEW e, NEW l, TabInv(t, e, l), NEW n \in Names, ~Bound(e[Len(e)].ids[n]),
         Len(e) > 1, NEW kind \in {"auto", "static"}
  PROVE  CheckLocalDeclaration(t, n, kind) = OwnAdded(LookedUpID(t, n), n, kind)
<1>1. LookedUpID(t, n).Level = Len(e) - 1 /\ Len(e) # 1
  BY LookedUp
<1>2. LookupID(t, n) # 0 => OuterOnly(LookedUpID(t, n), LookupID(t, n))
  BY <1>1, FreeHere DEF OuterOnly
<1> QED BY <1>2 DEF CheckLocalDeclaration, OwnAdded

-----------------------------------------------------------------------------
(* Declarations with linkage in a block.                                    *)

\* The linkage that extern gives; at file scope it is that of the file's declaration
LEMMA ExternLinkIs ==
  ASSUME NEW e, NEW l, LinkedAgree(e, l), Len(e) \in Nat, NEW n \in Names
  PROVE  /\ ExternLink(e, n) \in Links
         /\ Len(e) = 1 =>
              ExternLink(e, n) = IF HasLinkage(e[1].ids[n]) THEN e[1].ids[n].link ELSE "external"
<1> DEFINE v == Visible(e, "ids", n)
<1>1. ExternLink(e, n) = IF HasLinkage(v) THEN v.link ELSE "external"
  BY DEF ExternLink
<1>2. HasLinkage(v) => v.link \in Links
  <2> SUFFICES ASSUME HasLinkage(v) PROVE v.link \in Links
    OBVIOUS
  <2>1. Bound(v)
    BY UnboundFields DEF Bound
  <2>2. PICK i \in 1..Len(e) : v = e[i].ids[n]
    BY <2>1, VisibleIsInnermost
  <2> HIDE DEF v
  <2>3. v.kind \in LinkedKinds /\ v.kind = l[n].kind /\ v.link = l[n].link
    BY <2>2 DEF LinkedAgree
  <2>4. l[n].kind # "unbound"
    BY <2>3 DEF LinkedKinds
  <2> QED BY <2>3, <2>4 DEF LinkedAgree
<1>3. ASSUME Len(e) = 1 PROVE v = e[1].ids[n]
  <2>1. CASE Bound(e[1].ids[n])
    <3>1. 1 \in 1..Len(e) /\ \A j \in 1 + 1..Len(e) : ~Bound(e[j]["ids"][n])
      BY <1>3
    <3> QED BY <2>1, <3>1, InnermostIsVisible
  <2>2. CASE ~Bound(e[1].ids[n])
    <3>1. \A i \in 1..Len(e) : ~Bound(e[i]["ids"][n])
      BY <1>3, <2>2
    <3> QED BY <2>2, <3>1, NothingVisible DEF Bound
  <2> QED BY <2>1, <2>2
<1> HIDE DEF v
<1>4. ExternLink(e, n) \in Links
  BY <1>1, <1>2 DEF Links
<1> QED BY <1>1, <1>3, <1>4

\* What a name of linkage finds in the table is what it was declared as
LEMMA KindFound ==
  ASSUME NEW t, NEW e, NEW l, TabInv(t, e, l), NEW n \in Names, NEW i \in 1..Len(e),
         t.scopes[i].ids[n] # 0, ~Own(e[1].ids[n]), l[n].kind # "function"
  PROVE  t.symbols[t.scopes[i].ids[n]].kind # "Function"
<1> DEFINE s == t.scopes[i].ids[n]
<1> USE DEF TabInv
<1>1. CASE i = 1
  <2>1. l[n].kind = "unbound" => Bound(e[1].ids[n])
    BY <1>1 DEF FileAgree
  <2>2. HasLinkage(e[1].ids[n]) => l[n].kind # "unbound"
    BY <1>1 DEF LinkedAgree, LinkedKinds
  <2>3. l[n].kind # "unbound"
    BY <2>1, <2>2 DEF Own
  <2>4. l[n].kind = "object"
    <3>1. l[n] \in Linkages
      BY DEF LinkedAgree
    <3> QED BY <2>3, <3>1 DEF Linkages, LinkedKinds
  <2> QED BY <1>1, <2>4 DEF FileAgree, ObjectRecord
<1>2. CASE i # 1
  <2>1. i \in 2..Len(e)
    BY <1>2, NamedTables
  <2>2. Bound(e[i].ids[n])
    BY <2>1 DEF Inner
  <2>3. CASE HasLinkage(e[i].ids[n])
    <3>1. e[i].ids[n].kind \in LinkedKinds /\ e[i].ids[n].kind = l[n].kind
      BY <2>3 DEF LinkedAgree
    <3>2. e[i].ids[n].kind = "object"
      BY <3>1 DEF LinkedKinds
    <3> QED BY <2>1, <3>2 DEF Inner
  <2>4. CASE ~HasLinkage(e[i].ids[n])
    <3>1. Own(e[i].ids[n])
      BY <2>2, <2>4 DEF Own
    <3>2. e[i].ids[n].kind \in OwnKinds /\ StandsFor(t.symbols[s], e[i].ids[n].kind)
      BY <3>1 DEF OwnAgree, OwnIn
    <3> HIDE DEF s
    <3> QED BY <3>2 DEF StandsFor, SymbolKind, OwnKinds, s
  <2> QED BY <2>3, <2>4
<1> QED BY <1>1, <1>2

\* A table is a change of itself
LEMMA SameTable ==
  ASSUME NEW t, NEW e, Framed(t, e), Named(t)
  PROVE  Retouched(t, t)
BY DEF Retouched, SameScopes, SameTags, Named, Framed

\* A block's extern declaration of a variable keeps the invariant (CheckLocalDeclaration)
LEMMA LocalExternKeeps ==
  ASSUME NEW t, NEW e, NEW l, TabInv(t, e, l), NEW n \in Names, Len(e) > 1,
         ~Own(e[Len(e)].ids[n]), ~Own(e[1].ids[n]),
         l[n].kind = "unbound" \/ (l[n].kind = "object" /\ l[n].link = ExternLink(e, n))
  PROVE  TabInv(CheckLocalDeclaration(t, n, "extern"),
                Bind(e, "ids", n, Entity("object", ExternLink(e, n), 0)),
                [l EXCEPT ![n] = [l[n] EXCEPT !.kind = "object", !.link = ExternLink(e, n),
                                              !.plain = FALSE]])
<1> DEFINE c == Len(e)
           link == ExternLink(e, n)
           x == Entity("object", link, 0)
           b == Bind(e, "ids", n, x)
           L == [l[n] EXCEPT !.kind = "object", !.link = link, !.plain = FALSE]
           u == LookedUpID(t, n)
           s == LookupID(t, n)
           f == FoundIn(t, "ids", n)
           v == CheckLocalDeclaration(t, n, "extern")
<1>1. /\ c \in Nat /\ c > 1 /\ c \in 1..c /\ 1 \in 1..c /\ e \in Seq(CScopes) /\ LinkedAgree(e, l)
      /\ Len(t.scopes) = c /\ t.scopes[c].level = c - 1
  <2>1. c \in Nat /\ c > 1 /\ e \in Seq(CScopes) /\ LinkedAgree(e, l) /\ Len(t.scopes) = c
        /\ \A i \in 1..c : t.scopes[i].level = i - 1
    BY NamedTables DEF TabInv, Framed
  <2>2. c \in 1..c /\ 1 \in 1..c
    BY <2>1
  <2> QED BY <2>1, <2>2
<1>2. link \in Links
  BY <1>1, ExternLinkIs
<1>3. /\ TabInv(u, e, l) /\ u.Level = c - 1 /\ u.scopes = t.scopes /\ Len(u.symbols) = Len(t.symbols)
      /\ s # 0 => /\ f \in 1..c /\ s = t.scopes[f].ids[n] /\ u.symbols[s].level = f - 1
  BY LookedUp
<1>4. v = IF s = 0 THEN AddVariable(u, n, "extern")
          ELSE IF OuterOnly(u, s)
               THEN IF ~Compatible(u, s) THEN Error(AddVariable(u, n, "extern")) ELSE AddVariable(u, n, "extern")
               ELSE IF u.symbols[s].sclass = "extern" /\ Compatible(u, s) THEN u ELSE Error(u)
  BY DEF CheckLocalDeclaration
<1>5. x \in Entities /\ x.kind = "object" /\ HasLinkage(x)
  BY <1>2, EntityFields DEF Entity, Entities, Links, LinkedKinds
<1>6. Rebound(e, b, c, n, x)
  BY <1>1, <1>5, BindIds
<1>7. l[n] \in Linkages
  BY <1>1 DEF LinkedAgree
<1>8. L \in Linkages /\ L.kind = "object" /\ L.link = link /\ ~L.plain
  <2>1. "object" \in LinkedKinds
    BY DEF LinkedKinds
  <2> DEFINE K == l[n]
  <2> HIDE DEF link, K
  <2> QED BY <1>2, <1>7, <2>1 DEF Linkages, K
<1> HIDE DEF c, link, x, b, L, u, s, f, v
<1>9. LinkedAgree(b, [l EXCEPT ![n] = L])
  <2>1. LinkedAgree(e, l) /\ c \in 1..Len(e) /\ Len(e) \in Nat /\ c > 1 /\ ~Own(e[1].ids[n])
    BY <1>1 DEF c
  <2>2. Rebound(e, b, c, n, Entity("object", link, 0))
    BY <1>6 DEF x
  <2>3. "object" \in LinkedKinds
    BY DEF LinkedKinds
  <2>4. l[n].kind = "unbound" \/ (l[n].kind = "object" /\ l[n].link = link)
    BY DEF link
  <2> QED BY <1>2, <1>8, <2>1, <2>2, <2>3, <2>4, LinkedAgreeKept
<1>10. s # 0 => Compatible(u, s)
  <2> SUFFICES ASSUME s # 0 PROVE Compatible(u, s)
    OBVIOUS
  <2>1. f \in 1..Len(e) /\ s = u.scopes[f].ids[n] /\ u.scopes[f].ids[n] # 0
    BY <1>3 DEF c
  <2>2. l[n].kind # "function"
    OBVIOUS
  <2> QED BY <1>3, <2>1, <2>2, KindFound DEF Compatible
<1>11. CASE s # 0 /\ ~OuterOnly(u, s)
  <2>1. f = c
    BY <1>1, <1>3, <1>11 DEF OuterOnly
  <2>2. c \in 2..Len(e)
    BY <1>1 DEF c
  <2>3. HasLinkage(e[c].ids[n])
    <3>1. Bound(e[c].ids[n])
      BY <1>3, <1>11, <2>1, <2>2 DEF TabInv, Inner
    <3> QED BY <3>1 DEF Own, c
  <2>4. e[c].ids[n].kind \in LinkedKinds /\ e[c].ids[n].kind = l[n].kind /\ ~l[n].plain
    BY <1>1, <2>2, <2>3 DEF LinkedAgree, c
  <2>5. l[n].kind = "object" /\ e[c].ids[n].kind = "object"
    BY <2>4 DEF LinkedKinds
  <2>6. u.symbols[s].sclass = "extern"
    <3>1. Inner(u, e)
      BY <1>3 DEF TabInv
    <3>2. u.symbols[u.scopes[c].ids[n]].sclass = "extern"
      BY <2>2, <2>5, <3>1 DEF Inner
    <3> QED BY <1>3, <1>11, <2>1, <3>2
  <2>7. v = u
    BY <1>4, <1>10, <1>11, <2>6
  <2>8. Retouched(u, u) /\ ~u.rejected
    BY <1>3, SameTable DEF TabInv
  <2>9. u.scopes[1].ids[n] # 0 => Recorded(u, u.scopes[1].ids[n], L)
    <3> SUFFICES ASSUME u.scopes[1].ids[n] # 0 PROVE ObjectRecord(u, u.scopes[1].ids[n], L)
      BY <1>8 DEF Recorded
    <3>1. ObjectRecord(u, u.scopes[1].ids[n], l[n])
      BY <1>3, <2>5 DEF TabInv, FileAgree
    <3> QED BY <1>8, <2>4, <3>1 DEF ObjectRecord
  <2>10. c \in 1..Len(e) /\ c # 1
    BY <1>1 DEF c
  <2>11. TabInv(u, b, [l EXCEPT ![n] = L])
    BY <1>3, <1>5, <1>6, <1>8, <1>9, <2>5, <2>8, <2>9, <2>10, TouchedKeeps
  <2> QED BY <2>7, <2>11 DEF v, b, L, x, link
<1>12. CASE s = 0 \/ OuterOnly(u, s)
  <2>1. v = AddVariable(u, n, "extern")
    BY <1>4, <1>10, <1>12
  <2> DEFINE sym == Fresh("Variable", n, "extern", u.scopes[Current(u)].level)
  <2>2. u \in Tables /\ Current(u) = c /\ Len(u.scopes) = c /\ c > 1
    BY <1>1, <1>3 DEF TabInv, Framed, Current
  <2>3. AlsoGlobal(u, "extern") /\ ~OnGlobals(u, "extern") /\ OnGlobals(u, "extern") \in BOOLEAN
    BY <1>1, <1>3, <2>2 DEF AlsoGlobal, OnGlobals
  <2>4. OnGlobals(u, "extern") = FALSE
    BY <2>3
  <2>5. Placed(u, v, n, IF AlsoGlobal(u, "extern") THEN {1, Current(u)} ELSE {Current(u)}, sym, OnGlobals(u, "extern"))
    <3>1. "extern" \in Classes /\ Len(u.scopes) > 0
      BY <1>1, <2>2 DEF Classes
    <3> QED BY <2>1, <2>2, <3>1, AddVariablePlaced
  <2>6. Placed(u, v, n, {1, c}, sym, FALSE)
    BY <2>2, <2>3, <2>4, <2>5
  <2>7. sym.name = n /\ sym.kind = "Variable" /\ sym.sclass = "extern"
    BY DEF Fresh
  <2> HIDE DEF sym
  <2>8. Recorded(v, Len(u.symbols) + 1, L)
    <3>1. v.symbols[Len(u.symbols) + 1] = sym
      BY <2>6 DEF Placed
    <3> QED BY <1>8, <2>7, <3>1 DEF Recorded, ObjectRecord
  <2>9. c \in 1..Len(e) /\ ~Own(e[c].ids[n])
    BY <1>1 DEF c
  <2>10. TabInv(v, b, [l EXCEPT ![n] = L])
    BY <1>3, <1>5, <1>6, <1>8, <1>9, <2>6, <2>7, <2>8, <2>9, PlacedKeeps
  <2> QED BY <2>10 DEF v, b, L, x, link
<1> QED BY <1>11, <1>12

\* A block's declaration of a function keeps the invariant, whichever way its
\* comparison comes out
LEMMA LocalFunctionKeeps ==
  ASSUME NEW t, NEW e, NEW l, TabInv(t, e, l), NEW n \in Names, Len(e) > 1, NEW equal \in BOOLEAN,
         ~Own(e[Len(e)].ids[n]), ~Own(e[1].ids[n]), ExternLink(e, n) = "external",
         l[n].kind = "unbound" \/ (l[n].kind = "function" /\ l[n].link = ExternLink(e, n))
  PROVE  TabInv(LocalFunctionDeclarator(t, n, equal),
                Bind(e, "ids", n, Entity("function", ExternLink(e, n), 0)),
                [l EXCEPT ![n] = [l[n] EXCEPT !.kind = "function", !.link = ExternLink(e, n),
                                              !.plain = FALSE]])
<1> DEFINE c == Len(e)
           link == ExternLink(e, n)
           x == Entity("function", link, 0)
           b == Bind(e, "ids", n, x)
           L == [l[n] EXCEPT !.kind = "function", !.link = link, !.plain = FALSE]
           u == LookedUpID(t, n)
           v == LocalFunctionDeclarator(t, n, equal)
<1>1. /\ c \in Nat /\ c > 1 /\ c \in 1..c /\ 1 \in 1..c /\ e \in Seq(CScopes) /\ LinkedAgree(e, l)
      /\ Len(t.scopes) = c
  <2>1. c \in Nat /\ c > 1 /\ e \in Seq(CScopes) /\ LinkedAgree(e, l) /\ Len(t.scopes) = c
    BY NamedTables DEF TabInv, Framed
  <2>2. c \in 1..c /\ 1 \in 1..c
    BY <2>1
  <2> QED BY <2>1, <2>2
<1>2. link \in Links /\ link = "external"
  BY <1>1, ExternLinkIs
<1>3. TabInv(u, e, l) /\ u.scopes = t.scopes
  BY LookedUp
<1>4. v = IF equal THEN u ELSE AddFunction(u, n, "extern")
  BY DEF LocalFunctionDeclarator
<1>5. x \in Entities /\ x.kind = "function" /\ HasLinkage(x)
  BY <1>2, EntityFields DEF Entity, Entities, Links, LinkedKinds
<1>6. Rebound(e, b, c, n, x)
  BY <1>1, <1>5, BindIds
<1>7. l[n] \in Linkages
  BY <1>1 DEF LinkedAgree
<1>8. L \in Linkages /\ L.kind = "function" /\ L.link = link /\ ~L.plain /\ L.def = l[n].def
  <2>1. "function" \in LinkedKinds
    BY DEF LinkedKinds
  <2> DEFINE K == l[n]
  <2> HIDE DEF link, K
  <2> QED BY <1>2, <1>7, <2>1 DEF Linkages, K
<1> HIDE DEF c, link, x, b, L, u, v
<1>9. LinkedAgree(b, [l EXCEPT ![n] = L])
  <2>1. LinkedAgree(e, l) /\ c \in 1..Len(e) /\ Len(e) \in Nat /\ c > 1 /\ ~Own(e[1].ids[n])
    BY <1>1 DEF c
  <2>2. Rebound(e, b, c, n, Entity("function", link, 0))
    BY <1>6 DEF x
  <2>3. "function" \in LinkedKinds
    BY DEF LinkedKinds
  <2>4. l[n].kind = "unbound" \/ (l[n].kind = "function" /\ l[n].link = link)
    BY DEF link
  <2> QED BY <1>2, <1>8, <2>1, <2>2, <2>3, <2>4, LinkedAgreeKept
<1>10. c \in 1..Len(e) /\ c # 1 /\ ~Own(e[c].ids[n])
  BY <1>1 DEF c
<1>11. CASE equal
  <2>1. v = u
    BY <1>4, <1>11
  <2>2. Retouched(u, u) /\ ~u.rejected
    BY <1>3, SameTable DEF TabInv
  <2>3. u.scopes[1].ids[n] # 0 => Recorded(u, u.scopes[1].ids[n], L)
    <3> SUFFICES ASSUME u.scopes[1].ids[n] # 0 PROVE FunctionRecord(u, u.scopes[1].ids[n], L)
      BY <1>8 DEF Recorded
    <3>1. l[n].kind = "function" /\ l[n].link = link
      <4>1. l[n].kind = "unbound" => Bound(e[1].ids[n])
        BY <1>3 DEF TabInv, FileAgree
      <4>2. HasLinkage(e[1].ids[n]) => l[n].kind # "unbound"
        BY <1>1, <1>10 DEF LinkedAgree, LinkedKinds, c
      <4> QED BY <4>1, <4>2 DEF Own, link
    <3>2. FunctionRecord(u, u.scopes[1].ids[n], l[n])
      BY <1>3, <3>1 DEF TabInv, FileAgree
    <3> QED BY <1>8, <3>1, <3>2 DEF FunctionRecord
  <2>4. TabInv(u, b, [l EXCEPT ![n] = L])
    BY <1>3, <1>5, <1>6, <1>8, <1>9, <1>10, <2>2, <2>3, TouchedKeeps
  <2> QED BY <2>1, <2>4 DEF v, b, L, x, link
<1>12. CASE ~equal
  <2>1. v = AddFunction(u, n, "extern")
    BY <1>4, <1>12
  <2> DEFINE sym == Fresh("Function", n, "extern", u.scopes[1].level)
  <2>2. u \in Tables /\ Current(u) = c /\ Len(u.scopes) = c /\ c > 1
    BY <1>1, <1>3 DEF TabInv, Framed, Current
  <2>3. Placed(u, v, n, {1, c}, sym, FALSE)
    <3>1. "extern" \in Classes /\ Len(u.scopes) > 0
      BY <1>1, <2>2 DEF Classes
    <3>2. Placed(u, v, n, {1, Current(u)}, sym, FALSE)
      BY <2>1, <2>2, <3>1, AddFunctionPlaced
    <3> QED BY <2>2, <3>2
  <2>4. sym.name = n /\ sym.kind = "Function" /\ sym.sclass = "extern" /\ ~sym.defined
    BY DEF Fresh
  <2> HIDE DEF sym
  <2>5. Recorded(v, Len(u.symbols) + 1, L)
    <3>1. v.symbols[Len(u.symbols) + 1] = sym
      BY <2>3 DEF Placed
    <3> QED BY <1>2, <1>8, <2>4, <3>1 DEF Recorded, FunctionRecord
  <2>6. TabInv(v, b, [l EXCEPT ![n] = L])
    BY <1>3, <1>5, <1>6, <1>8, <1>9, <1>10, <2>3, <2>4, <2>5, PlacedKeeps
  <2> QED BY <2>6 DEF v, b, L, x, link
<1> QED BY <1>11, <1>12

-----------------------------------------------------------------------------
(* Declarations at file scope.                                              *)

\* t with one symbol changed
OneChanged(t, u, s, a) ==
  /\ Retouched(t, u) /\ u.functions = t.functions /\ u.FSYM = t.FSYM /\ u.symbols[s] = a
  /\ \A j \in 1..Len(t.symbols) : j # s => u.symbols[j] = t.symbols[j]

\* One symbol exchanged for another of the same kind and name
LEMMA SymbolChanges ==
  ASSUME NEW t, NEW e, Framed(t, e), Named(t), NEW s \in 1..Len(t.symbols), NEW a \in SymbolSet,
         a.kind = t.symbols[s].kind, a.name = t.symbols[s].name,
         NEW u \in Tables, u.symbols = [t.symbols EXCEPT ![s] = a], SameScopes(t, u), SameTags(t, u),
         SameLists(t, u)
  PROVE  OneChanged(t, u, s, a)
<1> DEFINE z == [t.symbols EXCEPT ![s] = a]
<1>1. t \in Tables /\ t.functions \subseteq 1..Len(t.symbols) /\ t.FSYM \in 0..Len(t.symbols)
  BY DEF Framed, Named
<1>2. /\ z \in Seq(SymbolSet) /\ Len(z) = Len(t.symbols)
      /\ \A j \in 1..Len(t.symbols) : z[j] = IF j = s THEN a ELSE t.symbols[j]
  BY <1>1, TableFields, ExceptSeq
<1>3. u.symbols = z
  OBVIOUS
<1> HIDE DEF z
<1>4. \A j \in 1..Len(t.symbols) : u.symbols[j].kind = t.symbols[j].kind /\ u.symbols[j].name = t.symbols[j].name
  BY <1>2, <1>3
<1>5. Retouched(t, u)
  BY <1>1, <1>2, <1>3, <1>4 DEF Retouched, SameLists
<1>6. u.symbols[s] = a /\ \A j \in 1..Len(t.symbols) : j # s => u.symbols[j] = t.symbols[j]
  BY <1>2, <1>3
<1> QED BY <1>5, <1>6 DEF OneChanged, SameLists

\* One more declaration at file scope keeps what C says has linkage
LEMMA LinkedAtFile ==
  ASSUME NEW e, NEW l, NEW f, NEW n \in Names, NEW kind \in LinkedKinds, NEW link \in Links,
         NEW L \in Linkages, Len(e) \in Nat, Len(e) > 0, LinkedAgree(e, l),
         Rebound(e, f, 1, n, Entity(kind, link, 0)),
         l[n].kind = "unbound" \/ (l[n].kind = kind /\ l[n].link = link),
         L.kind = kind, L.link = link, L.plain <=> l[n].plain
  PROVE  LinkedAgree(f, [l EXCEPT ![n] = L])
<1> DEFINE c == 1
<1>1. c \in 1..Len(e) /\ ~(c > 1) /\ Rebound(e, f, c, n, Entity(kind, link, 0))
  OBVIOUS
<1> HIDE DEF c
<1> QED BY <1>1, LinkedAgreeKept

\* A new symbol in the file's table for a name with linkage keeps the invariant
LEMMA PlacedAtFile ==
  ASSUME NEW t, NEW e, NEW l, TabInv(t, e, l), NEW n \in Names, NEW u, NEW f, NEW x, NEW L,
         NEW sym, NEW g \in BOOLEAN,
         Placed(t, u, n, {1}, sym, g), sym.name = n, g => sym.kind = "Variable",
         Rebound(e, f, 1, n, x), HasLinkage(x), ~Own(e[1].ids[n]),
         LinkedAgree(f, [l EXCEPT ![n] = L]), L.kind # "unbound",
         L.plain => l[n].plain /\ t.scopes[1].ids[n] = 0,
         Recorded(u, Len(t.symbols) + 1, L)
  PROVE  TabInv(u, f, [l EXCEPT ![n] = L])
<1> DEFINE c == 1
<1>1. {1} = {1, c} /\ ~(c > 1)
  OBVIOUS
<1>2. c \in 1..Len(e)
  BY NamedTables DEF TabInv
<1>3. Placed(t, u, n, {1, c}, sym, g) /\ Rebound(e, f, c, n, x) /\ ~Own(e[c].ids[n])
  BY <1>1
<1> HIDE DEF c
<1> QED BY <1>1, <1>2, <1>3, PlacedKeeps

\* The later of two changes to one name remains
LEMMA TwiceChanged ==
  ASSUME NEW l \in [Names -> Linkages], NEW n \in Names, NEW A, NEW B
  PROVE  [[l EXCEPT ![n] = A] EXCEPT ![n] = B] = [l EXCEPT ![n] = B]
OBVIOUS

\* At file scope the symbol of a name is the file's
LEMMA FileLookup ==
  ASSUME NEW t, NEW e, NEW l, TabInv(t, e, l), NEW n \in Names, Len(e) = 1
  PROVE  LookupID(t, n) = t.scopes[1].ids[n] /\ LookedUpID(t, n).scopes[1].ids[n] = t.scopes[1].ids[n]
<1>1. Len(t.scopes) = 1 /\ 1 \in 1..1
  BY NamedTables DEF TabInv
<1>2. LookedUpID(t, n).scopes = t.scopes
  BY LookedUp
<1>3. CASE t.scopes[1].ids[n] = 0
  <2>1. LookupID(t, n) # 0 => FoundIn(t, "ids", n) \in 1..1 /\ LookupID(t, n) = t.scopes[FoundIn(t, "ids", n)].ids[n]
    BY LookedUp
  <2>2. LookupID(t, n) = 0
    <3> SUFFICES ASSUME LookupID(t, n) # 0 PROVE FALSE
      OBVIOUS
    <3>1. FoundIn(t, "ids", n) = 1
      BY <2>1
    <3> QED BY <1>3, <2>1, <3>1
  <2> QED BY <1>2, <1>3, <2>2
<1>4. CASE t.scopes[1].ids[n] # 0
  <2>1. \A j \in 1+1..Len(t.scopes) : t.scopes[j]["ids"][n] = 0
    BY <1>1
  <2>2. Found(t, "ids", n) = t.scopes[1].ids[n]
    BY <1>1, <1>4, <2>1, LookupStops
  <2> QED BY <1>2, <2>2 DEF LookupID
<1> QED BY <1>3, <1>4

\* What C may declare once more is not taken for a redefinition
LEMMA DeclaredKeeps ==
  ASSUME NEW t, NEW e, NEW l, TabInv(t, e, l), NEW n \in Names, Len(e) = 1, ~Own(e[1].ids[n]),
         t.scopes[1].ids[n] # 0, l[n].kind = "object", l[n].plain,
         NEW sclass \in {"none", "extern", "static"}, NEW init \in BOOLEAN,
         sclass = "static" => l[n].link = "internal", sclass = "none" => l[n].link = "external",
         init => ~l[n].init,
         NEW L \in Linkages, L.kind = "object", L.link = l[n].link, L.plain,
         L.def <=> l[n].def \/ sclass # "extern" \/ init, L.init <=> l[n].init \/ init,
         NEW f, NEW x, Rebound(e, f, 1, n, x), HasLinkage(x), LinkedAgree(f, [l EXCEPT ![n] = L])
  PROVE  LET s  == t.scopes[1].ids[n]
             sc == Inherited(t, s, sclass)
         IN  /\ TabInv(Declared(t, s, sc, init), f, [l EXCEPT ![n] = L])
             /\ sclass # "extern" \/ ~l[n].def => sc = sclass
<1> DEFINE s  == t.scopes[1].ids[n]
           sc == Inherited(t, s, sclass)
           u == Declared(t, s, sc, init)
           was == t.symbols[s]
           conflict == \/ sc = "none" /\ was.sclass = "static"
                       \/ sc # "none" /\ was.sclass # sc
           bad == conflict \/ ~Compatible(t, s) \/ (init /\ was.defined)
           now == [was EXCEPT !.sclass = IF @ = "extern" THEN sc ELSE @,
                              !.idata = @ \/ init,
                              !.defined = @ \/ (init /\ Compatible(t, s))]
           r == t.rejected \/ bad
<1>1. /\ t \in Tables /\ Len(t.scopes) = 1 /\ 1 \in 1..Len(e) /\ NamedIn(t, t.scopes[1])
      /\ ~t.rejected
  BY NamedTables DEF TabInv
<1>2. s \in 1..Len(t.symbols) /\ was.name = n
  BY <1>1 DEF NamedIn
<1>3. ObjectRecord(t, s, l[n])
  BY DEF TabInv, FileAgree
<1>4. was \in SymbolSet /\ Compatible(t, s)
  BY <1>1, <1>2, <1>3, TableFields DEF ObjectRecord, Compatible
<1>5. u = [t EXCEPT !.rejected = r, !.symbols = [t.symbols EXCEPT ![s] = now]]
  BY DEF Declared
<1>6. sc = IF sclass = "extern" THEN was.sclass ELSE sclass
  BY DEF Inherited
<1> HIDE DEF s, sc, u
<1>7. /\ was.kind = "Variable" /\ s \in Objects(t) /\ was.level = 0
      /\ was.sclass \in {"none", "extern", "static"}
      /\ was.sclass = "static" <=> l[n].link = "internal"
      /\ l[n].def <=> was.sclass # "extern" \/ was.idata
      /\ was.defined => l[n].init
  BY <1>3 DEF ObjectRecord
<1> HIDE DEF was, now
<1>8. ~bad
  BY <1>4, <1>6, <1>7
<1>9. sclass # "extern" \/ ~l[n].def => sc = sclass
  BY <1>6, <1>7
<1>10. sc \in {"none", "extern", "static"}
  BY <1>6, <1>7
<1>11. /\ now \in SymbolSet /\ now.kind = was.kind /\ now.name = was.name /\ now.level = was.level
       /\ now.sclass = IF was.sclass = "extern" THEN sc ELSE was.sclass
       /\ now.idata <=> was.idata \/ init
       /\ now.defined <=> was.defined \/ init
  BY <1>4, <1>10 DEF SymbolSet, Classes, now
<1> HIDE DEF bad
<1>12. r = FALSE
  BY <1>1, <1>8
<1> HIDE DEF r
<1>13. OneChanged(t, u, s, now) /\ u.rejected = r
  <2> DEFINE z == [t.symbols EXCEPT ![s] = now]
  <2>1. u = [t EXCEPT !.rejected = r, !.symbols = z]
    BY <1>5
  <2>2. z \in Seq(SymbolSet)
    BY <1>1, <1>2, <1>11, TableFields, ExceptSeq
  <2> HIDE DEF z
  <2>3. /\ u \in Tables /\ u.symbols = z /\ SameScopes(t, u) /\ SameTags(t, u) /\ SameLists(t, u)
        /\ u.rejected = r
    BY <1>1, <1>12, <2>1, <2>2 DEF Tables, SameScopes, SameTags, SameLists
  <2>4. u.symbols = [t.symbols EXCEPT ![s] = now]
    BY <2>3 DEF z
  <2>5. now.kind = t.symbols[s].kind /\ now.name = t.symbols[s].name /\ Framed(t, e) /\ Named(t)
    BY <1>11 DEF was, TabInv
  <2> QED BY <1>2, <1>11, <2>3, <2>4, <2>5, SymbolChanges
<1>14. ObjectRecord(u, s, L)
  <2>1. u.symbols[s] = now /\ Objects(u) = Objects(t)
    BY <1>13 DEF OneChanged, Retouched, Objects
  <2>2. now.kind = "Variable" /\ now.level = 0 /\ now.sclass \in {"none", "extern", "static"}
    BY <1>7, <1>10, <1>11
  <2>3. now.sclass = "static" <=> L.link = "internal"
    BY <1>6, <1>7, <1>11
  <2>4. L.def <=> now.sclass # "extern" \/ now.idata
    BY <1>6, <1>7, <1>11
  <2>5. now.defined => L.init
    BY <1>7, <1>11
  <2> QED BY <1>7, <2>1, <2>2, <2>3, <2>4, <2>5 DEF ObjectRecord
<1>15. \A k \in 1..Len(t.symbols) :
         /\ k # s => u.symbols[k] = t.symbols[k]
         /\ u.symbols[k].level = t.symbols[k].level
  BY <1>11, <1>13 DEF OneChanged, was
<1>16. TabInv(u, f, [l EXCEPT ![n] = L])
  <2>1. Retouched(t, u) /\ ~u.rejected /\ u.functions = t.functions
    BY <1>12, <1>13 DEF OneChanged
  <2>2. Recorded(u, s, L)
    BY <1>14 DEF Recorded
  <2> QED BY <1>1, <1>15, <2>1, <2>2, TouchedKeeps DEF s
<1> QED BY <1>9, <1>16 DEF s, sc, u

\* One declarator at file scope keeps the invariant, and the storage class for the
\* next one
LEMMA GlobalDeclaratorKeeps ==
  ASSUME NEW acc, NEW e, NEW l, NEW d, TabInv(acc.tab, e, l), Len(e) = 1,
         d.name \in Names, d.init \in BOOLEAN, acc.sclass \in {"none", "extern", "static"},
         NEW link \in Links, l[d.name].plain,
         e[1].ids[d.name].kind \in {"unbound", "object"},
         l[d.name].kind = "unbound" \/ (l[d.name].kind = "object" /\ l[d.name].link = link),
         acc.sclass = "static" => link = "internal", acc.sclass = "none" => link = "external",
         acc.sclass = "extern" /\ l[d.name].kind = "unbound" => link = "external",
         d.init => ~l[d.name].init,
         NEW L \in Linkages, L.kind = "object", L.link = link, L.plain,
         L.def <=> l[d.name].def \/ acc.sclass # "extern" \/ d.init,
         L.init <=> l[d.name].init \/ d.init,
         NEW f, Rebound(e, f, 1, d.name, Entity("object", link, 0))
  PROVE  /\ TabInv(GlobalDeclarator(acc, d).tab, f, [l EXCEPT ![d.name] = L])
         /\ acc.sclass # "extern" \/ ~l[d.name].def => GlobalDeclarator(acc, d).sclass = acc.sclass
<1> DEFINE t == acc.tab
           n == d.name
           sclass == acc.sclass
           u == LookedUpID(t, n)
           a == IF LookupID(t, n) = 0 THEN AddVariable(u, n, sclass) ELSE u
           s == LookupID(a, n)
           sc == Inherited(a, s, sclass)
           x == Entity("object", link, 0)
           r == GlobalDeclarator(acc, d)
<1>1. r.tab = Declared(a, s, sc, d.init) /\ r.sclass = sc
  BY DEF GlobalDeclarator
<1>2. /\ t \in Tables /\ Len(t.scopes) = 1 /\ t.scopes[1].level = 0 /\ t.Level = 0
      /\ 1 \in 1..Len(e) /\ LinkedAgree(e, l) /\ l \in [Names -> Linkages]
  BY NamedTables DEF TabInv, LinkedAgree
<1>3. x.kind = "object" /\ HasLinkage(x)
  BY EntityFields DEF Links
<1>4. TabInv(u, e, l) /\ (LookupID(t, n) = 0 => u = t)
  BY LookedUp
<1>5. LookupID(t, n) = t.scopes[1].ids[n] /\ u.scopes[1].ids[n] = t.scopes[1].ids[n]
  BY FileLookup
<1> HIDE DEF t, n, sclass, u, a, s, sc, x, r
<1>6. ~Own(e[1].ids[n])
  <2>1. Own(e[1].ids[n]) => e[1].ids[n].kind \in {"typedef", "enum"}
    BY <1>2 DEF LinkedAgree, n
  <2> QED BY <2>1 DEF n
<1>7. Rebound(e, f, 1, n, x)
  BY DEF n, x
<1>8. LinkedAgree(f, [l EXCEPT ![n] = L])
  <2>1. l[n].kind = "unbound" \/ (l[n].kind = "object" /\ l[n].link = link)
    BY DEF n
  <2>2. "object" \in LinkedKinds
    BY DEF LinkedKinds
  <2>3. L.plain <=> l[n].plain
    BY DEF n
  <2>4. Rebound(e, f, 1, n, Entity("object", link, 0)) /\ Len(e) \in Nat /\ Len(e) > 0
    BY <1>7 DEF x
  <2>5. n \in Names
    BY DEF n
  <2> QED BY <1>2, <2>1, <2>2, <2>3, <2>4, <2>5, LinkedAtFile
<1>9. CASE LookupID(t, n) # 0
  <2>1. a = u /\ u.scopes[1].ids[n] # 0
    BY <1>5, <1>9 DEF a
  <2>2. s = u.scopes[1].ids[n]
    BY <1>4, <2>1, FileLookup DEF s, n
  <2>3. l[n].kind = "object" /\ l[n].link = link
    <3>1. l[n].kind = "unbound" => Bound(e[1].ids[n])
      BY <1>4, <2>1 DEF TabInv, FileAgree, n
    <3>2. HasLinkage(e[1].ids[n]) => l[n].kind # "unbound"
      BY <1>2 DEF LinkedAgree, LinkedKinds, n
    <3> QED BY <1>6, <3>1, <3>2 DEF Own, n
  <2>4. /\ n \in Names /\ l[n].plain /\ sclass \in {"none", "extern", "static"}
        /\ sclass = "static" => l[n].link = "internal"
        /\ sclass = "none" => l[n].link = "external"
        /\ d.init => ~l[n].init
        /\ L.link = l[n].link
        /\ L.def <=> l[n].def \/ sclass # "extern" \/ d.init
        /\ L.init <=> l[n].init \/ d.init
    BY <2>3 DEF n, sclass
  <2>5. /\ TabInv(Declared(u, u.scopes[1].ids[n], Inherited(u, u.scopes[1].ids[n], sclass), d.init),
                  f, [l EXCEPT ![n] = L])
        /\ sclass # "extern" \/ ~l[n].def => Inherited(u, u.scopes[1].ids[n], sclass) = sclass
    BY <1>3, <1>4, <1>6, <1>7, <1>8, <2>1, <2>3, <2>4, DeclaredKeeps
  <2> QED BY <1>1, <2>1, <2>2, <2>5 DEF r, sc, n, sclass
<1>10. CASE LookupID(t, n) = 0
  <2> DEFINE k == Len(t.symbols) + 1
             sym == Fresh("Variable", n, sclass, 0)
             N == [l[n] EXCEPT !.kind = "object", !.link = link, !.def = sclass # "extern"]
             m == [l EXCEPT ![n] = N]
  <2>1. a = AddVariable(t, n, sclass) /\ n \in Names /\ sclass \in {"none", "extern", "static"}
    BY <1>4, <1>10 DEF a, n, sclass
  <2>2. ~AlsoGlobal(t, sclass) /\ OnGlobals(t, sclass) = TRUE /\ Current(t) = 1
    BY <1>2 DEF AlsoGlobal, OnGlobals, Current
  <2>3. Placed(t, a, n, {1}, sym, TRUE)
    <3>1. sclass \in Classes /\ Len(t.scopes) > 0
      BY <1>2, <2>1 DEF Classes
    <3>2. Placed(t, AddVariable(t, n, sclass), n,
                 IF AlsoGlobal(t, sclass) THEN {1, Current(t)} ELSE {Current(t)},
                 Fresh("Variable", n, sclass, t.scopes[Current(t)].level), OnGlobals(t, sclass))
      BY <1>2, <2>1, <3>1, AddVariablePlaced
    <3> QED BY <1>2, <2>1, <2>2, <3>2
  <2>5. l[n] = NeverLinked
    <3>1. ~HasLinkage(e[1].ids[n])
      BY <1>5, <1>10, <2>1 DEF TabInv, FileAgree, t
    <3>2. l[n].plain
      BY DEF n
    <3> QED BY <1>2, <2>1, <3>1, <3>2 DEF LinkedAgree
  <2>6. l[n] \in Linkages /\ l[n].kind = "unbound" /\ ~l[n].def /\ ~l[n].init /\ l[n].plain
    <3>1. /\ NeverLinked.kind = "unbound" /\ ~NeverLinked.def /\ ~NeverLinked.init /\ NeverLinked.plain
      BY DEF NeverLinked
    <3>2. l[n] \in Linkages
      BY <1>2, <2>1
    <3> QED BY <2>5, <3>1, <3>2
  <2>7. /\ N \in Linkages /\ N.kind = "object" /\ N.link = link /\ N.plain /\ ~N.init
        /\ N.def <=> sclass # "extern"
    <3> DEFINE K == l[n]
    <3> HIDE DEF K
    <3> QED BY <2>6 DEF Linkages, LinkedKinds, Links, K
  <2>8. LinkedAgree(f, m)
    <3>1. "object" \in LinkedKinds
      BY DEF LinkedKinds
    <3>2. N.plain <=> l[n].plain
      BY <2>6, <2>7
    <3>3. Rebound(e, f, 1, n, Entity("object", link, 0)) /\ Len(e) \in Nat /\ Len(e) > 0
      BY <1>7 DEF x
    <3> HIDE DEF N
    <3> QED BY <1>2, <2>1, <2>6, <2>7, <3>1, <3>2, <3>3, LinkedAtFile
  <2> HIDE DEF N
  <2>9. sym.name = n /\ sym.kind = "Variable" /\ sym.sclass = sclass /\ ~sym.idata /\ ~sym.defined /\ sym.level = 0
    BY DEF Fresh
  <2>10. sclass = "static" <=> link = "internal"
    BY <2>6 DEF sclass, n
  <2> HIDE DEF sym
  <2>11. Recorded(a, k, N)
    <3>1. a.symbols[k] = sym /\ k \in Objects(a)
      BY <2>3 DEF Placed
    <3> HIDE DEF k
    <3> QED BY <2>1, <2>7, <2>9, <2>10, <3>1 DEF Recorded, ObjectRecord
  <2>12. TabInv(a, f, m)
    <3>1. t.scopes[1].ids[n] = 0 /\ Recorded(a, Len(t.symbols) + 1, N)
      BY <1>5, <1>10, <2>11
    <3>2. TabInv(t, e, l)
      BY DEF t
    <3>3. LinkedAgree(f, [l EXCEPT ![n] = N])
      BY <2>8
    <3>4. TabInv(a, f, [l EXCEPT ![n] = N])
      BY <1>3, <1>6, <1>7, <2>1, <2>3, <2>6, <2>7, <2>9, <3>1, <3>2, <3>3, PlacedAtFile
    <3> QED BY <3>4
  <2>13. Len(f) = 1 /\ f[1].ids[n] = x /\ Rebound(f, f, 1, n, x)
    BY <1>2, <1>7, <2>1 DEF Rebound
  <2>14. ~Own(f[1].ids[n])
    BY <1>3, <2>13 DEF Own
  <2>15. s = a.scopes[1].ids[n]
    BY <2>1, <2>12, <2>13, FileLookup DEF s
  <2>16. a.scopes[1].ids[n] # 0
    BY <1>2, <2>1, <2>3, TableFields DEF Placed
  <2>17. m[n] = N /\ [m EXCEPT ![n] = L] = [l EXCEPT ![n] = L]
    BY <1>2, <2>1, TwiceChanged
  <2>18. /\ m[n].plain /\ m[n].kind = "object" /\ m[n].link = link /\ ~m[n].init
         /\ m[n].def <=> sclass # "extern"
    BY <2>7, <2>17
  <2>19. LinkedAgree(f, [m EXCEPT ![n] = L])
    BY <1>8, <2>17
  <2> HIDE DEF m
  <2>20. /\ sclass = "static" => m[n].link = "internal"
         /\ sclass = "none" => m[n].link = "external"
         /\ L.link = m[n].link
         /\ L.def <=> m[n].def \/ sclass # "extern" \/ d.init
         /\ L.init <=> m[n].init \/ d.init
    BY <2>6, <2>18 DEF sclass, n
  <2>21. /\ TabInv(Declared(a, a.scopes[1].ids[n], Inherited(a, a.scopes[1].ids[n], sclass), d.init),
                   f, [m EXCEPT ![n] = L])
         /\ sclass # "extern" \/ ~m[n].def => Inherited(a, a.scopes[1].ids[n], sclass) = sclass
    BY <1>3, <2>1, <2>12, <2>13, <2>14, <2>16, <2>18, <2>19, <2>20, DeclaredKeeps
  <2>22. r.tab = Declared(a, a.scopes[1].ids[n], Inherited(a, a.scopes[1].ids[n], sclass), d.init)
    BY <1>1, <2>15 DEF sc
  <2>23. r.sclass = sclass
    BY <1>1, <2>15, <2>18, <2>21 DEF sc
  <2> QED BY <2>17, <2>21, <2>22, <2>23 DEF r, n, sclass
<1> QED BY <1>9, <1>10

\* A function declared at file scope, once more or for the first time
LEMMA GlobalFunctionKeeps ==
  ASSUME NEW t, NEW e, NEW l, TabInv(t, e, l), NEW n \in Names, Len(e) = 1,
         NEW sclass \in {"none", "static"}, e[1].ids[n].kind \in {"unbound", "function"},
         NEW link, link = IF sclass = "static" THEN "internal" ELSE ExternLink(e, n),
         l[n].kind = "unbound" \/ (l[n].kind = "function" /\ l[n].link = link),
         NEW f, Rebound(e, f, 1, n, Entity("function", link, 0)),
         NEW L \in Linkages, L.kind = "function", L.link = link,
         L.def <=> l[n].def, L.plain <=> l[n].plain, L.called <=> l[n].called
  PROVE  /\ TabInv(GlobalFunctionDeclarator(t, n, sclass), f, [l EXCEPT ![n] = L])
         /\ LinkedAgree(f, [l EXCEPT ![n] = L]) /\ link \in Links
<1> DEFINE x == Entity("function", link, 0)
           K == l[n]
           u == LookedUpID(t, n)
<1>1. /\ t \in Tables /\ Len(t.scopes) = 1 /\ t.scopes[1].level = 0
      /\ 1 \in 1..Len(e) /\ LinkedAgree(e, l) /\ l \in [Names -> Linkages] /\ Framed(t, e) /\ Named(t)
  BY NamedTables DEF TabInv, LinkedAgree
<1>2. x.kind = "function" /\ HasLinkage(x)
  <2>1. link # "none"
    BY <1>1, ExternLinkIs DEF Links
  <2> QED BY <2>1, EntityFields
<1>3. link \in Links /\ (sclass # "static" => link = IF HasLinkage(e[1].ids[n]) THEN e[1].ids[n].link ELSE "external")
  BY <1>1, ExternLinkIs DEF Links
<1>4. K \in Linkages
  BY <1>1
<1>5. ~Own(e[1].ids[n])
  <2>1. Own(e[1].ids[n]) => e[1].ids[n].kind \in {"typedef", "enum"}
    BY <1>1 DEF LinkedAgree
  <2> QED BY <2>1
<1>6. (L.def <=> K.def) /\ (L.plain <=> K.plain) /\ (L.called <=> K.called)
  OBVIOUS
<1> HIDE DEF x, K, u
<1>7. LinkedAgree(f, [l EXCEPT ![n] = L])
  <2>1. "function" \in LinkedKinds /\ (L.plain <=> l[n].plain) /\ Len(e) \in Nat /\ Len(e) > 0
    BY <1>6 DEF LinkedKinds, K
  <2> QED BY <1>1, <1>3, <1>6, <2>1, LinkedAtFile
<1>8. LookupID(t, n) = t.scopes[1].ids[n] /\ u.scopes[1].ids[n] = t.scopes[1].ids[n]
  BY FileLookup DEF u
<1>9. CASE LookupID(t, n) # 0
  <2>1. TabInv(u, e, l)
    BY LookedUp DEF u
  <2>2. K.kind = "function" /\ K.link = link
    <3>1. l[n].kind = "unbound" => Bound(e[1].ids[n])
      BY <1>8, <1>9 DEF TabInv, FileAgree
    <3>2. HasLinkage(e[1].ids[n]) => l[n].kind # "unbound"
      BY <1>1 DEF LinkedAgree, LinkedKinds
    <3> QED BY <1>5, <3>1, <3>2 DEF Own, K
  <2>3. FunctionRecord(u, u.scopes[1].ids[n], K)
    BY <1>8, <1>9, <2>1, <2>2 DEF TabInv, FileAgree, K
  <2>4. Recorded(u, u.scopes[1].ids[n], L)
    BY <1>6, <2>2, <2>3 DEF Recorded, FunctionRecord
  <2>5. Retouched(u, u) /\ ~u.rejected
    BY <2>1, SameTable DEF TabInv
  <2>6. TabInv(u, f, [l EXCEPT ![n] = L])
    BY <1>1, <1>2, <1>5, <1>6, <1>7, <1>8, <1>9, <2>1, <2>4, <2>5, TouchedKeeps DEF K, x
  <2>7. GlobalFunctionDeclarator(t, n, sclass) = u
    BY <1>9 DEF GlobalFunctionDeclarator, u
  <2> QED BY <1>3, <1>7, <2>6, <2>7
<1>10. CASE LookupID(t, n) = 0
  <2> DEFINE a == AddFunction(t, n, OrExtern(sclass))
             sym == Fresh("Function", n, OrExtern(sclass), 0)
             k == Len(t.symbols) + 1
  <2>1. Placed(t, a, n, {1}, sym, FALSE)
    <3>1. OrExtern(sclass) \in Classes /\ Len(t.scopes) > 0 /\ {1, Current(t)} = {1}
      BY <1>1 DEF Classes, OrExtern, Current
    <3>2. Placed(t, a, n, {1, Current(t)}, Fresh("Function", n, OrExtern(sclass), t.scopes[1].level), FALSE)
      BY <1>1, <3>1, AddFunctionPlaced
    <3> QED BY <1>1, <3>1, <3>2
  <2>2. /\ sym.name = n /\ sym.kind = "Function" /\ ~sym.defined /\ ~sym.ref
        /\ sym.sclass = "static" <=> sclass = "static"
    BY DEF Fresh, OrExtern
  <2>3. ~HasLinkage(e[1].ids[n])
    BY <1>1, <1>8, <1>10 DEF TabInv, FileAgree
  <2>4. sclass = "static" <=> link = "internal"
    BY <1>3, <2>3
  <2>5. K.plain => ~K.called /\ ~K.def
    <3>1. l[n].plain => l[n] = NeverLinked
      BY <1>1, <2>3 DEF LinkedAgree
    <3>2. ~NeverLinked.called /\ ~NeverLinked.def
      BY DEF NeverLinked
    <3> QED BY <3>1, <3>2 DEF K
  <2> HIDE DEF a, sym
  <2>6. a.symbols[k] = sym /\ k \notin a.functions
    <3>1. t.functions \subseteq 1..Len(t.symbols) /\ Len(t.symbols) \in Nat
      BY <1>1, TableFields DEF Named
    <3> QED BY <2>1, <3>1 DEF Placed
  <2>7. Recorded(a, k, L)
    <3> HIDE DEF k
    <3>1. FunctionRecord(a, k, L)
      BY <1>6, <2>2, <2>4, <2>5, <2>6 DEF FunctionRecord
    <3> QED BY <1>6, <3>1 DEF Recorded
  <2>8. TabInv(a, f, [l EXCEPT ![n] = L])
    <3>1. L.kind # "unbound" /\ (L.plain => l[n].plain /\ t.scopes[1].ids[n] = 0)
      BY <1>6, <1>8, <1>10 DEF K
    <3> QED BY <1>2, <1>5, <1>7, <2>1, <2>2, <2>7, <3>1, PlacedAtFile DEF x
  <2>9. GlobalFunctionDeclarator(t, n, sclass) = a
    BY <1>10 DEF GlobalFunctionDeclarator, a
  <2> QED BY <1>3, <1>7, <2>8, <2>9
<1> QED BY <1>9, <1>10

-----------------------------------------------------------------------------
(* A scope that was left stays as it was.                                   *)

\* u has the symbols and tags of t, none of them moved, and more
Later(t, e, u, f) ==
  /\ Len(t.symbols) \in Nat /\ Len(u.symbols) \in Nat /\ Len(t.symbols) <= Len(u.symbols)
  /\ \A s \in 1..Len(t.symbols) :
       /\ u.symbols[s].kind = t.symbols[s].kind /\ u.symbols[s].name = t.symbols[s].name
       /\ u.symbols[s].sclass = t.symbols[s].sclass
       /\ \/ u.symbols[s].level = t.symbols[s].level
          \/ \E i \in 1..Len(e) : t.scopes[i].ids[t.symbols[s].name] = s
  /\ Len(t.tags) \in Nat /\ Len(u.tags) \in Nat /\ Len(t.tags) <= Len(u.tags)
  /\ \A s \in 1..Len(t.tags) : u.tags[s].categ = t.tags[s].categ
  /\ \A j \in 1..Len(f), m \in Names :
       LET s == u.scopes[j].ids[m]
       IN  s \in 1..Len(t.symbols) => \E i \in 1..Len(e) : t.scopes[i].ids[m] = s

\* A scope that was left stays apart from the open ones
LEMMA LaterDetached ==
  ASSUME NEW t, NEW e, NEW u, NEW f, NEW sc, NEW b, Detached(t, e, sc, b), Later(t, e, u, f)
  PROVE  Detached(u, f, sc, b)
<1>1. NamedIn(u, sc)
  BY DEF Detached, Later, NamedIn
<1>2. TagsIn(u, sc, b)
  BY DEF Detached, Later, TagsIn
<1>3. ASSUME NEW n \in Names, Own(b.ids[n])
      PROVE  /\ b.ids[n].kind \in OwnKinds /\ b.ids[n].id # 0 /\ sc.ids[n] = b.ids[n].id
             /\ sc.ids[n] \in 1..Len(t.symbols) /\ t.symbols[sc.ids[n]].name = n
             /\ StandsFor(t.symbols[sc.ids[n]], b.ids[n].kind)
             /\ t.symbols[b.ids[n].id].level > 0
             /\ \A j \in 1..Len(e) : t.scopes[j].ids[n] # b.ids[n].id
  <2>1. /\ b.ids[n].kind \in OwnKinds /\ b.ids[n].id # 0 /\ sc.ids[n] = b.ids[n].id
        /\ StandsFor(t.symbols[sc.ids[n]], b.ids[n].kind)
    BY <1>3 DEF Detached, OwnIn
  <2>2. t.symbols[b.ids[n].id].level > 0 /\ \A j \in 1..Len(e) : t.scopes[j].ids[n] # b.ids[n].id
    BY <1>3 DEF Detached, DeepIn, Own
  <2>3. sc.ids[n] \in 1..Len(t.symbols) /\ t.symbols[sc.ids[n]].name = n
    BY <2>1 DEF Detached, NamedIn
  <2> QED BY <2>1, <2>2, <2>3
<1>4. OwnIn(u, sc, b)
  <2> SUFFICES ASSUME NEW n \in Names, Own(b.ids[n])
               PROVE  /\ b.ids[n].kind \in OwnKinds /\ b.ids[n].id # 0 /\ sc.ids[n] = b.ids[n].id
                      /\ StandsFor(u.symbols[sc.ids[n]], b.ids[n].kind)
    BY DEF OwnIn
  <2> QED BY <1>3 DEF Later, StandsFor
<1>5. DeepIn(u, b)
  <2> SUFFICES ASSUME NEW n \in Names, Own(b.ids[n]) PROVE u.symbols[b.ids[n].id].level > 0
    BY DEF DeepIn
  <2> DEFINE s == b.ids[n].id
  <2>1. s \in 1..Len(t.symbols) /\ t.symbols[s].name = n /\ t.symbols[s].level > 0
        /\ \A j \in 1..Len(e) : t.scopes[j].ids[n] # s
    BY <1>3
  <2> HIDE DEF s
  <2>2. u.symbols[s].level = t.symbols[s].level
    BY <2>1 DEF Later
  <2> QED BY <2>1, <2>2 DEF s
<1>6. ASSUME NEW n \in Names
      PROVE  /\ ~HasLinkage(b.ids[n])
             /\ ~Bound(b.ids[n]) => sc.ids[n] = 0
             /\ Bound(b.ids[n]) => \A j \in 1..Len(f) : u.scopes[j].ids[n] # b.ids[n].id
  <2>1. ~HasLinkage(b.ids[n]) /\ (~Bound(b.ids[n]) => sc.ids[n] = 0)
    BY DEF Detached
  <2>2. ASSUME Bound(b.ids[n]), NEW j \in 1..Len(f), u.scopes[j].ids[n] = b.ids[n].id PROVE FALSE
    <3> DEFINE s == b.ids[n].id
    <3>1. s \in 1..Len(t.symbols) /\ \A i \in 1..Len(e) : t.scopes[i].ids[n] # s
      BY <1>3, <2>1, <2>2 DEF Own
    <3> HIDE DEF s
    <3>2. u.scopes[j].ids[n] = s
      BY <2>2 DEF s
    <3>3. \E i \in 1..Len(e) : t.scopes[i].ids[n] = s
      BY <3>1, <3>2 DEF Later
    <3> QED BY <3>1, <3>3
  <2> QED BY <2>1, <2>2
<1> QED BY <1>1, <1>2, <1>4, <1>5, <1>6 DEF Detached

\* The scope that was saved is still detached
KeepsSaved(t, e, u, f) ==
  u.saved = t.saved /\ \A b \in CScopes : Detached(t, e, t.saved, b) => Detached(u, f, t.saved, b)

\* ... so does the saved parameter scope
LEMMA LaterKeepsSaved ==
  ASSUME NEW t, NEW e, NEW u, NEW f, Later(t, e, u, f), u.saved = t.saved
  PROVE  KeepsSaved(t, e, u, f)
BY LaterDetached DEF KeepsSaved

\* ... over two steps
LEMMA KeepsSavedTwice ==
  ASSUME NEW t, NEW e, NEW u, NEW f, NEW v, NEW g, KeepsSaved(t, e, u, f), KeepsSaved(u, f, v, g)
  PROVE  KeepsSaved(t, e, v, g)
BY DEF KeepsSaved

\* A lookup puts nothing of a scope that was left into an open one
LEMMA LaterLookedUp ==
  ASSUME NEW t, NEW e, NEW l, TabInv(t, e, l), NEW n \in Names
  PROVE  Later(t, e, LookedUpID(t, n), e)
<1> DEFINE u == LookedUpID(t, n)
<1>1. t \in Tables /\ Len(t.scopes) = Len(e) /\ Len(e) \in Nat /\ \A i \in 1..Len(e) : NamedIn(t, t.scopes[i])
  BY NamedTables DEF TabInv
<1>2. Relevelled(t, u, n)
  BY <1>1, LookupChanges
<1> HIDE DEF u
<1>3. Len(t.symbols) \in Nat /\ Len(t.tags) \in Nat /\ Len(u.symbols) = Len(t.symbols) /\ u.tags = t.tags /\ u.scopes = t.scopes
  BY <1>1, <1>2, TableFields DEF Relevelled, SameTags, SameScopes
<1>4. ASSUME NEW s \in 1..Len(t.symbols)
      PROVE  /\ u.symbols[s].kind = t.symbols[s].kind /\ u.symbols[s].name = t.symbols[s].name
             /\ u.symbols[s].sclass = t.symbols[s].sclass
             /\ \/ u.symbols[s].level = t.symbols[s].level
                \/ \E i \in 1..Len(e) : t.scopes[i].ids[t.symbols[s].name] = s
  <2>1. /\ SameButLevel(t.symbols[s], u.symbols[s])
        /\ u.symbols[s].level = t.symbols[s].level \/ (s = Found(t, "ids", n) /\ s # 0)
    BY <1>2 DEF Relevelled
  <2>2. CASE s = Found(t, "ids", n) /\ s # 0
    <3>1. PICK i \in 1..Len(e) : s = t.scopes[i]["ids"][n]
      BY <1>1, <2>2, LookupFinds
    <3>2. s = t.scopes[i].ids[n]
      BY <3>1
    <3>3. t.symbols[s].name = n
      BY <1>1, <3>2 DEF NamedIn
    <3> QED BY <2>1, <3>2, <3>3 DEF SameButLevel
  <2> QED BY <2>1, <2>2 DEF SameButLevel
<1>5. \A j \in 1..Len(e), m \in Names : \E i \in 1..Len(e) : t.scopes[i].ids[m] = u.scopes[j].ids[m]
  BY <1>3
<1>6. \A s \in 1..Len(t.tags) : u.tags[s].categ = t.tags[s].categ
  BY <1>3
<1>7. Later(t, e, u, e)
  BY <1>3, <1>4, <1>5, <1>6 DEF Later
<1> QED BY <1>7 DEF u

\* ... nor does a new symbol
LEMMA LaterPlaced ==
  ASSUME NEW t, NEW e, NEW l, TabInv(t, e, l), NEW n \in Names, NEW u, NEW P, NEW sym, NEW g,
         Placed(t, u, n, P, sym, g), NEW f, Len(f) = Len(e)
  PROVE  Later(t, e, u, f)
<1>1. t \in Tables /\ Len(t.scopes) = Len(e)
  BY NamedTables DEF TabInv
<1>2. /\ Len(t.symbols) \in Nat /\ Len(t.tags) \in Nat /\ Len(u.symbols) = Len(t.symbols) + 1
      /\ u.tags = t.tags
      /\ \A s \in 1..Len(t.symbols) : u.symbols[s] = t.symbols[s]
  BY <1>1, TableFields DEF Placed, SameTags
<1>3. ASSUME NEW j \in 1..Len(f), NEW m \in Names
      PROVE  u.scopes[j].ids[m] \in {Len(t.symbols) + 1, t.scopes[j].ids[m]}
  BY <1>1 DEF Placed
<1>4. ASSUME NEW j \in 1..Len(f), NEW m \in Names, u.scopes[j].ids[m] \in 1..Len(t.symbols)
      PROVE  \E i \in 1..Len(e) : t.scopes[i].ids[m] = u.scopes[j].ids[m]
  <2>1. t.scopes[j].ids[m] = u.scopes[j].ids[m]
    BY <1>2, <1>3, <1>4
  <2>2. j \in 1..Len(e)
    OBVIOUS
  <2> QED BY <2>1, <2>2
<1>5. Len(u.symbols) \in Nat /\ Len(t.symbols) <= Len(u.symbols) /\ Len(u.tags) = Len(t.tags)
  BY <1>2
<1> QED BY <1>2, <1>4, <1>5 DEF Later

\* ... nor does a new tag
LEMMA LaterTags ==
  ASSUME NEW t, NEW e, NEW l, TabInv(t, e, l), NEW u, NEW f, Len(f) = Len(e),
         u.symbols = t.symbols, \A i \in 1..Len(e) : u.scopes[i].ids = t.scopes[i].ids,
         Len(u.tags) \in Nat, Len(t.tags) <= Len(u.tags),
         \A s \in 1..Len(t.tags) : u.tags[s].categ = t.tags[s].categ
  PROVE  Later(t, e, u, f)
<1>1. t \in Tables
  BY NamedTables DEF TabInv
<1>2. Len(t.symbols) \in Nat /\ Len(t.tags) \in Nat
  BY <1>1, TableFields
<1> QED BY <1>2 DEF Later

\* Scopes are opened and closed; only empty ones are opened
LEMMA LaterScopes ==
  ASSUME NEW t, NEW e, NEW l, TabInv(t, e, l), NEW u, NEW f, u.symbols = t.symbols, u.tags = t.tags,
         \A j \in 1..Len(f), m \in Names :
           u.scopes[j].ids[m] = 0 \/ (j \in 1..Len(e) /\ u.scopes[j].ids[m] = t.scopes[j].ids[m])
  PROVE  Later(t, e, u, f)
<1>1. t \in Tables
  BY NamedTables DEF TabInv
<1>2. Len(t.symbols) \in Nat /\ Len(t.tags) \in Nat
  BY <1>1, TableFields
<1> QED BY <1>2 DEF Later

-----------------------------------------------------------------------------
(* The definition of a function, up to its body.                            *)

Marked(t, s) == [t EXCEPT !.symbols[s].defined = TRUE, !.FSYM = s, !.functions = @ \cup {s}]

\* What may be defined is not taken for a redefinition
LEMMA FunctionSymbolIs ==
  ASSUME NEW t, NEW e, NEW l, TabInv(t, e, l), NEW n \in Names, Len(e) = 1,
         NEW sclass \in {"none", "static"}, e[1].ids[n].kind \in {"unbound", "function"},
         sclass = "static" /\ l[n].kind = "function" => l[n].link = "internal",
         l[n].kind = "unbound" \/ l[n].kind = "function", ~l[n].def
  PROVE  FunctionSymbol(t, n, OrExtern(sclass)) = GlobalFunctionDeclarator(t, n, sclass)
<1> DEFINE u == LookedUpID(t, n)
           s == LookupID(t, n)
<1>1. TabInv(u, e, l) /\ (s = 0 => u = t)
  BY LookedUp
<1>2. CASE s = 0
  BY <1>1, <1>2 DEF FunctionSymbol, GlobalFunctionDeclarator
<1>3. CASE s # 0
  <2>1. s = u.scopes[1].ids[n]
    BY FileLookup
  <2> HIDE DEF u, s
  <2>2. l[n].kind = "function"
    <3>1. 1 \in 1..Len(e) /\ LinkedAgree(e, l)
      BY DEF TabInv
    <3>2. l[n].kind = "unbound" => Bound(e[1].ids[n])
      BY <1>1, <1>3, <2>1 DEF TabInv, FileAgree
    <3>3. HasLinkage(e[1].ids[n]) => l[n].kind # "unbound"
      BY <3>1 DEF LinkedAgree, LinkedKinds
    <3>4. Own(e[1].ids[n]) => e[1].ids[n].kind \in {"typedef", "enum"}
      BY <3>1 DEF LinkedAgree
    <3> QED BY <3>2, <3>3, <3>4 DEF Own
  <2>3. FunctionRecord(u, s, l[n])
    BY <1>1, <1>3, <2>1, <2>2 DEF TabInv, FileAgree
  <2>4. /\ u.symbols[s].kind = "Function" /\ ~u.symbols[s].defined
        /\ ~(u.symbols[s].sclass = "extern" /\ OrExtern(sclass) = "static")
    BY <2>2, <2>3 DEF FunctionRecord, OrExtern
  <2>5. FunctionSymbol(t, n, OrExtern(sclass)) = u
    BY <1>3, <2>4 DEF FunctionSymbol, u, s
  <2>6. GlobalFunctionDeclarator(t, n, sclass) = u
    BY <1>3 DEF GlobalFunctionDeclarator, u, s
  <2> QED BY <2>5, <2>6
<1> QED BY <1>2, <1>3

\* What marking a function as defined changes
LEMMA MarkedChanges ==
  ASSUME NEW t, NEW e, Framed(t, e), Named(t), NEW s \in 1..Len(t.symbols)
  PROVE  LET u == Marked(t, s)
         IN  /\ Retouched(t, u) /\ u.rejected = t.rejected /\ u.functions = t.functions \cup {s}
             /\ \A j \in 1..Len(t.symbols) :
                  /\ j # s => u.symbols[j] = t.symbols[j]
                  /\ u.symbols[j].level = t.symbols[j].level /\ u.symbols[j].sclass = t.symbols[j].sclass
                  /\ u.symbols[j].ref = t.symbols[j].ref
<1> DEFINE u == Marked(t, s)
           a == [t.symbols[s] EXCEPT !.defined = TRUE]
           z == [t.symbols EXCEPT ![s] = a]
           F == t.functions \cup {s}
           was == t.symbols[s]
<1>1. t \in Tables /\ t.functions \subseteq 1..Len(t.symbols) /\ t.FSYM \in 0..Len(t.symbols)
  BY DEF Framed, Named
<1>2. was \in SymbolSet /\ Len(t.symbols) \in Nat
  BY <1>1, TableFields
<1>3. /\ a \in SymbolSet /\ a.kind = was.kind /\ a.name = was.name /\ a.level = was.level
      /\ a.sclass = was.sclass /\ a.ref = was.ref
  <2> HIDE DEF was
  <2>1. a = [was EXCEPT !.defined = TRUE]
    BY DEF was
  <2> QED BY <1>2, <2>1 DEF SymbolSet
<1>4. u = [t EXCEPT !.symbols = z, !.FSYM = s, !.functions = F]
  BY DEF Marked
<1> HIDE DEF a, F, u
<1>5. /\ z \in Seq(SymbolSet) /\ Len(z) = Len(t.symbols)
      /\ \A j \in 1..Len(t.symbols) : z[j] = IF j = s THEN a ELSE t.symbols[j]
  BY <1>1, <1>3, TableFields, ExceptSeq
<1>6. F \subseteq 1..Len(t.symbols) /\ F \subseteq Nat /\ s \in Nat
  BY <1>1, <1>2 DEF F
<1> HIDE DEF z
<1>7. /\ u \in Tables /\ u.symbols = z /\ SameScopes(t, u) /\ SameTags(t, u) /\ u.Globals = t.Globals
      /\ u.functions = F /\ u.FSYM = s /\ u.rejected = t.rejected
  BY <1>1, <1>4, <1>5, <1>6 DEF Tables, SameScopes, SameTags
<1>8. \A j \in 1..Len(t.symbols) :
        /\ u.symbols[j].kind = t.symbols[j].kind /\ u.symbols[j].name = t.symbols[j].name
        /\ j # s => u.symbols[j] = t.symbols[j]
        /\ u.symbols[j].level = t.symbols[j].level /\ u.symbols[j].sclass = t.symbols[j].sclass
        /\ u.symbols[j].ref = t.symbols[j].ref
  BY <1>3, <1>5, <1>7 DEF was
<1>9. Retouched(t, u)
  BY <1>2, <1>5, <1>6, <1>7, <1>8 DEF Retouched
<1> QED BY <1>7, <1>8, <1>9 DEF u, F

\* The function's symbol is found or made, and marked as defined
LEMMA MarkedKeeps ==
  ASSUME NEW t, NEW e, NEW l, TabInv(t, e, l), NEW n \in Names, Len(e) = 1,
         NEW sclass \in {"none", "static"}, e[1].ids[n].kind \in {"unbound", "function"},
         NEW link, link = IF sclass = "static" THEN "internal" ELSE ExternLink(e, n),
         l[n].kind = "unbound" \/ (l[n].kind = "function" /\ l[n].link = link), ~l[n].def,
         NEW f, Rebound(e, f, 1, n, Entity("function", link, 0)),
         NEW N \in Linkages, N.kind = "function", N.link = link, N.def,
         N.plain <=> l[n].plain, N.called <=> l[n].called,
         NEW sc, NEW b, Detached(t, e, sc, b)
  PROVE  LET u == FunctionSymbol(t, n, OrExtern(sclass))
             v == Marked(u, LookupID(u, n))
         IN  /\ TabInv(v, f, [l EXCEPT ![n] = N])
             /\ v.saved = t.saved /\ Detached(v, f, sc, b)
<1> DEFINE u == FunctionSymbol(t, n, OrExtern(sclass))
           s == LookupID(u, n)
           v == Marked(u, s)
           L == [N EXCEPT !.def = FALSE]
           m == [l EXCEPT ![n] = L]
           x == Entity("function", link, 0)
<1>1. u = GlobalFunctionDeclarator(t, n, sclass)
  BY FunctionSymbolIs
<1>3. /\ L \in Linkages /\ L.kind = "function" /\ L.link = link /\ ~L.def
      /\ (L.plain <=> N.plain) /\ (L.called <=> N.called)
  BY DEF Linkages
<1>2. TabInv(u, f, m) /\ link \in Links /\ LinkedAgree(f, m)
  <2> HIDE DEF L
  <2> QED BY <1>1, <1>3, GlobalFunctionKeeps
<1>4. x.kind = "function" /\ HasLinkage(x) /\ link # "none"
  <2>1. link # "none"
    BY <1>2 DEF Links
  <2> QED BY <2>1, EntityFields
<1>5. /\ e \in Seq(CScopes) /\ 1 \in 1..Len(e) /\ l \in [Names -> Linkages] /\ t \in Tables
      /\ Len(t.scopes) = 1
  BY NamedTables DEF TabInv, Framed, LinkedAgree
<1>6. Len(f) = 1 /\ f[1].ids[n] = x /\ Rebound(f, f, 1, n, x)
  BY <1>5 DEF Rebound
<1> HIDE DEF u, s, L, m, x
<1>7. s = u.scopes[1].ids[n]
  BY <1>2, <1>6, FileLookup DEF s
<1>8. s # 0 /\ FunctionRecord(u, s, L)
  <2>1. m[n] = L
    BY <1>5 DEF m
  <2>2. HasLinkage(f[1].ids[n])
    BY <1>4, <1>6
  <2>3. FileAgree(u, f, m)
    BY <1>2 DEF TabInv
  <2> QED BY <1>3, <1>7, <2>1, <2>2, <2>3 DEF FileAgree
<1>9. /\ Framed(u, f) /\ Named(u) /\ s \in 1..Len(u.symbols) /\ ~u.rejected
      /\ u \in Tables /\ Len(u.scopes) = 1
  <2>1. NamedIn(u, u.scopes[1]) /\ Framed(u, f) /\ Named(u) /\ ~u.rejected /\ u \in Tables /\ Len(u.scopes) = 1
    BY <1>2, <1>6, NamedTables DEF TabInv
  <2> QED BY <1>7, <1>8, <2>1 DEF NamedIn
<1> HIDE DEF v
<1>10. /\ Retouched(u, v) /\ ~v.rejected /\ v.functions = u.functions \cup {s}
       /\ \A j \in 1..Len(u.symbols) :
            /\ j # s => v.symbols[j] = u.symbols[j]
            /\ v.symbols[j].level = u.symbols[j].level /\ v.symbols[j].sclass = u.symbols[j].sclass
            /\ v.symbols[j].ref = u.symbols[j].ref
  BY <1>9, MarkedChanges DEF v
<1>11. Recorded(v, s, N)
  <2>1. v.symbols[s].kind = u.symbols[s].kind /\ s \in v.functions
    BY <1>9, <1>10 DEF Retouched
  <2>2. FunctionRecord(v, s, N)
    BY <1>2, <1>3, <1>8, <1>9, <1>10, <2>1 DEF FunctionRecord
  <2> QED BY <1>3, <2>2 DEF Recorded
<1>12. m[n] = L /\ [m EXCEPT ![n] = N] = [l EXCEPT ![n] = N]
  BY <1>5, TwiceChanged DEF m
<1>13. LinkedAgree(f, [m EXCEPT ![n] = N])
  <2>1. "function" \in LinkedKinds /\ (N.plain <=> m[n].plain) /\ Len(f) \in Nat /\ Len(f) > 0
    BY <1>3, <1>6, <1>12 DEF LinkedKinds
  <2>2. m[n].kind = "function" /\ m[n].link = link
    BY <1>3, <1>12
  <2> QED BY <1>2, <1>3, <1>6, <2>1, <2>2, LinkedAtFile DEF x
<1>14. TabInv(v, f, [m EXCEPT ![n] = N])
  <2>1. u.functions \subseteq v.functions /\ v.functions \subseteq u.functions \cup {u.scopes[1].ids[n]}
    BY <1>7, <1>10
  <2>2. N.kind # "unbound" /\ (N.plain => m[n].plain)
    BY <1>3, <1>12
  <2>3. \A k \in 1..Len(u.symbols) : k # u.scopes[1].ids[n] => v.symbols[k] = u.symbols[k]
    BY <1>7, <1>10
  <2>4. Recorded(v, u.scopes[1].ids[n], N) /\ u.scopes[1].ids[n] # 0
    BY <1>7, <1>8, <1>11
  <2> QED BY <1>2, <1>4, <1>6, <1>10, <1>13, <2>1, <2>2, <2>3, <2>4, TouchedKeeps
<1>15. Later(t, e, u, f) /\ u.saved = t.saved
  <2>1. CASE LookupID(t, n) # 0
    <3>1. u = LookedUpID(t, n)
      BY <1>1, <2>1 DEF GlobalFunctionDeclarator
    <3>2. Later(t, e, u, e)
      BY <3>1, LaterLookedUp
    <3>3. Later(t, e, u, f)
      BY <1>6, <3>2 DEF Later
    <3>4. u.saved = t.saved
      BY <3>1, LookupKeeps DEF Relevelled, SameScopes
    <3> QED BY <3>3, <3>4
  <2>2. CASE LookupID(t, n) = 0
    <3> DEFINE y == Fresh("Function", n, OrExtern(sclass), t.scopes[1].level)
               P == {1, Current(t)}
    <3>1. OrExtern(sclass) \in Classes /\ Len(t.scopes) > 0
      BY <1>5 DEF Classes, OrExtern
    <3>2. u = AddFunction(t, n, OrExtern(sclass))
      BY <1>1, <2>2 DEF GlobalFunctionDeclarator
    <3>3. Placed(t, u, n, P, y, FALSE)
      BY <1>5, <3>1, <3>2, AddFunctionPlaced
    <3> HIDE DEF P, y
    <3>4. Len(f) = Len(e)
      BY <1>6
    <3>5. Later(t, e, u, f)
      BY <3>3, <3>4, LaterPlaced
    <3> QED BY <3>3, <3>5 DEF Placed
  <2> QED BY <2>1, <2>2
<1>16. Later(u, f, v, f) /\ v.saved = u.saved
  <2>1. Len(u.symbols) \in Nat /\ Len(u.tags) \in Nat
    BY <1>9, TableFields
  <2>2. Len(v.symbols) = Len(u.symbols) /\ v.tags = u.tags /\ v.scopes = u.scopes /\ v.saved = u.saved
    BY <1>10 DEF Retouched, SameTags, SameScopes
  <2>3. \A k \in 1..Len(u.symbols) : v.symbols[k].kind = u.symbols[k].kind /\ v.symbols[k].name = u.symbols[k].name
    BY <1>10 DEF Retouched
  <2> QED BY <1>10, <2>1, <2>2, <2>3 DEF Later
<1>17. Detached(v, f, sc, b)
  <2>1. Detached(u, f, sc, b)
    BY <1>15, LaterDetached
  <2> QED BY <1>16, <2>1, LaterDetached
<1> QED BY <1>12, <1>14, <1>15, <1>16, <1>17 DEF u, s, v

\* The parameter scope of the list is open once more
LEMMA RestoreKeeps ==
  ASSUME NEW t, NEW e, NEW l, TabInv(t, e, l), NEW b \in CScopes, Detached(t, e, t.saved, b)
  PROVE  TabInv(RestoreParameterListTable(t), Append(e, b), l)
<1> DEFINE sc == [t.saved EXCEPT !.level = t.Level + 1]
<1>1. t.saved \in ScopeSet /\ t.Level = Len(e) - 1 /\ Len(e) \in Nat /\ Len(e) > 0
  BY NamedTables, TableFields DEF TabInv
<1>2. sc \in ScopeSet /\ sc.level = Len(e) /\ sc.ids = t.saved.ids /\ sc.tags = t.saved.tags
  BY <1>1 DEF ScopeSet
<1>3. RestoreParameterListTable(t) = Pushed(t, sc)
  BY DEF RestoreParameterListTable, Pushed
<1> HIDE DEF sc
<1>4. Detached(t, e, sc, b)
  BY <1>2 DEF Detached, NamedIn, TagsIn, OwnIn, DeepIn
<1>5. Opens(t, e, sc, b)
  BY <1>2, <1>4 DEF Opens
<1> QED BY <1>3, <1>5, PushKeeps

\* b is a but for the identifier p, which is x in b
Respoken(a, b, p, x) ==
  /\ a \in CScopes /\ b \in CScopes /\ b.tags = a.tags
  /\ \A m \in Names : b.ids[m] = IF m = p THEN x ELSE a.ids[m]

\* A name bound anew in the scope appended last
LEMMA AppendRebound ==
  ASSUME NEW e \in Seq(CScopes), NEW a, NEW b, NEW p, NEW x, Respoken(a, b, p, x)
  PROVE  Rebound(Append(e, a), Append(e, b), Len(Append(e, a)), p, x)
<1> DEFINE A == Append(e, a)
           B == Append(e, b)
<1>1. /\ Len(e) \in Nat /\ A \in Seq(CScopes) /\ B \in Seq(CScopes)
      /\ Len(A) = Len(e) + 1 /\ Len(B) = Len(e) + 1 /\ A[Len(e) + 1] = a /\ B[Len(e) + 1] = b
      /\ \A i \in 1..Len(e) : A[i] = e[i] /\ B[i] = e[i]
  BY AppendProperties, LenProperties DEF Respoken
<1> HIDE DEF A, B
<1>2. \A i \in 1..Len(A) : i = Len(e) + 1 \/ (i \in 1..Len(e) /\ i # Len(A))
  BY <1>1
<1>3. ASSUME NEW i \in 1..Len(A)
      PROVE  /\ B[i].tags = A[i].tags
             /\ \A m \in Names : B[i].ids[m] = IF i = Len(A) /\ m = p THEN x ELSE A[i].ids[m]
  BY <1>1, <1>2 DEF Respoken
<1>4. Rebound(A, B, Len(A), p, x)
  BY <1>1, <1>3 DEF Rebound
<1> QED BY <1>4 DEF A, B

\* A parameter becomes a variable of the body's scope
LEMMA ParameterKeeps ==
  ASSUME NEW t, NEW e \in Seq(CScopes), NEW l, NEW a, NEW b, TabInv(t, Append(e, a), l), Len(e) = 1,
         NEW p \in Names, ~Bound(a.ids[p]),
         NEW x, x = Entity("auto", "none", Len(t.symbols) + 1), Respoken(a, b, p, x)
  PROVE  TabInv(WithParameter(t, p), Append(e, b), l) /\ Newest(WithParameter(t, p)) = Newest(t) + 1
<1> DEFINE A == Append(e, a)
           B == Append(e, b)
           u == WithParameter(t, p)
<1>1. Len(A) = 2 /\ A[2] = a /\ A \in Seq(CScopes)
  <2>1. a \in CScopes
    BY DEF Respoken
  <2>2. A \in Seq(CScopes) /\ Len(A) = Len(e) + 1 /\ A[Len(e) + 1] = a
    BY <2>1, AppendProperties
  <2> QED BY <2>2
<1>2. Rebound(A, B, Len(A), p, Entity("auto", "none", Len(t.symbols) + 1))
  BY AppendRebound
<1>3. /\ u = OwnAdded(t, p, "auto") /\ "auto" \in OwnKinds /\ OwnClass("auto") = "auto"
      /\ ("auto" = "static") = FALSE
  BY DEF WithParameter, OwnAdded, OwnKinds, OwnClass
<1>6. TabInv(t, A, l) /\ ~Bound(A[Len(A)].ids[p]) /\ ~(Len(A) = 1)
  BY <1>1
<1> HIDE DEF A, B, u
<1>4. Placed(t, OwnAdded(t, p, "auto"), p, {Len(A)},
             Fresh(SymbolKind["auto"], p, OwnClass("auto"), Len(A) - 1), "auto" = "static")
  BY <1>3, <1>6, OwnAddedKeeps
<1>5. Placed(t, u, p, {Len(A)}, Fresh(SymbolKind["auto"], p, "auto", Len(A) - 1), FALSE)
  BY <1>3, <1>4
<1>7. TabInv(u, B, l)
  <2> DEFINE kind == "auto"
  <2>1. kind \in OwnKinds /\ kind \in {"auto", "static"} /\ kind = "auto"
    BY <1>3
  <2>2. /\ Rebound(A, B, Len(A), p, Entity(kind, "none", Len(t.symbols) + 1))
        /\ Placed(t, u, p, {Len(A)}, Fresh(SymbolKind[kind], p, kind, Len(A) - 1), FALSE)
    BY <1>2, <1>5
  <2> HIDE DEF kind
  <2> QED BY <1>6, <2>1, <2>2, OwnKeeps
<1>8. Newest(u) = Newest(t) + 1
  BY <1>5 DEF Placed, Newest
<1> QED BY <1>7, <1>8 DEF A, B, u

\* C's scope of a body: that of the list, with the parameters
BodyScope(b, params, first) ==
  [b EXCEPT !.ids = [p \in Names |->
     IF \E i \in 1..Len(params) : params[i] = p
     THEN Entity("auto", "none", first + (CHOOSE i \in 1..Len(params) : params[i] = p))
     ELSE @[p]]]

\* What the names of the body's scope denote: the parameters, and what the list declared
LEMMA BodyScopeIds ==
  ASSUME NEW b \in CScopes, NEW params, NEW first \in Nat, Len(params) \in Nat
  PROVE  LET c == BodyScope(b, params, first)
         IN  /\ c \in CScopes /\ c.tags = b.tags
             /\ \A p \in Names, i \in 1..Len(params) :
                  params[i] = p /\ (\A j \in 1..Len(params) : params[j] = p => j = i)
                    => c.ids[p] = Entity("auto", "none", first + i)
             /\ \A p \in Names : (\A i \in 1..Len(params) : params[i] # p) => c.ids[p] = b.ids[p]
<1> DEFINE c == BodyScope(b, params, first)
           at(p) == CHOOSE i \in 1..Len(params) : params[i] = p
           y(p) == IF \E i \in 1..Len(params) : params[i] = p
                   THEN Entity("auto", "none", first + at(p)) ELSE b.ids[p]
           I == [p \in Names |-> y(p)]
<1>1. \A p \in Names : (\E i \in 1..Len(params) : params[i] = p) => at(p) \in 1..Len(params) /\ params[at(p)] = p
  OBVIOUS
<1>2. c = [b EXCEPT !.ids = I]
  BY DEF BodyScope
<1> HIDE DEF at
<1>3. b.ids \in [Names -> Entities] /\ b.tags \in [TagNames -> Entities] /\ b = [ids |-> b.ids, tags |-> b.tags]
  BY DEF CScopes
<1>4. \A k \in Nat : Entity("auto", "none", k) \in Entities
  BY DEF Entity, Entities, OwnKinds
<1>5. \A p \in Names : y(p) \in Entities
  BY <1>1, <1>3, <1>4
<1>6. \A p \in Names, i \in 1..Len(params) :
        params[i] = p /\ (\A j \in 1..Len(params) : params[j] = p => j = i)
          => y(p) = Entity("auto", "none", first + i)
  BY <1>1
<1>7. \A p \in Names : (\A i \in 1..Len(params) : params[i] # p) => y(p) = b.ids[p]
  OBVIOUS
<1> HIDE DEF y, c
<1>8. I \in [Names -> Entities] /\ \A p \in Names : I[p] = y(p)
  BY <1>5
<1> HIDE DEF I
<1>9. c \in CScopes /\ c.tags = b.tags /\ c.ids = I
  BY <1>2, <1>3, <1>8 DEF CScopes
<1> QED BY <1>6, <1>7, <1>8, <1>9 DEF c

\* C's scopes with the same names and tags are equal
LEMMA SameScope ==
  ASSUME NEW b \in CScopes, NEW c \in CScopes, c.tags = b.tags, \A p \in Names : c.ids[p] = b.ids[p]
  PROVE  c = b
<1>1. b = [ids |-> b.ids, tags |-> b.tags] /\ c = [ids |-> c.ids, tags |-> c.tags]
  BY DEF CScopes
<1>2. b.ids \in [Names -> Entities] /\ c.ids \in [Names -> Entities]
  BY DEF CScopes
<1>3. c.ids = b.ids
  BY <1>2
<1> QED BY <1>1, <1>3

\* The parameters join the scope one by one
LEMMA ParametersKeep ==
  ASSUME NEW t, NEW e \in Seq(CScopes), NEW l, NEW b \in CScopes, TabInv(t, Append(e, b), l), Len(e) = 1,
         NEW params \in ParameterLists, \A i \in 1..Len(params) : ~Bound(b.ids[params[i]])
  PROVE  /\ TabInv(WithParameters(t, params), Append(e, BodyScope(b, params, Len(t.symbols))), l)
         /\ Newest(WithParameters(t, params)) = Newest(t) + Len(params)
<1> DEFINE c == BodyScope(b, params, Len(t.symbols))
           u == WithParameters(t, params)
           x(k) == Entity("auto", "none", k)
<1>1. Len(t.symbols) \in Nat
  BY NamedTables, TableFields DEF TabInv
<1>2. CASE params = <<>>
  <2>1. c \in CScopes /\ c.tags = b.tags /\ \A p \in Names : c.ids[p] = b.ids[p]
    BY <1>1, <1>2, BodyScopeIds
  <2>2. c = b
    BY <2>1, SameScope
  <2>3. u = t
    BY <1>2 DEF WithParameters
  <2> QED BY <1>1, <1>2, <2>2, <2>3 DEF Newest
<1>3. CASE Len(params) = 1 /\ params[1] \in Names /\ params # <<>>
  <2>1. Respoken(b, c, params[1], x(Len(t.symbols) + 1))
    BY <1>1, <1>3, BodyScopeIds DEF Respoken
  <2>2. u = WithParameter(t, params[1])
    BY <1>3 DEF WithParameters
  <2>3. TabInv(u, Append(e, c), l) /\ Newest(u) = Newest(t) + 1
    BY <1>3, <2>1, <2>2, ParameterKeeps
  <2> QED BY <1>3, <2>3
<1>4. CASE Len(params) = 2 /\ params[1] \in Names /\ params[2] \in Names /\ params[1] # params[2] /\ params # <<>>
  <2> DEFINE a == BodyScope(b, <<params[1]>>, Len(t.symbols))
             v == WithParameter(t, params[1])
             p == params[1]
             q == params[2]
             k == Len(t.symbols)
  <2>0. p \in Names /\ q \in Names /\ p # q /\ ~Bound(b.ids[p]) /\ ~Bound(b.ids[q])
    BY <1>4
  <2>1. a \in CScopes /\ a.tags = b.tags /\ a.ids[p] = x(k + 1) /\ \A m \in Names : m # p => a.ids[m] = b.ids[m]
    <3> DEFINE r == <<params[1]>>
    <3>1. Len(r) = 1 /\ r[1] = p
      OBVIOUS
    <3> HIDE DEF r, p, x
    <3>2. BodyScope(b, r, k) \in CScopes /\ BodyScope(b, r, k).tags = b.tags
      BY <1>1, <3>1, BodyScopeIds
    <3>3. BodyScope(b, r, k).ids[p] = Entity("auto", "none", k + 1)
      BY <1>1, <2>0, <3>1, BodyScopeIds
    <3>4. \A m \in Names : m # p => BodyScope(b, r, k).ids[m] = b.ids[m]
      BY <1>1, <3>1, BodyScopeIds
    <3> QED BY <3>2, <3>3, <3>4 DEF r, x
  <2>2. /\ c \in CScopes /\ c.tags = b.tags /\ c.ids[p] = x(k + 1) /\ c.ids[q] = x(k + 2)
        /\ \A m \in Names : m # p /\ m # q => c.ids[m] = b.ids[m]
    BY <1>1, <1>4, BodyScopeIds
  <2>3. u = WithParameter(v, q)
    BY <1>4 DEF WithParameters
  <2> HIDE DEF a, c, u, v, p, q, x
  <2>4. Respoken(b, a, p, x(k + 1))
    BY <2>1 DEF Respoken
  <2>5. Respoken(a, c, q, x(k + 2))
    BY <2>0, <2>1, <2>2 DEF Respoken
  <2>6. TabInv(v, Append(e, a), l) /\ Newest(v) = Newest(t) + 1
    BY <2>0, <2>4, ParameterKeeps DEF v, x, p
  <2>7. Len(v.symbols) + 1 = k + 2
    BY <1>1, <2>6 DEF Newest
  <2>8. ~Bound(a.ids[q])
    BY <2>0, <2>1
  <2>9. x(k + 2) = Entity("auto", "none", Len(v.symbols) + 1)
    BY <2>7 DEF x
  <2>10. TabInv(u, Append(e, c), l) /\ Newest(u) = Newest(v) + 1
    BY <2>0, <2>3, <2>5, <2>6, <2>8, <2>9, ParameterKeeps
  <2> QED BY <1>1, <1>4, <2>6, <2>10 DEF Newest, c, u
<1>5. \/ params = <<>>
      \/ Len(params) = 1 /\ params[1] \in Names /\ params # <<>>
      \/ Len(params) = 2 /\ params[1] \in Names /\ params[2] \in Names /\ params[1] # params[2] /\ params # <<>>
  <2>1. CASE \E n \in Names : params = <<n>>
    BY <2>1
  <2>2. CASE \E m \in Names, n \in Names : m # n /\ params = <<m, n>>
    BY <2>2
  <2>3. CASE params = <<>>
    BY <2>3
  <2>4. params = <<>> \/ (\E n \in Names : params = <<n>>) \/ \E m \in Names, n \in Names : m # n /\ params = <<m, n>>
    BY DEF ParameterLists
  <2> QED BY <2>1, <2>2, <2>3, <2>4
<1> QED BY <1>2, <1>3, <1>4, <1>5

\* The part of CheckFunction before the body keeps the invariant
LEMMA CheckFunctionKeeps ==
  ASSUME NEW t, NEW e, NEW l, TabInv(t, e, l), NEW n \in Names, Len(e) = 1,
         NEW sclass \in {"none", "static"}, e[1].ids[n].kind \in {"unbound", "function"},
         NEW link, link = IF sclass = "static" THEN "internal" ELSE ExternLink(e, n),
         l[n].kind = "unbound" \/ (l[n].kind = "function" /\ l[n].link = link), ~l[n].def,
         NEW f, Rebound(e, f, 1, n, Entity("function", link, 0)),
         NEW N \in Linkages, N.kind = "function", N.link = link, N.def,
         N.plain <=> l[n].plain, N.called <=> l[n].called,
         NEW b \in CScopes, Detached(t, e, t.saved, b),
         NEW params \in ParameterLists, \A i \in 1..Len(params) : ~Bound(b.ids[params[i]]),
         NEW u, u = CheckFunction(t, n, sclass, params)
  PROVE  TabInv(u, Append(f, BodyScope(b, params, Newest(u) - Len(params))), [l EXCEPT ![n] = N])
<1> DEFINE g == FunctionSymbol(t, n, OrExtern(sclass))
           v == Marked(g, LookupID(g, n))
           r == RestoreParameterListTable(v)
           m == [l EXCEPT ![n] = N]
<1>1. TabInv(v, f, m) /\ v.saved = t.saved /\ Detached(v, f, t.saved, b)
  BY MarkedKeeps
<1>2. u = WithParameters(r, params)
  BY DEF CheckFunction, Marked
<1> HIDE DEF v, m
<1>3. TabInv(r, Append(f, b), m)
  BY <1>1, RestoreKeeps
<1> HIDE DEF r
<1>4. f \in Seq(CScopes) /\ Len(f) = 1
  BY DEF Rebound
<1>5. /\ TabInv(u, Append(f, BodyScope(b, params, Len(r.symbols))), m)
      /\ Newest(u) = Newest(r) + Len(params)
  BY <1>2, <1>3, <1>4, ParametersKeep
<1>6. Len(r.symbols) \in Nat /\ Len(params) \in Nat
  <2>1. Len(params) \in Nat
    BY LenProperties DEF ParameterLists
  <2> QED BY <1>3, <2>1, NamedTables, TableFields DEF TabInv
<1>7. Newest(u) - Len(params) = Len(r.symbols)
  BY <1>5, <1>6 DEF Newest
<1> QED BY <1>5, <1>7 DEF m

-----------------------------------------------------------------------------
(* What a lookup finds is what C says the name denotes.                     *)

\* The tag a lookup finds is the one C sees
LEMMA TagFound ==
  ASSUME NEW t, NEW e, NEW l, TabInv(t, e, l), NEW n \in TagNames
  PROVE  LET s == LookupTag(t, n)
             x == Visible(e, "tags", n)
             i == FoundIn(t, "tags", n)
         IN  /\ s = x.id /\ (Bound(x) <=> s # 0)
             /\ Bound(x) => /\ s \in 1..Len(t.tags) /\ t.tags[s].categ = x.kind
                            /\ i \in 1..Len(e) /\ s = t.scopes[i].tags[n]
                            /\ \A j \in i+1..Len(e) : t.scopes[j].tags[n] = 0
<1> DEFINE s == LookupTag(t, n)
           x == Visible(e, "tags", n)
<1>1. /\ Len(t.scopes) = Len(e) /\ Len(e) \in Nat
      /\ \A j \in 1..Len(e) : TagsIn(t, t.scopes[j], e[j])
  BY NamedTables DEF TabInv, TagsAgree
<1>2. ASSUME NEW j \in 1..Len(e)
      PROVE  /\ t.scopes[j].tags[n] = e[j].tags[n].id
             /\ Bound(e[j].tags[n]) => /\ t.scopes[j].tags[n] \in 1..Len(t.tags)
                                       /\ t.tags[t.scopes[j].tags[n]].categ = e[j].tags[n].kind
             /\ ~Bound(e[j].tags[n]) => t.scopes[j].tags[n] = 0
  <2>1. TagsIn(t, t.scopes[j], e[j])
    BY <1>1
  <2>2. ~Bound(e[j].tags[n]) => e[j].tags[n].id = 0
    BY DEF Bound, Unbound
  <2> QED BY <2>1, <2>2 DEF TagsIn
<1>3. CASE Bound(x)
  <2>1. PICK i \in 1..Len(e) : x = e[i]["tags"][n] /\ \A j \in i+1..Len(e) : ~Bound(e[j]["tags"][n])
    BY <1>1, <1>3, VisibleIsInnermost
  <2>2. x = e[i].tags[n] /\ \A j \in i+1..Len(e) : j \in 1..Len(e) /\ t.scopes[j].tags[n] = 0
    BY <1>1, <1>2, <2>1
  <2>3. t.scopes[i].tags[n] = x.id /\ t.scopes[i].tags[n] \in 1..Len(t.tags) /\ t.tags[t.scopes[i].tags[n]].categ = x.kind
    BY <1>2, <1>3, <2>2
  <2>4. t.scopes[i]["tags"][n] # 0 /\ \A j \in i+1..Len(t.scopes) : t.scopes[j]["tags"][n] = 0
    BY <1>1, <2>2, <2>3
  <2>5. FoundIn(t, "tags", n) = i /\ Found(t, "tags", n) = t.scopes[i]["tags"][n]
    BY <1>1, <2>4, LookupStops
  <2>6. s = t.scopes[i].tags[n]
    BY <2>5 DEF LookupTag
  <2> QED BY <1>3, <2>2, <2>3, <2>5, <2>6
<1>4. CASE ~Bound(x)
  <2>1. ASSUME NEW j \in 1..Len(e) PROVE ~Bound(e[j]["tags"][n])
    <3> SUFFICES ASSUME Bound(e[j]["tags"][n]) PROVE FALSE
      OBVIOUS
    <3> DEFINE S == {k \in 1..Len(e) : Bound(e[k]["tags"][n])}
    <3>1. S # {} /\ S \subseteq 1..Len(e)
      OBVIOUS
    <3>2. PICK i \in S : \A k \in S : k <= i
      BY <1>1, <3>1, GreatestExists
    <3>3. \A k \in i+1..Len(e) : ~Bound(e[k]["tags"][n])
      <4> SUFFICES ASSUME NEW k \in i+1..Len(e), Bound(e[k]["tags"][n]) PROVE FALSE
        OBVIOUS
      <4>1. k \in S /\ k > i
        BY <1>1
      <4> QED BY <1>1, <3>2, <4>1
    <3>4. x = e[i]["tags"][n] /\ Bound(e[i]["tags"][n])
      BY <1>1, <3>3, InnermostIsVisible
    <3> QED BY <1>4, <3>4
  <2>2. x = Unbound
    BY <2>1, NothingVisible
  <2>3. \A j \in 1..Len(t.scopes) : t.scopes[j]["tags"][n] = 0
    BY <1>1, <1>2, <2>1
  <2>4. Found(t, "tags", n) = 0
    BY <1>1, <2>3, LookupFinds
  <2> QED BY <1>4, <2>2, <2>4, UnboundFields DEF LookupTag
<1> QED BY <1>3, <1>4

\* The symbol a lookup finds stands for what C sees
LEMMA NameFound ==
  ASSUME NEW t, NEW e, NEW l, TabInv(t, e, l), NEW n \in Names, NEW x, x = Visible(e, "ids", n),
         Bound(x), x.kind = "function" => l[n].plain
  PROVE  LET s == LookupID(t, n)
         IN  /\ s # 0
             /\ Own(x) => /\ s = x.id /\ x.kind \in OwnKinds /\ StandsFor(t.symbols[s], x.kind)
                          /\ x.kind \in {"auto", "static"} => t.symbols[s].level > 0
             /\ HasLinkage(x) => x.kind \in LinkedKinds
             /\ x.kind = "object" => /\ HasLinkage(x) /\ t.symbols[s].kind = "Variable"
                                     /\ t.symbols[s].level = 0 \/ t.symbols[s].sclass = "extern"
             /\ x.kind = "function" => /\ HasLinkage(x) /\ t.symbols[s].kind = "Function"
                                       /\ s = t.scopes[1].ids[n] /\ x = e[1].ids[n]
<1> DEFINE s == LookupID(t, n)
<1>1. /\ Len(t.scopes) = Len(e) /\ Len(e) \in Nat /\ OwnAgree(t, e) /\ Deep(t, e) /\ Inner(t, e)
      /\ LinkedAgree(e, l) /\ FileAgree(t, e, l)
  BY NamedTables DEF TabInv
<1>2. PICK i \in 1..Len(e) : x = e[i]["ids"][n] /\ \A j \in i+1..Len(e) : ~Bound(e[j]["ids"][n])
  BY <1>1, VisibleIsInnermost
<1>3. x = e[i].ids[n] /\ \A j \in i+1..Len(e) : ~Bound(e[j].ids[n]) /\ j \in 2..Len(e)
  BY <1>1, <1>2
<1>4. \A j \in i+1..Len(t.scopes) : t.scopes[j]["ids"][n] = 0
  BY <1>1, <1>3 DEF Inner
<1>5. t.scopes[i].ids[n] # 0 => s = t.scopes[i].ids[n]
  <2> SUFFICES ASSUME t.scopes[i].ids[n] # 0 PROVE s = t.scopes[i].ids[n]
    OBVIOUS
  <2>1. Found(t, "ids", n) = t.scopes[i]["ids"][n]
    BY <1>1, <1>4, LookupStops
  <2> QED BY <2>1 DEF LookupID
<1> HIDE DEF s
<1>6. CASE Own(x)
  <2>1. OwnIn(t, t.scopes[i], e[i])
    BY <1>1 DEF OwnAgree
  <2>2. /\ x.kind \in OwnKinds /\ x.id # 0 /\ t.scopes[i].ids[n] = x.id
        /\ StandsFor(t.symbols[t.scopes[i].ids[n]], x.kind)
    BY <1>3, <1>6, <2>1 DEF OwnIn
  <2>3. x.kind \in {"auto", "static"} => t.symbols[x.id].level > 0
    <3>1. i = 1 => x.kind \in {"typedef", "enum"}
      BY <1>1, <1>3, <1>6 DEF LinkedAgree
    <3>2. i # 1 => DeepIn(t, e[i])
      BY <1>1 DEF Deep
    <3>3. i # 1 => t.symbols[x.id].level > 0
      BY <1>3, <1>6, <3>2 DEF DeepIn
    <3> QED BY <3>1, <3>3
  <2>4. x.kind # "object" /\ x.kind # "function" /\ ~HasLinkage(x)
    BY <1>6, <2>2 DEF OwnKinds, Own
  <2> QED BY <1>5, <2>2, <2>3, <2>4 DEF s
<1>7. CASE HasLinkage(x)
  <2>1. x.kind \in LinkedKinds /\ x.kind = l[n].kind /\ (i > 1 => ~l[n].plain) /\ ~Own(x)
    BY <1>1, <1>3, <1>7 DEF LinkedAgree, Own
  <2>2. CASE i = 1
    <3>1. t.scopes[1].ids[n] # 0
      BY <1>1, <1>3, <1>7, <2>2 DEF FileAgree
    <3>2. s = t.scopes[1].ids[n] /\ s # 0
      BY <1>5, <2>2, <3>1
    <3>3. x.kind = "object" => ObjectRecord(t, s, l[n])
      BY <1>1, <2>1, <3>2 DEF FileAgree
    <3>4. x.kind = "function" => FunctionRecord(t, s, l[n])
      BY <1>1, <2>1, <3>2 DEF FileAgree
    <3>5. x.kind = "object" => t.symbols[s].kind = "Variable" /\ (t.symbols[s].level = 0 \/ t.symbols[s].sclass = "extern")
      BY <3>3 DEF ObjectRecord
    <3>6. x.kind = "function" => t.symbols[s].kind = "Function"
      BY <3>4 DEF FunctionRecord
    <3> QED BY <1>3, <1>7, <2>1, <2>2, <3>2, <3>5, <3>6 DEF s
  <2>3. CASE i > 1
    <3>1. x.kind = "object"
      BY <2>1, <2>3 DEF LinkedKinds
    <3>2. i \in 2..Len(e)
      BY <1>1, <2>3
    <3>3. /\ t.scopes[i].ids[n] # 0 /\ t.symbols[t.scopes[i].ids[n]].kind = "Variable"
          /\ t.symbols[t.scopes[i].ids[n]].sclass = "extern"
      BY <1>1, <1>3, <3>1, <3>2 DEF Inner
    <3> QED BY <1>5, <1>7, <2>1, <3>1, <3>3 DEF s
  <2> QED BY <2>2, <2>3
<1> QED BY <1>6, <1>7 DEF Own

\* A use changes no more than a lookup does
LEMMA UseIs ==
  ASSUME NEW t, NEW e, NEW l, TabInv(t, e, l), NEW n \in Names,
         Bound(Visible(e, "ids", n)), Visible(e, "ids", n).kind # "typedef",
         Visible(e, "ids", n).kind = "function" => l[n].plain
  PROVE  CheckPrimaryExpression(t, n) = LookedUpID(t, n)
<1> DEFINE s == LookupID(t, n)
           u == LookedUpID(t, n)
           x == Visible(e, "ids", n)
<1>1. s # 0 /\ t.symbols[s].kind # "TypedefName"
  <2>1. Own(x) => t.symbols[s].kind # "TypedefName"
    <3>1. Own(x) => x.kind \in OwnKinds /\ StandsFor(t.symbols[s], x.kind)
      BY NameFound
    <3> HIDE DEF x, s
    <3>2. Own(x) => x.kind \in {"enum", "auto", "static"} /\ t.symbols[s].kind = SymbolKind[x.kind]
      BY <3>1 DEF OwnKinds, StandsFor, x
    <3>3. /\ SymbolKind["enum"] = "EnumConstant" /\ SymbolKind["auto"] = "Variable"
          /\ SymbolKind["static"] = "Variable"
      BY DEF SymbolKind
    <3> QED BY <3>2, <3>3
  <2>2. s # 0 /\ (HasLinkage(x) => x.kind \in LinkedKinds)
    BY NameFound
  <2>3. (x.kind = "object" => t.symbols[s].kind = "Variable") /\ (x.kind = "function" => t.symbols[s].kind = "Function")
    BY NameFound
  <2> QED BY <2>1, <2>2, <2>3 DEF Own, LinkedKinds
<1>2. SameButLevel(t.symbols[s], u.symbols[s])
  BY <1>1, LookedUp
<1>3. u.symbols[s].kind # "TypedefName"
  BY <1>1, <1>2 DEF SameButLevel
<1> QED BY <1>1, <1>3 DEF CheckPrimaryExpression

Referenced(t, s) == [t EXCEPT !.symbols[s].ref = TRUE]

\* What marking a function as called changes
LEMMA ReferencedChanges ==
  ASSUME NEW t, NEW e, Framed(t, e), Named(t), NEW s \in 1..Len(t.symbols)
  PROVE  LET u == Referenced(t, s)
         IN  /\ Retouched(t, u) /\ u.rejected = t.rejected /\ u.functions = t.functions
             /\ u.symbols[s].ref = TRUE /\ u.symbols[s].defined = t.symbols[s].defined
             /\ \A j \in 1..Len(t.symbols) :
                  /\ j # s => u.symbols[j] = t.symbols[j]
                  /\ u.symbols[j].level = t.symbols[j].level /\ u.symbols[j].sclass = t.symbols[j].sclass
<1> DEFINE u == Referenced(t, s)
           a == [t.symbols[s] EXCEPT !.ref = TRUE]
           z == [t.symbols EXCEPT ![s] = a]
           was == t.symbols[s]
<1>1. t \in Tables /\ t.functions \subseteq 1..Len(t.symbols) /\ t.FSYM \in 0..Len(t.symbols)
  BY DEF Framed, Named
<1>2. was \in SymbolSet
  BY <1>1, TableFields
<1>3. /\ a \in SymbolSet /\ a.kind = was.kind /\ a.name = was.name /\ a.level = was.level
      /\ a.sclass = was.sclass /\ a.ref = TRUE /\ a.defined = was.defined
  <2> HIDE DEF was
  <2>1. a = [was EXCEPT !.ref = TRUE]
    BY DEF was
  <2> QED BY <1>2, <2>1 DEF SymbolSet
<1>4. u = [t EXCEPT !.symbols = z]
  BY DEF Referenced
<1> HIDE DEF a, u
<1>5. /\ z \in Seq(SymbolSet) /\ Len(z) = Len(t.symbols)
      /\ \A j \in 1..Len(t.symbols) : z[j] = IF j = s THEN a ELSE t.symbols[j]
  BY <1>1, <1>3, TableFields, ExceptSeq
<1> HIDE DEF z
<1>6. /\ u \in Tables /\ u.symbols = z /\ SameScopes(t, u) /\ SameTags(t, u) /\ u.Globals = t.Globals
      /\ u.functions = t.functions /\ u.FSYM = t.FSYM /\ u.rejected = t.rejected
  BY <1>1, <1>4, <1>5 DEF Tables, SameScopes, SameTags
<1>7. \A j \in 1..Len(t.symbols) :
        /\ u.symbols[j].kind = t.symbols[j].kind /\ u.symbols[j].name = t.symbols[j].name
        /\ j # s => u.symbols[j] = t.symbols[j]
        /\ u.symbols[j].level = t.symbols[j].level /\ u.symbols[j].sclass = t.symbols[j].sclass
  BY <1>3, <1>5, <1>6 DEF was
<1>8. u.symbols[s].ref = TRUE /\ u.symbols[s].defined = t.symbols[s].defined
  BY <1>3, <1>5, <1>6 DEF was
<1>9. Retouched(t, u)
  BY <1>1, <1>5, <1>6, <1>7 DEF Retouched
<1> QED BY <1>6, <1>7, <1>8, <1>9 DEF u

\* A call keeps the invariant and records that the function is called
LEMMA CallKeeps ==
  ASSUME NEW t, NEW e, NEW l, TabInv(t, e, l), NEW n \in Names,
         Visible(e, "ids", n).kind = "function", l[n].plain,
         NEW L \in Linkages, L.kind = l[n].kind, L.link = l[n].link, L.plain, L.def <=> l[n].def,
         L.called
  PROVE  TabInv(CheckFunctionCall(t, n), e, [l EXCEPT ![n] = L])
<1> DEFINE s == LookupID(t, n)
           u == LookedUpID(t, n)
           v == LookedUpID(u, n)
           w == Referenced(v, s)
           x == Visible(e, "ids", n)
<1>1. /\ 1 \in 1..Len(e) /\ Len(e) \in Nat /\ LinkedAgree(e, l) /\ l \in [Names -> Linkages]
  BY NamedTables DEF TabInv, LinkedAgree
<1>2. Bound(x)
  BY DEF Bound, Unbound
<1>3. s # 0 /\ HasLinkage(x) /\ s = t.scopes[1].ids[n] /\ x = e[1].ids[n]
  BY <1>2, NameFound
<1>4. TabInv(u, e, l) /\ u.scopes = t.scopes
  BY LookedUp
<1>5. TabInv(v, e, l) /\ v.scopes = t.scopes
  BY <1>4, LookedUp
<1>6. CheckFunctionCall(t, n) = w
  <2>1. CheckPrimaryExpression(u, n) = v
    BY <1>2, <1>4, UseIs
  <2> HIDE DEF u, v, s
  <2>2. CheckFunctionCall(t, n) = [CheckPrimaryExpression(u, n) EXCEPT !.symbols[s].ref = TRUE]
    BY <1>3 DEF CheckFunctionCall, s, u
  <2> QED BY <2>1, <2>2 DEF Referenced
<1> HIDE DEF s, u, v, w, x
<1>7. Framed(v, e) /\ Named(v) /\ ~v.rejected /\ s = v.scopes[1].ids[n] /\ s \in 1..Len(v.symbols)
  <2>1. NamedIn(v, v.scopes[1]) /\ Framed(v, e) /\ Named(v) /\ ~v.rejected
    BY <1>1, <1>5, NamedTables DEF TabInv
  <2> QED BY <1>3, <1>5, <2>1 DEF NamedIn
<1>8. /\ Retouched(v, w) /\ ~w.rejected /\ w.functions = v.functions
      /\ w.symbols[s].ref /\ w.symbols[s].defined = v.symbols[s].defined
      /\ \A j \in 1..Len(v.symbols) :
           /\ j # s => w.symbols[j] = v.symbols[j]
           /\ w.symbols[j].level = v.symbols[j].level /\ w.symbols[j].sclass = v.symbols[j].sclass
  BY <1>7, ReferencedChanges DEF w
<1>9. l[n].kind = "function"
  <2>1. x.kind = "function" /\ x.kind = l[n].kind
    BY <1>1, <1>3 DEF LinkedAgree, x
  <2> QED BY <2>1
<1>10. FunctionRecord(v, s, l[n])
  BY <1>3, <1>5, <1>7, <1>9 DEF TabInv, FileAgree
<1>11. Recorded(w, s, L)
  <2>1. w.symbols[s].kind = v.symbols[s].kind
    BY <1>7, <1>8 DEF Retouched
  <2>2. FunctionRecord(w, s, L)
    BY <1>7, <1>8, <1>10, <2>1 DEF FunctionRecord
  <2> QED BY <1>9, <2>2 DEF Recorded
<1>12. LinkedAgree(e, [l EXCEPT ![n] = L])
  <2> DEFINE m == [l EXCEPT ![n] = L]
  <2>1. m \in [Names -> Linkages] /\ \A p \in Names : m[p] = IF p = n THEN L ELSE l[p]
    BY <1>1
  <2> HIDE DEF m
  <2>2. \A p \in Names : m[p].kind = l[p].kind /\ m[p].link = l[p].link /\ (m[p].plain <=> l[p].plain)
    BY <2>1
  <2>3. \A p \in Names : m[p].kind = "unbound" => m[p] = NeverLinked
    BY <1>1, <1>9, <2>1 DEF LinkedAgree
  <2>4. LinkedAgree(e, m)
    BY <1>1, <2>1, <2>2, <2>3 DEF LinkedAgree
  <2> QED BY <2>4 DEF m
<1>13. Rebound(e, e, 1, n, x)
  <2>1. e \in Seq(CScopes)
    BY DEF TabInv, Framed
  <2> QED BY <1>3, <2>1 DEF Rebound
<1>14. TabInv(w, e, [l EXCEPT ![n] = L])
  <2>1. v.functions \subseteq w.functions /\ w.functions \subseteq v.functions \cup {v.scopes[1].ids[n]}
    BY <1>8
  <2>2. L.kind # "unbound" /\ (L.plain => l[n].plain)
    BY <1>9
  <2>3. \A k \in 1..Len(v.symbols) : k # v.scopes[1].ids[n] => w.symbols[k] = v.symbols[k]
    BY <1>7, <1>8
  <2>4. Recorded(w, v.scopes[1].ids[n], L) /\ v.scopes[1].ids[n] # 0
    BY <1>3, <1>7, <1>11
  <2> DEFINE c == 1
  <2>5. c \in 1..Len(e) /\ Rebound(e, e, c, n, x) /\ ~(c > 1)
    BY <1>1, <1>13
  <2> HIDE DEF c
  <2> QED BY <1>3, <1>5, <1>8, <1>12, <2>1, <2>2, <2>3, <2>4, <2>5, TouchedKeeps
<1> QED BY <1>6, <1>14

-----------------------------------------------------------------------------
(* Tags. *)

\* A lookup of a tag keeps the invariant and gives it the level of its scope
LEMMA TagLookedUp ==
  ASSUME NEW t, NEW e, NEW l, TabInv(t, e, l), NEW n \in TagNames
  PROVE  LET u == LookedUpTag(t, n)
             s == LookupTag(t, n)
         IN  /\ TabInv(u, e, l) /\ Retagged(t, u) /\ KeepsSaved(t, e, u, e) /\ u.Level = Len(e) - 1
             /\ s = 0 => u = t
             /\ s # 0 => /\ s \in 1..Len(t.tags) /\ u.tags[s].categ = t.tags[s].categ
                         /\ u.tags[s].complete = t.tags[s].complete
                         /\ u.tags[s].level = FoundIn(t, "tags", n) - 1
<1> DEFINE u == LookedUpTag(t, n)
           s == LookupTag(t, n)
<1>1. /\ t \in Tables /\ Len(t.scopes) = Len(e) /\ Len(e) \in Nat /\ t.Level = Len(e) - 1
      /\ \A i \in 1..Len(e) : t.scopes[i].level = i - 1
      /\ \A i \in 1..Len(e) : TagsIn(t, t.scopes[i], e[i])
  BY NamedTables DEF TabInv, TagsAgree
<1>2. ASSUME NEW i \in 1..Len(e), t.scopes[i].tags[n] # 0 PROVE t.scopes[i].tags[n] \in 1..Len(t.tags)
  <2>1. TagsIn(t, t.scopes[i], e[i])
    BY <1>1
  <2>2. ~Bound(e[i].tags[n]) => e[i].tags[n].id = 0
    BY DEF Bound, Unbound
  <2> QED BY <1>2, <2>1, <2>2 DEF TagsIn
<1>3. s = Found(t, "tags", n)
  BY DEF LookupTag
<1>4. /\ Retagged(t, u)
      /\ s # 0 => /\ s \in 1..Len(t.tags)
                  /\ u.tags[s].complete = t.tags[s].complete
                  /\ u.tags[s].level = t.scopes[FoundIn(t, "tags", n)].level
  BY <1>1, <1>2, <1>3, LookupTagChanges
<1>5. s = 0 => u = t
  BY <1>3 DEF LookedUpTag
<1>6. s # 0 => FoundIn(t, "tags", n) \in 1..Len(e)
  <2>1. s # 0 => FoundIn(t, "tags", n) \in 1..Len(t.scopes)
    BY <1>1, <1>3, LookupFinds
  <2> QED BY <1>1, <2>1
<1> HIDE DEF u, s
<1>7. TabInv(u, e, l)
  BY <1>4, RetaggedKeeps
<1>8. Len(t.tags) \in Nat /\ Len(u.tags) = Len(t.tags) /\ u.scopes = t.scopes /\ u.symbols = t.symbols /\ u.Level = t.Level
      /\ u.saved = t.saved
  BY <1>1, <1>4, TableFields DEF Retagged, SameScopes
<1>9. KeepsSaved(t, e, u, e)
  <2>1. Later(t, e, u, e)
    BY <1>4, <1>8, LaterTags DEF Retagged
  <2> QED BY <1>8, <2>1, LaterKeepsSaved
<1>10. s # 0 => u.tags[s].categ = t.tags[s].categ
  BY <1>4 DEF Retagged
<1> QED BY <1>1, <1>4, <1>5, <1>6, <1>7, <1>8, <1>9, <1>10 DEF u, s

\* A new tag in the innermost scope
LEMMA AddTagKeeps ==
  ASSUME NEW t, NEW e, NEW l, TabInv(t, e, l), NEW n \in TagNames, NEW categ \in {"struct", "enum"},
         NEW complete \in BOOLEAN
  PROVE  LET u == AddTag(t, n, categ, complete)
             f == Bind(e, "tags", n, Entity(categ, "none", Len(t.tags) + 1))
         IN  TabInv(u, f, l) /\ KeepsSaved(t, e, u, f)
<1> DEFINE u == AddTag(t, n, categ, complete)
           x == Entity(categ, "none", Len(t.tags) + 1)
           f == Bind(e, "tags", n, x)
<1>1. t \in Tables /\ Len(t.scopes) = Len(e) /\ Len(e) > 0 /\ e \in Seq(CScopes) /\ Len(t.tags) \in Nat
  BY NamedTables, TableFields DEF TabInv, Framed
<1>2. x \in Entities
  <2> DEFINE k == Len(t.tags) + 1
  <2>1. k \in Nat
    BY <1>1
  <2> HIDE DEF k
  <2>2. categ \in {"unbound", "struct"} \cup OwnKinds \cup LinkedKinds
    BY DEF OwnKinds
  <2> QED BY <2>1, <2>2 DEF Entity, Entities, k
<1>3. TagPlaced(t, u, n, categ)
  BY <1>1, AddTagPlaced
<1>4. Retied(e, f, n, x)
  BY <1>1, <1>2, BindTags
<1> HIDE DEF u, f
<1>5. TabInv(u, f, l)
  BY <1>3, <1>4, TagPlacedKeeps
<1>6. Later(t, e, u, f)
  <2>1. Len(f) = Len(e) /\ u.symbols = t.symbols /\ Len(u.tags) = Len(t.tags) + 1
    BY <1>3, <1>4 DEF TagPlaced, Retied
  <2>2. \A i \in 1..Len(e) : u.scopes[i].ids = t.scopes[i].ids
    BY <1>1, <1>3 DEF TagPlaced
  <2>3. \A s \in 1..Len(t.tags) : u.tags[s].categ = t.tags[s].categ
    BY <1>3 DEF TagPlaced
  <2>4. Len(u.tags) \in Nat /\ Len(t.tags) <= Len(u.tags)
    BY <1>1, <2>1
  <2> QED BY <2>1, <2>2, <2>3, <2>4, LaterTags
<1>7. KeepsSaved(t, e, u, f)
  BY <1>3, <1>6, LaterKeepsSaved DEF TagPlaced
<1> QED BY <1>5, <1>7 DEF u, f, x

\* struct n or enum n without a list keeps the invariant
LEMMA ReferTagKeeps ==
  ASSUME NEW t, NEW e, NEW l, TabInv(t, e, l), NEW n \in TagNames, NEW categ \in {"struct", "enum"},
         Bound(Visible(e, "tags", n)) => Visible(e, "tags", n).kind = categ,
         NEW f, f = IF Bound(Visible(e, "tags", n)) THEN e
                    ELSE Bind(e, "tags", n, Entity(categ, "none", Len(t.tags) + 1))
  PROVE  TabInv(ReferTag(t, n, categ), f, l) /\ KeepsSaved(t, e, ReferTag(t, n, categ), f)
<1> DEFINE u == ReferTag(t, n, categ)
           v == LookedUpTag(t, n)
           s == LookupTag(t, n)
           x == Visible(e, "tags", n)
<1>1. CASE Bound(x)
  <2>1. s # 0 /\ t.tags[s].categ = categ
    BY <1>1, TagFound
  <2>2. v.tags[s].categ = categ /\ TabInv(v, e, l) /\ KeepsSaved(t, e, v, e)
    BY <2>1, TagLookedUp
  <2>3. u = v
    BY <2>1, <2>2 DEF ReferTag
  <2> QED BY <1>1, <2>2, <2>3
<1>2. CASE ~Bound(x)
  <2>1. s = 0
    BY <1>2, TagFound
  <2>2. v = t
    BY <2>1, TagLookedUp
  <2>3. u = AddTag(t, n, categ, FALSE)
    BY <2>1, <2>2 DEF ReferTag
  <2>4. f = Bind(e, "tags", n, Entity(categ, "none", Len(t.tags) + 1)) /\ FALSE \in BOOLEAN
    BY <1>2
  <2> HIDE DEF u
  <2>5. TabInv(u, f, l) /\ KeepsSaved(t, e, u, f)
    BY <2>3, <2>4, AddTagKeeps
  <2> QED BY <2>5 DEF u
<1> QED BY <1>1, <1>2

\* struct n { ... } or enum n { ... } where n is new or a struct to complete
LEMMA DefineTagKeeps ==
  ASSUME NEW t, NEW e, NEW l, TabInv(t, e, l), NEW n \in TagNames, NEW categ \in {"struct", "enum"},
         NEW x, x = Here(e, "tags", n),
         ~Bound(x) \/ (categ = "struct" /\ x.kind = "struct" /\ ~t.tags[x.id].complete),
         NEW f, f = IF Bound(x) THEN e ELSE Bind(e, "tags", n, Entity(categ, "none", Len(t.tags) + 1)),
         NEW u, u = IF categ = "struct" THEN DefineStruct(t, n) ELSE DefineEnum(t, n)
  PROVE  TabInv(u, f, l) /\ KeepsSaved(t, e, u, f)
<1> DEFINE v == LookedUpTag(t, n)
           s == LookupTag(t, n)
           c == Len(e)
           i == FoundIn(t, "tags", n)
<1>1. /\ t \in Tables /\ Len(t.scopes) = c /\ c \in Nat /\ c > 0 /\ e \in Seq(CScopes) /\ c \in 1..c
      /\ TagsIn(t, t.scopes[c], e[c])
  BY NamedTables DEF TabInv, Framed, TagsAgree
<1>2. x = e[c].tags[n]
  BY <1>1 DEF Here, Last
<1>3. t.scopes[c].tags[n] = x.id /\ (~Bound(x) => x.id = 0)
  BY <1>1, <1>2 DEF TagsIn, Bound, Unbound
<1>4. TabInv(v, e, l) /\ KeepsSaved(t, e, v, e) /\ v.Level = c - 1 /\ Len(v.tags) = Len(t.tags) /\ v \in Tables
  BY TagLookedUp DEF Retagged
<1>5. s # 0 => /\ s \in 1..Len(t.tags) /\ v.tags[s].categ = t.tags[s].categ
               /\ v.tags[s].complete = t.tags[s].complete /\ v.tags[s].level = i - 1
  BY TagLookedUp
<1>6. CASE ~Bound(x)
  <2>1. s # 0 => i \in 1..c /\ i # c
    <3>1. s # 0 => i \in 1..c /\ s = t.scopes[i].tags[n]
      BY TagFound
    <3> QED BY <1>3, <1>6, <3>1
  <2>2. NewHere(v, s)
    BY <1>1, <1>4, <1>5, <2>1 DEF NewHere
  <2>3. u = AddTag(v, n, categ, TRUE)
    <3>1. CASE categ = "struct"
      BY <2>2, <3>1 DEF DefineStruct
    <3>2. CASE categ = "enum"
      BY <2>2, <3>2 DEF DefineEnum
    <3> QED BY <3>1, <3>2
  <2>4. f = Bind(e, "tags", n, Entity(categ, "none", Len(v.tags) + 1)) /\ TRUE \in BOOLEAN
    BY <1>4, <1>6
  <2> HIDE DEF v
  <2>5. TabInv(u, f, l) /\ KeepsSaved(v, e, u, f)
    BY <1>4, <2>3, <2>4, AddTagKeeps
  <2> QED BY <1>4, <2>5, KeepsSavedTwice
<1>7. CASE Bound(x) /\ categ = "struct" /\ x.kind = "struct" /\ ~t.tags[x.id].complete
  <2>1. Visible(e, "tags", n) = x
    <3>1. x = e[c]["tags"][n] /\ Bound(e[c]["tags"][n]) /\ \A j \in c+1..Len(e) : ~Bound(e[j]["tags"][n])
      BY <1>1, <1>2, <1>7
    <3>2. Len(e) \in Nat /\ c \in 1..Len(e)
      BY <1>1
    <3> HIDE DEF c
    <3> QED BY <3>1, <3>2, InnermostIsVisible
  <2>2. /\ s = x.id /\ s # 0 /\ s \in 1..Len(t.tags) /\ t.tags[s].categ = "struct" /\ i \in 1..c
        /\ \A j \in i+1..Len(e) : t.scopes[j].tags[n] = 0
    BY <1>7, <2>1, TagFound
  <2>3. i = c
    BY <1>1, <1>3, <2>2
  <2>4. ~NewHere(v, s) /\ v.tags[s].categ = "struct" /\ ~v.tags[s].complete
    BY <1>1, <1>4, <1>5, <1>7, <2>2, <2>3 DEF NewHere
  <2> DEFINE a == [v.tags[s] EXCEPT !.complete = TRUE]
             w == [v EXCEPT !.tags = [v.tags EXCEPT ![s] = a]]
  <2>5. u = w
    <3>1. u = [v EXCEPT !.tags[s].complete = TRUE]
      BY <1>7, <2>4 DEF DefineStruct
    <3> QED BY <3>1
  <2>6. v.tags[s] \in TagSet /\ s \in 1..Len(v.tags)
    BY <1>4, <2>2, TableFields
  <2>7. a \in TagSet /\ a.categ = v.tags[s].categ
    <3> DEFINE y == v.tags[s]
    <3> HIDE DEF y
    <3>1. y \in TagSet /\ a = [y EXCEPT !.complete = TRUE]
      BY <2>6 DEF y
    <3>2. a \in TagSet /\ a.categ = y.categ
      BY <3>1 DEF TagSet
    <3> QED BY <3>2 DEF y
  <2> HIDE DEF a, v
  <2>8. Retagged(v, w)
    BY <1>4, <2>6, <2>7, TagChanges
  <2> HIDE DEF w
  <2>9. TabInv(w, e, l)
    BY <1>4, <2>8, RetaggedKeeps
  <2>10. KeepsSaved(v, e, w, e)
    <3>1. Len(v.tags) \in Nat /\ w.scopes = v.scopes /\ w.saved = v.saved /\ w.symbols = v.symbols /\ Len(w.tags) = Len(v.tags)
      BY <1>4, <2>8, TableFields DEF Retagged, SameScopes
    <3>2. Later(v, e, w, e)
      BY <1>4, <2>8, <3>1, LaterTags DEF Retagged
    <3> QED BY <3>1, <3>2, LaterKeepsSaved
  <2>11. f = e
    BY <1>7
  <2> QED BY <1>4, <2>5, <2>9, <2>10, <2>11, KeepsSavedTwice
<1> QED BY <1>6, <1>7

-----------------------------------------------------------------------------
(* Scopes. *)

\* EnterScope keeps the invariant and the saved parameter scope
LEMMA EnterKeeps ==
  ASSUME NEW t, NEW e, NEW l, TabInv(t, e, l)
  PROVE  TabInv(EnterScope(t), Open(e), l) /\ KeepsSaved(t, e, EnterScope(t), Open(e))
<1> DEFINE sc == NewTable(t.Level + 1)
           u == EnterScope(t)
<1>1. /\ t \in Tables /\ Len(t.scopes) = Len(e) /\ Len(e) \in Nat /\ Len(e) > 0 /\ t.Level = Len(e) - 1
      /\ e \in Seq(CScopes)
  BY NamedTables DEF TabInv, Framed
<1>2. u = Pushed(t, sc)
  BY DEF EnterScope, Pushed
<1>3. /\ sc \in ScopeSet /\ sc.level = Len(e) /\ \A n \in Names : sc.ids[n] = 0
      /\ \A n \in TagNames : sc.tags[n] = 0
  BY <1>1 DEF NewTable, ScopeSet
<1>4. /\ EmptyScope \in CScopes /\ \A n \in Names : EmptyScope.ids[n] = Unbound
      /\ \A n \in TagNames : EmptyScope.tags[n] = Unbound
  <2>1. Unbound \in Entities
    BY DEF Unbound, Entities
  <2> QED BY <2>1 DEF EmptyScope, CScopes
<1> HIDE DEF sc, u
<1>5. Detached(t, e, sc, EmptyScope)
  <2>1. NamedIn(t, sc)
    BY <1>3 DEF NamedIn
  <2>2. TagsIn(t, sc, EmptyScope)
    BY <1>3, <1>4, UnboundFields DEF TagsIn
  <2>3. OwnIn(t, sc, EmptyScope) /\ DeepIn(t, EmptyScope)
    BY <1>4, UnboundFields DEF OwnIn, DeepIn, Own
  <2> QED BY <1>3, <1>4, <2>1, <2>2, <2>3, UnboundFields DEF Detached
<1>6. TabInv(u, Open(e), l)
  <2>1. Opens(t, e, sc, EmptyScope)
    BY <1>3, <1>4, <1>5 DEF Opens
  <2> QED BY <1>2, <2>1, PushKeeps DEF Open
<1>7. KeepsSaved(t, e, u, Open(e))
  <2> DEFINE z == Append(t.scopes, sc)
             k == t.Level + 1
  <2>1. u = [t EXCEPT !.Level = k, !.scopes = z]
    BY <1>2 DEF Pushed
  <2>2. /\ Len(z) = Len(e) + 1 /\ z[Len(e) + 1] = sc
        /\ \A i \in 1..Len(e) : z[i] = t.scopes[i]
    BY <1>1, <1>3, TableFields, AppendProperties
  <2>3. Len(Open(e)) = Len(e) + 1
    BY <1>1, <1>4, AppendProperties DEF Open
  <2> HIDE DEF z, k
  <2>4. u.scopes = z /\ u.symbols = t.symbols /\ u.tags = t.tags /\ u.saved = t.saved
    BY <1>1, <2>1 DEF Tables
  <2>5. ASSUME NEW j \in 1..Len(Open(e)), NEW m \in Names
        PROVE  u.scopes[j].ids[m] = 0 \/ (j \in 1..Len(e) /\ u.scopes[j].ids[m] = t.scopes[j].ids[m])
    <3>1. j = Len(e) + 1 \/ j \in 1..Len(e)
      BY <1>1, <2>3
    <3> QED BY <1>3, <2>2, <2>4, <3>1
  <2>6. Later(t, e, u, Open(e))
    BY <2>4, <2>5, LaterScopes
  <2> QED BY <2>4, <2>6, LaterKeepsSaved
<1> QED BY <1>6, <1>7 DEF u

\* ExitScope keeps the invariant and the saved parameter scope
LEMMA LeaveKeeps ==
  ASSUME NEW t, NEW e, NEW l, TabInv(t, e, l), Len(e) > 1
  PROVE  TabInv(ExitScope(t), Close(e), l) /\ KeepsSaved(t, e, ExitScope(t), Close(e))
<1> DEFINE u == ExitScope(t)
           f == Close(e)
<1>1. /\ TabInv(u, f, l) /\ Len(f) = Len(e) - 1 /\ u.symbols = t.symbols /\ u.saved = t.saved
      /\ u.tags = t.tags /\ \A i \in 1..Len(e) - 1 : u.scopes[i] = t.scopes[i]
  BY PopKeeps
<1>2. Len(e) \in Nat
  BY NamedTables DEF TabInv
<1> HIDE DEF u, f
<1>3. \A j \in 1..Len(f) : j \in 1..Len(e) /\ u.scopes[j] = t.scopes[j]
  BY <1>1, <1>2
<1>4. Later(t, e, u, f)
  BY <1>1, <1>3, LaterScopes
<1> QED BY <1>1, <1>4, LaterKeepsSaved DEF u, f

\* The parameter list of a definition is left, its scope saved
LEMMA SaveKeeps ==
  ASSUME NEW t, NEW e, NEW l, TabInv(t, e, l), Len(e) = 2,
         \A n \in Names : ~HasLinkage(e[2].ids[n])
  PROVE  LET u == ExitScope(SaveParameterListTable(t))
         IN  TabInv(u, Close(e), l) /\ Last(e) \in CScopes /\ Detached(u, Close(e), u.saved, Last(e))
<1> DEFINE v == SaveParameterListTable(t)
           u == ExitScope(v)
           f == Close(e)
           sc == Last(t.scopes)
<1>1. /\ t \in Tables /\ Len(t.scopes) = 2 /\ 2 \in 1..2 /\ 1 \in 1..1 /\ 2 \in 2..Len(e) /\ Framed(t, e)
      /\ e \in Seq(CScopes) /\ TagsAgree(t, e)
      /\ NamedIn(t, t.scopes[2]) /\ TagsIn(t, t.scopes[2], e[2]) /\ OwnIn(t, t.scopes[2], e[2])
      /\ DeepIn(t, e[2]) /\ Inner(t, e) /\ InNoOther(t, e) /\ LinkedAgree(e, l)
  <2>1. /\ Framed(t, e) /\ Named(t) /\ TagsAgree(t, e) /\ OwnAgree(t, e) /\ Deep(t, e) /\ Inner(t, e)
        /\ InNoOther(t, e) /\ LinkedAgree(e, l)
    BY DEF TabInv
  <2>6. 2 \in 1..2 /\ 1 \in 1..1 /\ 2 \in 2..Len(e) /\ 2 \in 1..Len(e)
    OBVIOUS
  <2>7. t \in Tables /\ Len(t.scopes) = Len(e) /\ \A i \in 1..Len(e) : NamedIn(t, t.scopes[i])
    BY <2>1, NamedTables
  <2>8. e \in Seq(CScopes)
    BY <2>1 DEF Framed
  <2>2. /\ t \in Tables /\ Len(t.scopes) = 2 /\ 2 \in 1..2 /\ 1 \in 1..1 /\ 2 \in 2..Len(e)
        /\ 2 \in 1..Len(e) /\ e \in Seq(CScopes) /\ NamedIn(t, t.scopes[2])
    BY <2>6, <2>7, <2>8
  <2>3. TagsIn(t, t.scopes[2], e[2])
    BY <2>1, <2>2 DEF TagsAgree
  <2>4. OwnIn(t, t.scopes[2], e[2])
    BY <2>1, <2>2 DEF OwnAgree
  <2>5. DeepIn(t, e[2])
    BY <2>1, <2>2 DEF Deep
  <2> QED BY <2>1, <2>2, <2>3, <2>4, <2>5
<1>2. sc = t.scopes[2] /\ Last(e) = e[2] /\ sc \in ScopeSet /\ e[2] \in CScopes
  BY <1>1, TableFields, ScopeFields DEF Last
<1>3. v = [t EXCEPT !.saved = sc]
  BY DEF SaveParameterListTable
<1> HIDE DEF sc, v
<1>4. /\ v \in Tables /\ v.symbols = t.symbols /\ v.tags = t.tags /\ v.scopes = t.scopes /\ v.saved = sc
      /\ v.Level = t.Level /\ SameLists(t, v) /\ v.rejected = t.rejected
  BY <1>1, <1>2, <1>3 DEF Tables, SameLists
<1>5. TabInv(v, e, l)
  <2>1. Framed(v, e) /\ TagsAgree(v, e) /\ ~v.rejected
    BY <1>1, <1>4 DEF Framed, TagsAgree, TagsIn, TabInv
  <2> QED BY <1>4, <2>1, IdsKept
<1> HIDE DEF u, f
<1>6. /\ TabInv(u, f, l) /\ Len(f) = 1 /\ u.symbols = t.symbols /\ u.saved = sc /\ u.tags = t.tags
      /\ \A i \in 1..1 : u.scopes[i] = t.scopes[i]
  <2>1. /\ TabInv(ExitScope(v), Close(e), l) /\ Len(Close(e)) = Len(e) - 1
        /\ \A i \in 1..Len(e) - 1 : ExitScope(v).scopes[i] = v.scopes[i]
        /\ ExitScope(v).symbols = v.symbols /\ ExitScope(v).saved = v.saved /\ ExitScope(v).tags = v.tags
    <3>1. Len(e) > 1
      OBVIOUS
    <3> QED BY <1>5, <3>1, PopKeeps
  <2>2. Len(e) - 1 = 1
    OBVIOUS
  <2> QED BY <1>4, <2>1, <2>2 DEF u, f
<1>7. NamedIn(u, sc) /\ TagsIn(u, sc, e[2]) /\ OwnIn(u, sc, e[2]) /\ DeepIn(u, e[2])
  BY <1>1, <1>2, <1>6 DEF NamedIn, TagsIn, OwnIn, DeepIn
<1>8. ASSUME NEW n \in Names
      PROVE  /\ ~HasLinkage(e[2].ids[n])
             /\ ~Bound(e[2].ids[n]) => sc.ids[n] = 0
             /\ Bound(e[2].ids[n]) => \A j \in 1..Len(f) : u.scopes[j].ids[n] # e[2].ids[n].id
  <2>1. ~Bound(e[2].ids[n]) => sc.ids[n] = 0
    BY <1>1, <1>2 DEF Inner
  <2>2. Bound(e[2].ids[n]) => t.scopes[1].ids[n] # e[2].ids[n].id
    <3>1. Bound(e[2].ids[n]) => Own(e[2].ids[n])
      BY DEF Own
    <3>2. 1 \in 1..Len(e) /\ 2 \in 1..Len(e) /\ 1 # 2
      OBVIOUS
    <3> QED BY <1>1, <3>1, <3>2 DEF InNoOther
  <2>3. \A j \in 1..Len(f) : u.scopes[j] = t.scopes[1]
    BY <1>1, <1>6
  <2> QED BY <2>1, <2>2, <2>3
<1>9. Detached(u, f, sc, e[2])
  BY <1>7, <1>8 DEF Detached
<1> QED BY <1>2, <1>6, <1>9 DEF u, v, f

\* An enumerator keeps the invariant and the saved parameter scope
LEMMA EnumeratorKeeps ==
  ASSUME NEW t, NEW e, NEW l, TabInv(t, e, l), NEW n \in Names, ~Bound(e[Len(e)].ids[n]),
         Len(e) = 1 => l[n].kind = "unbound",
         NEW f, f = Bind(e, "ids", n, Entity("enum", "none", Newest(t) + 1))
  PROVE  TabInv(CheckEnumerator(t, n), f, l) /\ KeepsSaved(t, e, CheckEnumerator(t, n), f)
<1> DEFINE u == LookedUpID(t, n)
           w == OwnAdded(u, n, "enum")
           x == Entity("enum", "none", Newest(t) + 1)
<1>1. "enum" \in OwnKinds /\ "enum" \in {"typedef", "enum"}
  BY DEF OwnKinds
<1>2. CheckEnumerator(t, n) = w
  BY EnumeratorIs
<1>3. TabInv(w, f, l)
  BY <1>1, LookedUpAdded
<1>4. TabInv(u, e, l) /\ Later(t, e, u, e)
  BY LookedUp, LaterLookedUp
<1>5. u.saved = t.saved
  BY LookupKeeps DEF Relevelled, SameScopes
<1>6. KeepsSaved(t, e, u, e)
  BY <1>4, <1>5, LaterKeepsSaved
<1>7. Len(f) = Len(e)
  <2>1. e \in Seq(CScopes) /\ Len(e) > 0
    BY NamedTables DEF TabInv, Framed
  <2>2. Len(f) = Len([e EXCEPT ![Len(e)]["ids"][n] = x])
    BY DEF Bind
  <2> QED BY <2>1, <2>2
<1> HIDE DEF u, x, w
<1>8. KeepsSaved(u, e, w, f)
  <2> DEFINE P == {Len(e)}
             y == Fresh(SymbolKind["enum"], n, OwnClass("enum"), Len(e) - 1)
             g == "enum" = "static"
  <2>1. Placed(u, OwnAdded(u, n, "enum"), n, P, y, g)
    BY <1>1, <1>4, OwnAddedKeeps
  <2> HIDE DEF P, y, g
  <2>2. Placed(u, w, n, P, y, g)
    BY <2>1 DEF w
  <2>3. Later(u, e, w, f)
    BY <1>4, <1>7, <2>2, LaterPlaced
  <2>4. w.saved = u.saved
    BY <2>2 DEF Placed
  <2> QED BY <2>3, <2>4, LaterKeepsSaved
<1> QED BY <1>2, <1>3, <1>6, <1>8, KeepsSavedTwice

-----------------------------------------------------------------------------
(* The actions. *)

\* Where in the program the table is: at file scope one scope is open, in a body or
\* a list more
LEMMA PlaceIs ==
  ASSUME IInv
  PROVE  /\ Len(env) \in Nat /\ Len(env) > 0 /\ Len(ctx) = Len(env) /\ Place = ctx[Len(env)]
         /\ env \in Seq(CScopes)
         /\ AtFile => Len(env) = 1 /\ head = NoHead
         /\ InBody => Len(env) > 1 /\ head = NoHead
         /\ InList => Len(env) > 1
<1>1. Len(env) \in Nat /\ Len(env) > 0 /\ env \in Seq(CScopes)
  BY NamedTables DEF IInv, TabInv, Framed
<1>2. Len(env) \in 1..Len(env)
  BY <1>1
<1>3. Len(ctx) = Len(env) /\ Place = ctx[Len(env)]
  BY DEF IInv, CtxInv, Place, Last
<1>4. /\ Place = "file" <=> Len(env) = 1
      /\ head # NoHead => Place \in {"file", "def", "list"}
  BY <1>2, <1>3 DEF IInv, CtxInv
<1> QED BY <1>1, <1>3, <1>4 DEF AtFile, InBody, InList

\* A step that neither opens nor closes a scope
LEMMA Settled ==
  ASSUME IInv, TabInv(tab', env', linked'), UNCHANGED <<ctx, head, envSaved>>, Len(env') = Len(env),
         \A i \in 1..Len(env), n \in Names :
           ctx[i] \in {"def", "list"} => ~HasLinkage(env'[i].ids[n]),
         head # NoHead => linked' = linked /\ env'[1].ids = env[1].ids /\ KeepsSaved(tab, env, tab', env')
  PROVE  IInv'
<1>1. CtxInv'
  BY DEF IInv, CtxInv
<1>2. HeadInv'
  BY DEF IInv, HeadInv, HeadLink, Agrees
<1>3. SavedInv'
  BY DEF IInv, SavedInv, KeepsSaved
<1> QED BY <1>1, <1>2, <1>3 DEF IInv

\* ... and gives a name without linkage a new meaning in the innermost scope
LEMMA OwnSettled ==
  ASSUME IInv, NEW n \in Names, NEW kind \in OwnKinds, NEW id,
         env' = Bind(env, "ids", n, Entity(kind, "none", id)), id \in Nat,
         TabInv(tab', env', linked), UNCHANGED <<ctx, head, envSaved, linked>>,
         head # NoHead => Len(env) > 1 /\ KeepsSaved(tab, env, tab', env')
  PROVE  IInv'
<1> DEFINE x == Entity(kind, "none", id)
           c == Len(env)
<1>1. x \in Entities /\ ~HasLinkage(x)
  <2>1. "none" \in {"none"} \cup Links /\ kind \in {"unbound", "struct"} \cup OwnKinds \cup LinkedKinds
    OBVIOUS
  <2> QED BY <2>1, EntityFields DEF Entity, Entities
<1>2. Rebound(env, env', c, n, x)
  BY <1>1, PlaceIs, BindIds
<1> HIDE DEF x
<1>3. /\ Len(env') = Len(env)
      /\ \A i \in 1..Len(env), m \in Names : env'[i].ids[m] \in {x, env[i].ids[m]}
  BY <1>2 DEF Rebound
<1>4. \A i \in 1..Len(env), m \in Names :
        ctx[i] \in {"def", "list"} => ~HasLinkage(env'[i].ids[m])
  BY <1>1, <1>3, PlaceIs DEF IInv, CtxInv
<1>5. head # NoHead => env'[1].ids = env[1].ids
  <2> SUFFICES ASSUME c > 1 PROVE env'[1].ids = env[1].ids
    OBVIOUS
  <2>1. 1 \in 1..c /\ 1 # c /\ c \in Nat
    BY PlaceIs
  <2>2. \A m \in Names : env'[1].ids[m] = env[1].ids[m]
    BY <1>2, <2>1 DEF Rebound
  <2>3. env'[1].ids \in [Names -> Entities] /\ env[1].ids \in [Names -> Entities]
    BY <1>2, <2>1, PlaceIs, ScopeFields DEF Rebound
  <2> QED BY <2>2, <2>3
<1> QED BY <1>3, <1>4, <1>5, Settled

\* Typedef keeps the invariant
LEMMA TypedefKeeps ==
  ASSUME IInv, NEW n \in Names, Typedef(n)
  PROVE  IInv'
<1>1. /\ TabInv(tab, env, linked) /\ head = NoHead /\ ~Bound(env[Len(env)].ids[n])
      /\ Len(env) = 1 => linked[n].kind = "unbound"
  BY PlaceIs DEF IInv, Typedef, MayDeclare, Here, Last
<1>2. "typedef" \in OwnKinds /\ "typedef" \in {"typedef", "enum"}
  BY DEF OwnKinds
<1>3. Newest(tab) + 1 \in Nat
  BY <1>1, NamedTables, TableFields DEF TabInv, Newest
<1>4. /\ tab' = AddTypedefName(LookedUpID(tab, n), n)
      /\ env' = Bind(env, "ids", n, Entity("typedef", "none", Newest(tab) + 1))
      /\ UNCHANGED <<ctx, head, envSaved, linked>>
  BY DEF Typedef
<1>5. tab' = OwnAdded(LookedUpID(tab, n), n, "typedef")
  BY <1>4 DEF OwnAdded
<1>6. TabInv(tab', env', linked)
  BY <1>1, <1>2, <1>4, <1>5, LookedUpAdded
<1> QED BY <1>1, <1>2, <1>3, <1>4, <1>6, OwnSettled

\* Enumerator keeps the invariant
LEMMA EnumeratorStep ==
  ASSUME IInv, NEW n \in Names, Enumerator(n)
  PROVE  IInv'
<1>1. /\ TabInv(tab, env, linked) /\ ~Bound(env[Len(env)].ids[n])
      /\ Len(env) = 1 => linked[n].kind = "unbound"
      /\ head # NoHead => Len(env) > 1
  BY PlaceIs DEF IInv, Enumerator, MayDeclare, Here, Last
<1>2. "enum" \in OwnKinds
  BY DEF OwnKinds
<1>3. Newest(tab) + 1 \in Nat
  BY <1>1, NamedTables, TableFields DEF TabInv, Newest
<1>4. /\ tab' = CheckEnumerator(tab, n)
      /\ env' = Bind(env, "ids", n, Entity("enum", "none", Newest(tab) + 1))
      /\ UNCHANGED <<ctx, head, envSaved, linked>>
  BY DEF Enumerator
<1>5. TabInv(tab', env', linked) /\ KeepsSaved(tab, env, tab', env')
  BY <1>1, <1>4, EnumeratorKeeps
<1> QED BY <1>1, <1>2, <1>3, <1>4, <1>5, OwnSettled

\* LocalVariable keeps the invariant
LEMMA LocalVariableKeeps ==
  ASSUME IInv, NEW n \in Names, NEW kind \in {"auto", "static"}, LocalVariable(n, kind)
  PROVE  IInv'
<1>1. /\ TabInv(tab, env, linked) /\ head = NoHead /\ ~Bound(env[Len(env)].ids[n]) /\ Len(env) > 1
  BY PlaceIs DEF IInv, LocalVariable, MayDeclare, Here, Last
<1>2. kind \in OwnKinds
  BY DEF OwnKinds
<1>3. Newest(tab) + 1 \in Nat
  BY <1>1, NamedTables, TableFields DEF TabInv, Newest
<1>4. /\ tab' = CheckLocalDeclaration(tab, n, kind)
      /\ env' = Bind(env, "ids", n, Entity(kind, "none", Newest(tab) + 1))
      /\ UNCHANGED <<ctx, head, envSaved, linked>>
  BY DEF LocalVariable
<1>5. tab' = OwnAdded(LookedUpID(tab, n), n, kind)
  BY <1>1, <1>4, LocalIs
<1>6. TabInv(tab', env', linked)
  BY <1>1, <1>2, <1>4, <1>5, LookedUpAdded
<1> QED BY <1>1, <1>2, <1>3, <1>4, <1>6, OwnSettled

\* A step on tags
LEMMA TagSettled ==
  ASSUME IInv, NEW n \in TagNames, NEW categ \in {"struct", "enum"},
         env' \in {env, Bind(env, "tags", n, Entity(categ, "none", Len(tab.tags) + 1))},
         TabInv(tab', env', linked), KeepsSaved(tab, env, tab', env'),
         UNCHANGED <<ctx, head, envSaved, linked>>
  PROVE  IInv'
<1> DEFINE x == Entity(categ, "none", Len(tab.tags) + 1)
<1>1. x \in Entities
  <2>1. Len(tab.tags) \in Nat
    BY NamedTables, TableFields DEF IInv, TabInv
  <2>2. categ \in {"unbound", "struct"} \cup OwnKinds \cup LinkedKinds
    BY DEF OwnKinds
  <2> DEFINE k == Len(tab.tags) + 1
  <2>3. k \in Nat
    BY <2>1
  <2> HIDE DEF k
  <2> QED BY <2>2, <2>3 DEF Entity, Entities, k
<1>2. Len(env') = Len(env) /\ \A i \in 1..Len(env) : env'[i].ids = env[i].ids
  <2>1. CASE env' = env
    BY <2>1
  <2>2. CASE env' = Bind(env, "tags", n, x)
    <3>1. Retied(env, env', n, x)
      BY <1>1, <2>2, PlaceIs, BindTags
    <3> QED BY <3>1 DEF Retied
  <2> QED BY <2>1, <2>2
<1>3. \A i \in 1..Len(env), m \in Names :
        ctx[i] \in {"def", "list"} => ~HasLinkage(env'[i].ids[m])
  BY <1>2, PlaceIs DEF IInv, CtxInv
<1>4. env'[1].ids = env[1].ids
  BY <1>2, PlaceIs
<1> QED BY <1>2, <1>3, <1>4, Settled

\* TagReference keeps the invariant
LEMMA TagReferenceKeeps ==
  ASSUME IInv, NEW n \in TagNames, NEW categ \in {"struct", "enum"}, TagReference(n, categ)
  PROVE  IInv'
<1> DEFINE x == Visible(env, "tags", n)
<1>1. /\ TabInv(tab, env, linked) /\ (Bound(x) => x.kind = categ)
      /\ tab' = ReferTag(tab, n, categ)
      /\ env' = IF Bound(x) THEN env ELSE Bind(env, "tags", n, Entity(categ, "none", Len(tab.tags) + 1))
      /\ UNCHANGED <<ctx, head, envSaved, linked>>
  BY DEF TagReference, IInv
<1>2. TabInv(tab', env', linked) /\ KeepsSaved(tab, env, tab', env')
  BY <1>1, ReferTagKeeps
<1> HIDE DEF x
<1>3. env' \in {env, Bind(env, "tags", n, Entity(categ, "none", Len(tab.tags) + 1))}
  BY <1>1
<1> QED BY <1>1, <1>2, <1>3, TagSettled

\* TagDefinition keeps the invariant
LEMMA TagDefinitionKeeps ==
  ASSUME IInv, NEW n \in TagNames, NEW categ \in {"struct", "enum"}, TagDefinition(n, categ)
  PROVE  IInv'
<1> DEFINE x == Here(env, "tags", n)
<1>1. /\ TabInv(tab, env, linked)
      /\ ~Bound(x) \/ (categ = "struct" /\ x.kind = "struct" /\ ~tab.tags[x.id].complete)
      /\ tab' = IF categ = "struct" THEN DefineStruct(tab, n) ELSE DefineEnum(tab, n)
      /\ env' = IF Bound(x) THEN env ELSE Bind(env, "tags", n, Entity(categ, "none", Len(tab.tags) + 1))
      /\ UNCHANGED <<ctx, head, envSaved, linked>>
  BY DEF TagDefinition, Completable, IInv
<1>2. TabInv(tab', env', linked) /\ KeepsSaved(tab, env, tab', env')
  BY <1>1, DefineTagKeeps
<1> HIDE DEF x
<1>3. env' \in {env, Bind(env, "tags", n, Entity(categ, "none", Len(tab.tags) + 1))}
  BY <1>1
<1> QED BY <1>1, <1>2, <1>3, TagSettled

\* A step that gives a name with linkage one more declaration
LEMMA LinkSettled ==
  ASSUME IInv, NEW n \in Names, NEW c \in 1..Len(env), NEW x, Rebound(env, env', c, n, x),
         head = NoHead, ctx[c] \notin {"def", "list"}, TabInv(tab', env', linked'),
         UNCHANGED <<ctx, head, envSaved>>
  PROVE  IInv'
<1>1. /\ Len(env') = Len(env)
      /\ \A i \in 1..Len(env), m \in Names :
           i # c => env'[i].ids[m] = env[i].ids[m]
  BY DEF Rebound
<1>2. \A i \in 1..Len(env), m \in Names :
        ctx[i] \in {"def", "list"} => ~HasLinkage(env'[i].ids[m])
  BY <1>1, PlaceIs DEF IInv, CtxInv
<1> QED BY <1>1, <1>2, Settled

\* At file scope there is one scope, in the body of a function the innermost is not a list
LEMMA LinkPlaces ==
  ASSUME IInv
  PROVE  /\ AtFile => ctx[1] \notin {"def", "list"}
         /\ InBody => ctx[Len(env)] \notin {"def", "list"}
<1>1. Place = ctx[Len(env)] /\ (AtFile => Len(env) = 1)
  BY PlaceIs
<1> QED BY <1>1 DEF AtFile, InBody

\* An object or function with linkage is an entity
LEMMA LinkEntity ==
  ASSUME NEW kind \in LinkedKinds, NEW link \in Links
  PROVE  LET x == Entity(kind, link, 0) IN x \in Entities /\ x.kind = kind /\ HasLinkage(x)
<1>1. kind \in {"unbound", "struct"} \cup OwnKinds \cup LinkedKinds /\ link \in {"none"} \cup Links /\ link # "none"
  BY DEF Links
<1> QED BY <1>1, EntityFields DEF Entity, Entities

\* What MayLink says, without the forms of extern that are left out
LEMMA MayLinkSays ==
  ASSUME IInv, AnyExtern = FALSE, NEW n \in Names, NEW kind, MayLink(n, kind)
  PROVE  /\ ~Own(env[Len(env)].ids[n]) /\ ~Own(env[1].ids[n])
         /\ linked[n].kind = "unbound" \/ (linked[n].kind = kind /\ linked[n].link = ExternLink(env, n))
         /\ kind = "object" \/ ExternLink(env, n) = "external"
         /\ ExternLink(env, n) \in Links /\ linked \in [Names -> Linkages]
<1>1. Here(env, "ids", n) = env[Len(env)].ids[n]
  BY PlaceIs DEF Here, Last
<1>2. LinkedAgree(env, linked) /\ Len(env) \in Nat
  BY PlaceIs DEF IInv, TabInv
<1>3. ExternLink(env, n) \in Links
  BY <1>2, ExternLinkIs
<1> QED BY <1>1, <1>2, <1>3 DEF MayLink, Own, Agrees, LinkedAgree

\* LocalExtern keeps the invariant, without the forms of extern that are left out
LEMMA LocalExternStep ==
  ASSUME IInv, AnyExtern = FALSE, NEW n \in Names, LocalExtern(n)
  PROVE  IInv'
<1> DEFINE link == ExternLink(env, n)
           x == Entity("object", link, 0)
           N == [linked[n] EXCEPT !.kind = "object", !.link = link, !.plain = FALSE]
<1>1. /\ TabInv(tab, env, linked) /\ Len(env) > 1 /\ head = NoHead /\ ctx[Len(env)] \notin {"def", "list"}
      /\ Len(env) \in 1..Len(env) /\ env \in Seq(CScopes)
  BY PlaceIs, LinkPlaces DEF IInv, LocalExtern
<1>2. /\ ~Own(env[Len(env)].ids[n]) /\ ~Own(env[1].ids[n]) /\ link \in Links
      /\ linked[n].kind = "unbound" \/ (linked[n].kind = "object" /\ linked[n].link = link)
      /\ linked \in [Names -> Linkages]
  BY MayLinkSays DEF LocalExtern
<1>3. /\ tab' = CheckLocalDeclaration(tab, n, "extern")
      /\ env' = Bind(env, "ids", n, x)
      /\ linked' = [linked EXCEPT ![n].kind = "object", ![n].link = link, ![n].plain = FALSE]
      /\ UNCHANGED <<ctx, head, envSaved>>
  BY DEF LocalExtern, LinkedInBlock, DeclareLinked
<1>4. linked' = [linked EXCEPT ![n] = N]
  <2> HIDE DEF link
  <2> QED BY <1>2, <1>3
<1>5. TabInv(CheckLocalDeclaration(tab, n, "extern"), Bind(env, "ids", n, x), [linked EXCEPT ![n] = N])
  BY <1>1, <1>2, LocalExternKeeps
<1> HIDE DEF N
<1>6. TabInv(tab', env', linked')
  BY <1>3, <1>4, <1>5
<1>7. Rebound(env, env', Len(env), n, x)
  <2>1. "object" \in LinkedKinds
    BY DEF LinkedKinds
  <2>2. x \in Entities
    BY <1>2, <2>1, LinkEntity
  <2> HIDE DEF x
  <2> QED BY <1>1, <1>3, <2>2, BindIds
<1> QED BY <1>1, <1>3, <1>6, <1>7, LinkSettled

\* LocalFunction keeps the invariant, without the forms of extern that are left out
LEMMA LocalFunctionStep ==
  ASSUME IInv, AnyExtern = FALSE, NEW n \in Names, NEW equal \in BOOLEAN, LocalFunction(n, equal)
  PROVE  IInv'
<1> DEFINE link == ExternLink(env, n)
           x == Entity("function", link, 0)
           N == [linked[n] EXCEPT !.kind = "function", !.link = link, !.plain = FALSE]
<1>1. /\ TabInv(tab, env, linked) /\ Len(env) > 1 /\ head = NoHead /\ ctx[Len(env)] \notin {"def", "list"}
      /\ Len(env) \in 1..Len(env) /\ env \in Seq(CScopes)
  BY PlaceIs, LinkPlaces DEF IInv, LocalFunction
<1>2. /\ ~Own(env[Len(env)].ids[n]) /\ ~Own(env[1].ids[n]) /\ link \in Links /\ link = "external"
      /\ linked[n].kind = "unbound" \/ (linked[n].kind = "function" /\ linked[n].link = link)
      /\ linked \in [Names -> Linkages]
  <2> HIDE DEF link, x, N
  <2>1. MayLink(n, "function")
    BY DEF LocalFunction
  <2>2. /\ ~Own(env[Len(env)].ids[n]) /\ ~Own(env[1].ids[n])
        /\ linked[n].kind = "unbound" \/ (linked[n].kind = "function" /\ linked[n].link = ExternLink(env, n))
        /\ ExternLink(env, n) \in Links /\ linked \in [Names -> Linkages]
    BY <2>1, MayLinkSays
  <2>3. "function" = "object" \/ ExternLink(env, n) = "external"
    BY <2>1, MayLinkSays
  <2>4. "function" # "object"
    OBVIOUS
  <2>5. ExternLink(env, n) = "external"
    BY <2>3, <2>4
  <2> QED BY <2>2, <2>5 DEF link
<1>3. /\ tab' = LocalFunctionDeclarator(tab, n, equal)
      /\ env' = Bind(env, "ids", n, x)
      /\ linked' = [linked EXCEPT ![n].kind = "function", ![n].link = link, ![n].plain = FALSE]
      /\ UNCHANGED <<ctx, head, envSaved>>
  BY DEF LocalFunction, LinkedInBlock, DeclareLinked
<1>4. linked' = [linked EXCEPT ![n] = N]
  <2> HIDE DEF link
  <2> QED BY <1>2, <1>3
<1>5. TabInv(LocalFunctionDeclarator(tab, n, equal), Bind(env, "ids", n, x), [linked EXCEPT ![n] = N])
  BY <1>1, <1>2, LocalFunctionKeeps
<1> HIDE DEF N
<1>6. TabInv(tab', env', linked')
  BY <1>3, <1>4, <1>5
<1>7. Rebound(env, env', Len(env), n, x)
  <2>1. "function" \in LinkedKinds
    BY DEF LinkedKinds
  <2>2. x \in Entities
    BY <1>2, <2>1, LinkEntity
  <2> HIDE DEF x
  <2> QED BY <1>1, <1>3, <2>2, BindIds
<1> QED BY <1>1, <1>3, <1>6, <1>7, LinkSettled

\* Use keeps the invariant: what C sees is found, and is no typedef
LEMMA UseStep ==
  ASSUME IInv, NEW n \in Names, Use(n)
  PROVE  IInv'
<1> DEFINE x == Visible(env, "ids", n)
<1>1. /\ TabInv(tab, env, linked) /\ head = NoHead /\ x.kind \in {"object", "auto", "static", "enum"}
      /\ tab' = CheckPrimaryExpression(tab, n) /\ UNCHANGED <<ctx, head, env, envSaved, linked>>
  BY PlaceIs DEF IInv, Use
<1>2. Bound(x) /\ x.kind # "typedef" /\ x.kind # "function"
  BY <1>1 DEF Bound, Unbound
<1>3. tab' = LookedUpID(tab, n)
  BY <1>1, <1>2, UseIs
<1>4. TabInv(tab', env', linked')
  <2>1. TabInv(LookedUpID(tab, n), env, linked)
    BY <1>1, LookedUp
  <2> QED BY <1>1, <1>3, <2>1
<1>5. \A i \in 1..Len(env), m \in Names :
        ctx[i] \in {"def", "list"} => ~HasLinkage(env'[i].ids[m])
  BY <1>1, PlaceIs DEF IInv, CtxInv
<1> QED BY <1>1, <1>4, <1>5, Settled

\* Call keeps the invariant
LEMMA CallStep ==
  ASSUME IInv, NEW n \in Names, Call(n)
  PROVE  IInv'
<1> DEFINE N == [linked[n] EXCEPT !.called = TRUE]
           K == linked[n]
<1>1. /\ TabInv(tab, env, linked) /\ head = NoHead
      /\ Visible(env, "ids", n).kind = "function" /\ linked[n].plain
      /\ tab' = CheckFunctionCall(tab, n) /\ UNCHANGED <<ctx, head, env, envSaved>>
      /\ linked' = [linked EXCEPT ![n].called = TRUE]
  BY PlaceIs DEF IInv, Call
<1>2. K \in Linkages /\ linked \in [Names -> Linkages]
  BY <1>1 DEF TabInv, LinkedAgree
<1>3. linked' = [linked EXCEPT ![n] = N]
  BY <1>1, <1>2
<1>4. N \in Linkages /\ N.kind = K.kind /\ N.link = K.link /\ N.plain = K.plain /\ N.def = K.def /\ N.called
  <2> HIDE DEF K
  <2>1. N = [K EXCEPT !.called = TRUE]
    BY DEF K
  <2> QED BY <1>2, <2>1 DEF Linkages
<1> HIDE DEF N
<1>5. TabInv(CheckFunctionCall(tab, n), env, [linked EXCEPT ![n] = N])
  BY <1>1, <1>4, CallKeeps
<1>6. TabInv(tab', env', linked')
  BY <1>1, <1>3, <1>5
<1>7. \A i \in 1..Len(env), m \in Names :
        ctx[i] \in {"def", "list"} => ~HasLinkage(env'[i].ids[m])
  BY <1>1, PlaceIs DEF IInv, CtxInv
<1> QED BY <1>1, <1>6, <1>7, Settled

\* GlobalFunction keeps the invariant
LEMMA GlobalFunctionStep ==
  ASSUME IInv, NEW n \in Names, NEW sclass \in {"none", "static"}, GlobalFunction(n, sclass)
  PROVE  IInv'
<1> DEFINE link == IF sclass = "static" THEN "internal" ELSE ExternLink(env, n)
           x == Entity("function", link, 0)
           N == [linked[n] EXCEPT !.kind = "function", !.link = link]
           K == linked[n]
<1>1. /\ TabInv(tab, env, linked) /\ Len(env) = 1 /\ head = NoHead /\ ctx[1] \notin {"def", "list"}
      /\ 1 \in 1..Len(env) /\ env \in Seq(CScopes) /\ LinkedAgree(env, linked)
      /\ K \in Linkages /\ linked \in [Names -> Linkages]
  BY PlaceIs, LinkPlaces DEF IInv, GlobalFunction, TabInv, LinkedAgree
<1>2. /\ env[1].ids[n].kind \in {"unbound", "function"}
      /\ linked[n].kind = "unbound" \/ (linked[n].kind = "function" /\ linked[n].link = link)
  BY <1>1 DEF GlobalFunction, MayDeclareFile, Here, Last, Agrees
<1>3. /\ tab' = GlobalFunctionDeclarator(tab, n, sclass)
      /\ env' = Bind(env, "ids", n, x)
      /\ linked' = [linked EXCEPT ![n].kind = "function", ![n].link = link]
      /\ UNCHANGED <<ctx, head, envSaved>>
  BY DEF GlobalFunction, DeclareLinked
<1>4. link \in Links
  BY <1>1, ExternLinkIs DEF Links
<1>5. linked' = [linked EXCEPT ![n] = N]
  <2> HIDE DEF link
  <2> QED BY <1>1, <1>3
<1>6. /\ N \in Linkages /\ N.kind = "function" /\ N.link = link /\ N.plain = K.plain /\ N.def = K.def
      /\ N.called = K.called
  <2> HIDE DEF K, link
  <2>1. N = [K EXCEPT !.kind = "function", !.link = link]
    BY DEF K
  <2> QED BY <1>1, <1>4, <2>1 DEF Linkages, LinkedKinds
<1> HIDE DEF N
<1>7. Rebound(env, env', 1, n, x)
  <2>1. "function" \in LinkedKinds
    BY DEF LinkedKinds
  <2>2. x \in Entities
    BY <1>4, <2>1, LinkEntity
  <2> HIDE DEF x
  <2>3. env' = Bind(env, "ids", n, x) /\ Len(env) > 0
    BY <1>1, <1>3
  <2>4. Rebound(env, env', Len(env), n, x)
    BY <1>1, <2>2, <2>3, BindIds
  <2> QED BY <1>1, <2>4
<1>8. TabInv(GlobalFunctionDeclarator(tab, n, sclass), env', [linked EXCEPT ![n] = N])
  BY <1>1, <1>2, <1>6, <1>7, GlobalFunctionKeeps
<1>9. TabInv(tab', env', linked')
  BY <1>3, <1>5, <1>8
<1> QED BY <1>1, <1>3, <1>7, <1>9, LinkSettled

\* A declarator: what GlobalDeclaratorKeeps asks and what C makes of it
LEMMA FileLinkIs ==
  ASSUME IInv, Len(env) = 1, NEW n \in Names, NEW sclass \in {"none", "extern", "static"},
         MayDeclareFile(n, "object", FileLink(n, sclass))
  PROVE  /\ FileLink(n, sclass) \in Links
         /\ env[1].ids[n].kind \in {"unbound", "object"}
         /\ linked[n].kind = "unbound" \/ (linked[n].kind = "object" /\ linked[n].link = FileLink(n, sclass))
         /\ sclass = "static" => FileLink(n, sclass) = "internal"
         /\ sclass = "none" => FileLink(n, sclass) = "external"
         /\ sclass = "extern" /\ linked[n].kind = "unbound" => FileLink(n, sclass) = "external"
<1>1. LinkedAgree(env, linked) /\ 1 \in 1..Len(env)
  BY PlaceIs DEF IInv, TabInv
<1>2. /\ ExternLink(env, n) \in Links
      /\ ExternLink(env, n) = IF HasLinkage(env[1].ids[n]) THEN env[1].ids[n].link ELSE "external"
  BY <1>1, ExternLinkIs
<1>3. linked[n].kind = "unbound" => ~HasLinkage(env[1].ids[n])
  BY <1>1 DEF LinkedAgree, LinkedKinds
<1>4. Here(env, "ids", n) = env[1].ids[n]
  BY DEF Here, Last
<1> QED BY <1>2, <1>3, <1>4 DEF MayDeclareFile, Agrees, FileLink, Links


\* linked after a variable of linkage link was declared, defined and initialised or not
LinkedObject(K, link, def, init) ==
  [K EXCEPT !.kind = "object", !.link = link, !.def = @ \/ def \/ init, !.init = @ \/ init]

\* The fields of that record
LEMMA LinkedObjectFields ==
  ASSUME NEW K \in Linkages, NEW link \in Links, NEW def \in BOOLEAN, NEW init \in BOOLEAN
  PROVE  LET L == LinkedObject(K, link, def, init)
         IN  /\ L \in Linkages /\ L.kind = "object" /\ L.link = link /\ (L.plain <=> K.plain)
             /\ (L.def <=> K.def \/ def \/ init) /\ (L.init <=> K.init \/ init)
BY DEF LinkedObject, Linkages, LinkedKinds

\* The file's scope after the names of S were declared as objects
LEMMA FileScopeIs ==
  ASSUME env \in Seq(CScopes), Len(env) = 1, NEW S \in SUBSET Names, NEW sclass,
         \A n \in S : FileLink(n, sclass) \in Links,
         env' = [env EXCEPT ![1].ids =
                   [n \in Names |-> IF n \in S THEN Entity("object", FileLink(n, sclass), 0) ELSE @[n]]]
  PROVE  /\ env' \in Seq(CScopes) /\ Len(env') = 1 /\ env'[1].tags = env[1].tags
         /\ \A n \in Names : env'[1].ids[n] = IF n \in S THEN Entity("object", FileLink(n, sclass), 0)
                                              ELSE env[1].ids[n]
<1> DEFINE x(n) == Entity("object", FileLink(n, sclass), 0)
           I == [n \in Names |-> IF n \in S THEN x(n) ELSE env[1].ids[n]]
           b == [env[1] EXCEPT !.ids = I]
<1>1. env[1] \in CScopes /\ env[1].ids \in [Names -> Entities] /\ 1 \in 1..Len(env)
  <2>1. 1 \in 1..Len(env)
    OBVIOUS
  <2> QED BY <2>1, ScopeFields
<1>2. env' = [env EXCEPT ![1] = b]
  OBVIOUS
<1>3. \A n \in S : x(n) \in Entities
  <2>1. "object" \in LinkedKinds
    BY DEF LinkedKinds
  <2> QED BY <2>1, LinkEntity
<1> HIDE DEF x
<1>4. I \in [Names -> Entities] /\ \A n \in Names : I[n] = IF n \in S THEN x(n) ELSE env[1].ids[n]
  BY <1>1, <1>3
<1> HIDE DEF I
<1>5. b \in CScopes /\ b.ids = I /\ b.tags = env[1].tags
  <2> DEFINE a == env[1]
  <2>1. a \in CScopes /\ b = [a EXCEPT !.ids = I]
    BY <1>1
  <2> HIDE DEF a
  <2>2. b \in CScopes /\ b.ids = I /\ b.tags = a.tags
    BY <1>4, <2>1 DEF CScopes
  <2> QED BY <2>2 DEF a
<1> HIDE DEF b
<1>6. env' \in Seq(CScopes) /\ Len(env') = 1 /\ env'[1] = b
  BY <1>1, <1>2, <1>5, ExceptSeq
<1> QED BY <1>4, <1>5, <1>6 DEF x

\* The two forms of a declaration
LEMMA DeclaratorForms ==
  ASSUME NEW ds \in Declarators, Cardinality({ds[i].name : i \in 1..Len(ds)}) = Len(ds)
  PROVE  /\ Len(ds) \in {1, 2}
         /\ \A i \in 1..Len(ds) : ds[i].name \in Names /\ ds[i].init \in BOOLEAN
         /\ Len(ds) = 1 => Position(ds, ds[1].name) = 1
         /\ Len(ds) = 2 => /\ ds[1].name # ds[2].name
                           /\ Position(ds, ds[1].name) = 1 /\ Position(ds, ds[2].name) = 2
<1>1. CASE \E d \in Declarator : ds = <<d>>
  <2>1. PICK d \in Declarator : ds = <<d>>
    BY <1>1
  <2>2. Len(ds) = 1 /\ ds[1] = d /\ d.name \in Names /\ d.init \in BOOLEAN
    BY <2>1 DEF Declarator
  <2>3. Position(ds, ds[1].name) = 1
    BY <2>2 DEF Position
  <2> QED BY <2>2, <2>3
<1>2. CASE ds \in Declarator \X Declarator
  <2>1. Len(ds) = 2 /\ ds[1] \in Declarator /\ ds[2] \in Declarator
    BY <1>2
  <2> DEFINE m == ds[1].name
             n == ds[2].name
             named == {ds[i].name : i \in 1..Len(ds)}
  <2>2. /\ m \in Names /\ n \in Names /\ ds[1].init \in BOOLEAN /\ ds[2].init \in BOOLEAN
        /\ \A i \in 1..Len(ds) : i = 1 \/ i = 2
    BY <2>1 DEF Declarator
  <2>3. m # n
    <3> SUFFICES ASSUME m = n PROVE FALSE
      OBVIOUS
    <3>1. named = {m}
      BY <2>1
    <3>2. Cardinality({m}) = 1
      BY FS_Singleton
    <3> QED BY <2>1, <3>1, <3>2
  <2>4. Position(ds, m) = 1 /\ Position(ds, n) = 2
    <3>1. ASSUME NEW p, \E i \in 1..Len(ds) : ds[i].name = p
          PROVE  Position(ds, p) \in 1..Len(ds) /\ ds[Position(ds, p)].name = p
      BY <3>1 DEF Position
    <3>2. 1 \in 1..Len(ds) /\ 2 \in 1..Len(ds)
      BY <2>1
    <3>3. Position(ds, m) \in 1..Len(ds) /\ ds[Position(ds, m)].name = m
      BY <3>1, <3>2
    <3>4. Position(ds, n) \in 1..Len(ds) /\ ds[Position(ds, n)].name = n
      BY <3>1, <3>2
    <3> QED BY <2>2, <2>3, <3>3, <3>4
  <2> QED BY <2>1, <2>2, <2>3, <2>4
<1>3. (\E d \in Declarator : ds = <<d>>) \/ ds \in Declarator \X Declarator
  BY DEF Declarators
<1> QED BY <1>1, <1>2, <1>3

\* GlobalVariables keeps the invariant, with one declarator or two
LEMMA GlobalVariablesStep ==
  ASSUME IInv, AnyExtern = FALSE, NEW ds \in Declarators, NEW sclass \in {"none", "extern", "static"},
         GlobalVariables(ds, sclass)
  PROVE  IInv'
<1> DEFINE named == {ds[i].name : i \in 1..Len(ds)}
           link(p) == FileLink(p, sclass)
           x(p) == Entity("object", link(p), 0)
           new == sclass # "extern"
           init(p) == ds[Position(ds, p)].init
           M(p) == LinkedObject(linked[p], link(p), new, init(p))
           first == GlobalDeclarator([tab |-> tab, sclass |-> sclass], ds[1])
<1>1. /\ TabInv(tab, env, linked) /\ Len(env) = 1 /\ head = NoHead /\ ctx[1] \notin {"def", "list"}
      /\ 1 \in 1..Len(env) /\ env \in Seq(CScopes) /\ LinkedAgree(env, linked)
      /\ linked \in [Names -> Linkages]
  <2>1. AtFile
    BY DEF GlobalVariables
  <2>2. TabInv(tab, env, linked) /\ LinkedAgree(env, linked) /\ linked \in [Names -> Linkages]
    BY DEF IInv, TabInv, LinkedAgree
  <2> QED BY <2>1, <2>2, PlaceIs, LinkPlaces
<1>2. /\ Len(ds) \in {1, 2}
      /\ \A i \in 1..Len(ds) : ds[i].name \in Names /\ ds[i].init \in BOOLEAN
      /\ Len(ds) = 1 => Position(ds, ds[1].name) = 1
      /\ Len(ds) = 2 => /\ ds[1].name # ds[2].name
                        /\ Position(ds, ds[1].name) = 1 /\ Position(ds, ds[2].name) = 2
  <2>1. Cardinality(named) = Len(ds)
    BY DEF GlobalVariables
  <2> QED BY <2>1, DeclaratorForms
<1>3. /\ \A n \in named : MayDeclareFile(n, "object", link(n)) /\ linked[n].plain
      /\ \A i \in 1..Len(ds) : ds[i].init => ~linked[ds[i].name].init
      /\ Len(ds) = 1 \/ sclass # "extern" \/ ~linked[ds[1].name].def
      /\ tab' = CheckGlobalDeclaration(tab, sclass, ds)
      /\ UNCHANGED <<ctx, head, envSaved>>
  BY DEF GlobalVariables
<1>4. linked' = [n \in Names |-> IF n \notin named THEN linked[n] ELSE M(n)]
  BY DEF GlobalVariables, LinkedObject
<1>5. env' = [env EXCEPT ![1].ids =
                [n \in Names |-> IF n \in named THEN Entity("object", FileLink(n, sclass), 0) ELSE @[n]]]
  BY DEF GlobalVariables
<1>6. named \in SUBSET Names /\ \A i \in 1..Len(ds) : ds[i].name \in named
  BY <1>2
<1> HIDE DEF named
<1>7. ASSUME NEW n \in named
      PROVE  /\ link(n) \in Links /\ env[1].ids[n].kind \in {"unbound", "object"}
             /\ linked[n].kind = "unbound" \/ (linked[n].kind = "object" /\ linked[n].link = link(n))
             /\ sclass = "static" => link(n) = "internal"
             /\ sclass = "none" => link(n) = "external"
             /\ sclass = "extern" /\ linked[n].kind = "unbound" => link(n) = "external"
             /\ linked[n].plain /\ n \in Names /\ linked[n] \in Linkages
  BY <1>1, <1>3, <1>6, FileLinkIs
<1>8. /\ env' \in Seq(CScopes) /\ Len(env') = 1 /\ env'[1].tags = env[1].tags
      /\ \A n \in Names : env'[1].ids[n] = IF n \in named THEN x(n) ELSE env[1].ids[n]
  <2>1. \A n \in named : FileLink(n, sclass) \in Links
    BY <1>7
  <2>2. /\ env' \in Seq(CScopes) /\ Len(env') = 1 /\ env'[1].tags = env[1].tags
        /\ \A n \in Names : env'[1].ids[n] = IF n \in named THEN Entity("object", FileLink(n, sclass), 0)
                                             ELSE env[1].ids[n]
    <3>1. env \in Seq(CScopes) /\ Len(env) = 1
      BY <1>1
    <3> HIDE DEF link, x
    <3> QED BY <1>5, <1>6, <2>1, <3>1, FileScopeIs
  <2> QED BY <2>2
<1>9. CASE Len(ds) = 1
  <2> DEFINE n == ds[1].name
             L == M(n)
  <2>1. n \in Names /\ n \in named /\ \A p \in named : p = n
    BY <1>2, <1>6, <1>9 DEF named
  <2>2. init(n) = ds[1].init /\ init(n) \in BOOLEAN /\ new \in BOOLEAN
    BY <1>2, <1>9
  <2>3. /\ L \in Linkages /\ L.kind = "object" /\ L.link = link(n) /\ L.plain
        /\ (L.def <=> linked[n].def \/ sclass # "extern" \/ ds[1].init)
        /\ (L.init <=> linked[n].init \/ ds[1].init)
    <3>1. linked[n] \in Linkages /\ link(n) \in Links /\ linked[n].plain
      BY <1>7, <2>1
    <3> HIDE DEF n, link, init, new
    <3>2. /\ L \in Linkages /\ L.kind = "object" /\ L.link = link(n) /\ (L.plain <=> linked[n].plain)
          /\ (L.def <=> linked[n].def \/ new \/ init(n)) /\ (L.init <=> linked[n].init \/ init(n))
      BY <2>2, <3>1, LinkedObjectFields
    <3> QED BY <2>2, <3>1, <3>2 DEF new
  <2> HIDE DEF M, init, new
  <2>4. linked' = [linked EXCEPT ![n] = L]
    BY <1>1, <1>4, <2>1
  <2>5. Rebound(env, env', 1, n, x(n))
    BY <1>1, <1>8, <2>1 DEF Rebound
  <2>6. tab' = first.tab
    BY <1>3, <1>9 DEF CheckGlobalDeclaration
  <2>7. TabInv(first.tab, env', [linked EXCEPT ![n] = L])
    <3> DEFINE acc == [tab |-> tab, sclass |-> sclass]
               d == ds[1]
    <3>1. acc.tab = tab /\ acc.sclass = sclass /\ d.name = n /\ d.name \in Names /\ d.init \in BOOLEAN
      BY <1>2, <1>9
    <3>2. d.init => ~linked[n].init
      BY <1>3, <1>9
    <3>3. first = GlobalDeclarator(acc, d)
      OBVIOUS
    <3> HIDE DEF acc, d, n, L, first
    <3>4. /\ L.def <=> linked[d.name].def \/ acc.sclass # "extern" \/ d.init
          /\ L.init <=> linked[d.name].init \/ d.init
          /\ L \in Linkages /\ L.kind = "object" /\ L.link = link(n) /\ L.plain
      BY <2>3, <3>1 DEF d
    <3>5. /\ link(n) \in Links /\ linked[n].plain /\ env[1].ids[n].kind \in {"unbound", "object"}
          /\ linked[n].kind = "unbound" \/ (linked[n].kind = "object" /\ linked[n].link = link(n))
          /\ sclass = "static" => link(n) = "internal"
          /\ sclass = "none" => link(n) = "external"
          /\ sclass = "extern" /\ linked[n].kind = "unbound" => link(n) = "external"
      BY <1>7, <2>1
    <3> HIDE DEF link
    <3> QED BY <1>1, <2>5, <3>1, <3>2, <3>3, <3>4, <3>5, GlobalDeclaratorKeeps
  <2>8. TabInv(tab', env', linked')
    BY <2>4, <2>6, <2>7
  <2> HIDE DEF x, n
  <2> QED BY <1>1, <1>3, <2>1, <2>5, <2>8, LinkSettled
<1>10. CASE Len(ds) = 2
  <2> DEFINE m == ds[1].name
             n == ds[2].name
             A == M(m)
             B == M(n)
             l == [linked EXCEPT ![m] = A]
             k == [l EXCEPT ![n] = B]
             f == Bind(env, "ids", m, x(m))
             second == GlobalDeclarator(first, ds[2])
  <2>1. /\ m \in Names /\ n \in Names /\ m # n /\ m \in named /\ n \in named
        /\ \A p \in named : p = m \/ p = n
        /\ ds[1].init \in BOOLEAN /\ ds[2].init \in BOOLEAN
        /\ init(m) = ds[1].init /\ init(n) = ds[2].init
    <3>1. 1 \in 1..Len(ds) /\ 2 \in 1..Len(ds) /\ \A i \in 1..Len(ds) : i = 1 \/ i = 2
      BY <1>10
    <3> QED BY <1>2, <1>6, <1>10, <3>1 DEF named
  <2>2. /\ A \in Linkages /\ A.kind = "object" /\ A.link = link(m) /\ A.plain
        /\ (A.def <=> linked[m].def \/ sclass # "extern" \/ ds[1].init)
        /\ (A.init <=> linked[m].init \/ ds[1].init)
    <3>1. linked[m] \in Linkages /\ link(m) \in Links /\ linked[m].plain /\ init(m) \in BOOLEAN /\ new \in BOOLEAN
      BY <1>7, <2>1
    <3> HIDE DEF m, link, init, new
    <3>2. /\ A \in Linkages /\ A.kind = "object" /\ A.link = link(m) /\ (A.plain <=> linked[m].plain)
          /\ (A.def <=> linked[m].def \/ new \/ init(m)) /\ (A.init <=> linked[m].init \/ init(m))
      BY <3>1, LinkedObjectFields
    <3> QED BY <2>1, <3>1, <3>2 DEF new
  <2>3. /\ B \in Linkages /\ B.kind = "object" /\ B.link = link(n) /\ B.plain
        /\ (B.def <=> linked[n].def \/ sclass # "extern" \/ ds[2].init)
        /\ (B.init <=> linked[n].init \/ ds[2].init)
    <3>1. linked[n] \in Linkages /\ link(n) \in Links /\ linked[n].plain /\ init(n) \in BOOLEAN /\ new \in BOOLEAN
      BY <1>7, <2>1
    <3> HIDE DEF n, link, init, new
    <3>2. /\ B \in Linkages /\ B.kind = "object" /\ B.link = link(n) /\ (B.plain <=> linked[n].plain)
          /\ (B.def <=> linked[n].def \/ new \/ init(n)) /\ (B.init <=> linked[n].init \/ init(n))
      BY <3>1, LinkedObjectFields
    <3> QED BY <2>1, <3>1, <3>2 DEF new
  <2> HIDE DEF M, init, new
  <2>4. linked' = k
    <3>1. linked' = [p \in Names |-> IF p \notin named THEN linked[p] ELSE M(p)]
      BY <1>4
    <3>2. \A p \in Names : p \in named <=> p = m \/ p = n
      BY <2>1
    <3> HIDE DEF m, n
    <3> QED BY <1>1, <2>1, <3>1, <3>2
  <2>5. x(m) \in Entities
    <3>1. "object" \in LinkedKinds
      BY DEF LinkedKinds
    <3> QED BY <1>7, <2>1, <3>1, LinkEntity
  <2>6. Rebound(env, f, 1, m, x(m))
    <3> HIDE DEF x, m
    <3>1. Len(env) > 0
      BY <1>1
    <3>2. Rebound(env, f, Len(env), m, x(m))
      BY <1>1, <2>1, <2>5, <3>1, BindIds
    <3> QED BY <1>1, <3>2
  <2> HIDE DEF f
  <2>7. Rebound(f, env', 1, n, x(n))
    <3> HIDE DEF x
    <3>1. /\ f \in Seq(CScopes) /\ Len(f) = 1 /\ f[1].tags = env[1].tags
          /\ \A p \in Names : f[1].ids[p] = IF p = m THEN x(m) ELSE env[1].ids[p]
      BY <1>1, <2>6 DEF Rebound
    <3>2. \A p \in Names : env'[1].ids[p] = IF p = n THEN x(n) ELSE f[1].ids[p]
      BY <1>8, <2>1, <3>1
    <3> QED BY <1>8, <3>1, <3>2 DEF Rebound
  <2>8. TabInv(first.tab, f, l) /\ first.sclass = sclass
    <3> DEFINE acc == [tab |-> tab, sclass |-> sclass]
               d == ds[1]
    <3>1. acc.tab = tab /\ acc.sclass = sclass /\ d.name = m /\ d.name \in Names /\ d.init \in BOOLEAN
      BY <2>1
    <3>2. d.init => ~linked[m].init
      BY <1>3, <1>10
    <3>3. first = GlobalDeclarator(acc, d)
      OBVIOUS
    <3>4. sclass # "extern" \/ ~linked[m].def
      BY <1>3, <1>10
    <3> HIDE DEF acc, d, m, A, first
    <3>5. /\ A.def <=> linked[d.name].def \/ acc.sclass # "extern" \/ d.init
          /\ A.init <=> linked[d.name].init \/ d.init
          /\ A \in Linkages /\ A.kind = "object" /\ A.link = link(m) /\ A.plain
      BY <2>2, <3>1 DEF d
    <3>6. /\ link(m) \in Links /\ linked[m].plain /\ env[1].ids[m].kind \in {"unbound", "object"}
          /\ linked[m].kind = "unbound" \/ (linked[m].kind = "object" /\ linked[m].link = link(m))
          /\ sclass = "static" => link(m) = "internal"
          /\ sclass = "none" => link(m) = "external"
          /\ sclass = "extern" /\ linked[m].kind = "unbound" => link(m) = "external"
      BY <1>7, <2>1
    <3> HIDE DEF link, l
    <3>7. l = [linked EXCEPT ![m] = A]
      BY DEF l
    <3>8. /\ TabInv(acc.tab, env, linked) /\ Len(env) = 1 /\ acc.sclass \in {"none", "extern", "static"}
          /\ acc.sclass = "static" => link(m) = "internal"
          /\ acc.sclass = "none" => link(m) = "external"
          /\ acc.sclass = "extern" /\ linked[m].kind = "unbound" => link(m) = "external"
      BY <1>1, <3>1, <3>6
    <3>9. Rebound(env, f, 1, d.name, Entity("object", link(m), 0))
      BY <2>6, <3>1
    <3> HIDE DEF x
    <3>10. /\ d.name \in Names /\ d.init \in BOOLEAN /\ link(m) \in Links
           /\ linked[d.name].plain /\ env[1].ids[d.name].kind \in {"unbound", "object"}
           /\ linked[d.name].kind = "unbound"
                \/ (linked[d.name].kind = "object" /\ linked[d.name].link = link(m))
           /\ acc.sclass = "extern" /\ linked[d.name].kind = "unbound" => link(m) = "external"
           /\ d.init => ~linked[d.name].init
      BY <3>1, <3>2, <3>6
    <3>11. /\ TabInv(GlobalDeclarator(acc, d).tab, f, [linked EXCEPT ![d.name] = A])
           /\ acc.sclass # "extern" \/ ~linked[d.name].def => GlobalDeclarator(acc, d).sclass = acc.sclass
      BY <3>5, <3>8, <3>9, <3>10, GlobalDeclaratorKeeps
    <3> QED BY <3>1, <3>3, <3>4, <3>7, <3>11
  <2>9. l[n] = linked[n] /\ f[1].ids[n] = env[1].ids[n] /\ Len(f) = 1
    <3> HIDE DEF x
    <3> QED BY <1>1, <2>1, <2>6 DEF Rebound
  <2>10. tab' = second.tab
    BY <1>3, <1>10 DEF CheckGlobalDeclaration
  <2> HIDE DEF first, l, A
  <2>11. TabInv(second.tab, env', k)
    <3> DEFINE d == ds[2]
    <3>1. d.name = n /\ d.name \in Names /\ d.init \in BOOLEAN
      BY <2>1
    <3>2. d.init => ~l[n].init
      BY <1>3, <1>10, <2>9
    <3>3. second = GlobalDeclarator(first, d)
      OBVIOUS
    <3> HIDE DEF d, n, B, second
    <3>4. /\ B.def <=> l[d.name].def \/ first.sclass # "extern" \/ d.init
          /\ B.init <=> l[d.name].init \/ d.init
          /\ B \in Linkages /\ B.kind = "object" /\ B.link = link(n) /\ B.plain
      BY <2>3, <2>8, <2>9, <3>1 DEF d
    <3>5. /\ link(n) \in Links /\ l[n].plain /\ f[1].ids[n].kind \in {"unbound", "object"}
          /\ l[n].kind = "unbound" \/ (l[n].kind = "object" /\ l[n].link = link(n))
          /\ first.sclass \in {"none", "extern", "static"}
          /\ first.sclass = "static" => link(n) = "internal"
          /\ first.sclass = "none" => link(n) = "external"
          /\ first.sclass = "extern" /\ l[n].kind = "unbound" => link(n) = "external"
      BY <1>7, <2>1, <2>8, <2>9
    <3> HIDE DEF link
    <3> QED BY <2>7, <2>8, <2>9, <3>1, <3>2, <3>3, <3>4, <3>5, GlobalDeclaratorKeeps
  <2>12. TabInv(tab', env', linked')
    BY <2>4, <2>10, <2>11
  <2>13. \A i \in 1..Len(env), p \in Names :
           ctx[i] \in {"def", "list"} => ~HasLinkage(env'[i].ids[p])
    BY <1>1
  <2> QED BY <1>1, <1>3, <1>8, <2>12, <2>13, Settled
<1> QED BY <1>2, <1>9, <1>10

-----------------------------------------------------------------------------
(* The scopes of a function: its parameter list, its body, the blocks in it. *)

\* What entering a scope of some kind does
LEMMA Entered ==
  ASSUME IInv, NEW kind \in {"def", "list", "body", "block"}, tab' = EnterScope(tab), env' = Open(env),
         ctx' = Append(ctx, kind), UNCHANGED <<envSaved, linked>>
  PROVE  /\ TabInv(tab', env', linked') /\ KeepsSaved(tab, env, tab', env')
         /\ Len(env') = Len(env) + 1 /\ Len(ctx') = Len(env') /\ ctx' \in Seq(Contexts)
         /\ ctx'[Len(env) + 1] = kind /\ env'[Len(env) + 1] = EmptyScope
         /\ \A i \in 1..Len(env) : ctx'[i] = ctx[i] /\ env'[i] = env[i]
<1>1. TabInv(EnterScope(tab), Open(env), linked) /\ KeepsSaved(tab, env, EnterScope(tab), Open(env))
  BY EnterKeeps DEF IInv
<1>2. /\ ctx \in Seq(Contexts) /\ env \in Seq(CScopes) /\ Len(ctx) = Len(env) /\ kind \in Contexts
      /\ EmptyScope \in CScopes
  <2>1. Unbound \in Entities
    BY DEF Unbound, Entities
  <2>2. EmptyScope \in CScopes
    BY <2>1 DEF EmptyScope, CScopes
  <2> QED BY <2>2, PlaceIs DEF IInv, CtxInv, Contexts
<1>3. /\ Len(Open(env)) = Len(env) + 1 /\ Open(env)[Len(env) + 1] = EmptyScope
      /\ \A i \in 1..Len(env) : Open(env)[i] = env[i]
  BY <1>2, AppendProperties DEF Open
<1>4. /\ ctx' \in Seq(Contexts) /\ Len(ctx') = Len(ctx) + 1 /\ ctx'[Len(ctx) + 1] = kind
      /\ \A i \in 1..Len(ctx) : ctx'[i] = ctx[i]
  BY <1>2, AppendProperties
<1> QED BY <1>1, <1>2, <1>3, <1>4

\* A list of parameters is entered: that of the function to be defined, or any other
LEMMA DefinitionListStep ==
  ASSUME IInv, NEW n \in Names, NEW sclass \in {"none", "static"}, DefinitionList(n, sclass)
  PROVE  IInv'
<1> DEFINE link == IF sclass = "static" THEN "internal" ELSE ExternLink(env, n)
           h == [name |-> n, sclass |-> sclass]
<1>1. /\ AtFile /\ MayDeclareFile(n, "function", link) /\ ~linked[n].def /\ head' = h
      /\ tab' = EnterScope(tab) /\ env' = Open(env) /\ ctx' = Append(ctx, "def")
      /\ UNCHANGED <<envSaved, linked>>
  BY DEF DefinitionList, EnterParameterList
<1>2. Len(env) = 1 /\ env[1] = Last(env) /\ 1 \in 1..Len(env) /\ LinkedAgree(env, linked)
  <2>1. Len(env) = 1
    BY <1>1, PlaceIs
  <2> QED BY <2>1 DEF Last, IInv, TabInv
<1>3. /\ TabInv(tab', env', linked') /\ Len(env') = 2 /\ Len(ctx') = 2 /\ ctx' \in Seq(Contexts)
      /\ ctx'[2] = "def" /\ env'[2] = EmptyScope /\ ctx'[1] = ctx[1] /\ env'[1] = env[1]
  <2> DEFINE kind == "def"
  <2>1. kind \in {"def", "list", "body", "block"} /\ ctx' = Append(ctx, kind) /\ kind = "def"
    BY <1>1
  <2> HIDE DEF kind
  <2>2. /\ TabInv(tab', env', linked') /\ Len(env') = Len(env) + 1 /\ Len(ctx') = Len(env')
        /\ ctx' \in Seq(Contexts)
        /\ ctx'[Len(env) + 1] = kind /\ env'[Len(env) + 1] = EmptyScope
        /\ \A i \in 1..Len(env) : ctx'[i] = ctx[i] /\ env'[i] = env[i]
    BY <1>1, <2>1, Entered
  <2> QED BY <1>2, <2>1, <2>2
<1>4. h # NoHead /\ h.name = n /\ h.sclass = sclass /\ h \in [name : Names, sclass : {"none", "static"}]
  BY NamesAssumption DEF NoHead
<1> HIDE DEF h
<1>5. CtxInv'
  <2>1. ctx[1] = "file"
    BY <1>2 DEF IInv, CtxInv
  <2>2. \A m \in Names : ~HasLinkage(EmptyScope.ids[m])
    BY UnboundFields DEF EmptyScope
  <2>3. \A i \in 1..Len(ctx') : (i = 1 /\ ctx'[i] = "file") \/ (i = 2 /\ ctx'[i] = "def")
    BY <1>3, <2>1
  <2> QED BY <1>1, <1>3, <1>4, <2>2, <2>3 DEF CtxInv
<1>6. HeadInv'
  <2>1. /\ ExternLink(env, n) = IF HasLinkage(env[1].ids[n]) THEN env[1].ids[n].link ELSE "external"
    BY <1>2, ExternLinkIs
  <2>2. env'[1].ids[n].kind \in {"unbound", "function"} /\ Agrees(n, "function", link)
    BY <1>1, <1>2, <1>3 DEF MayDeclareFile, Here
  <2>3. HeadLink' = link
    BY <1>1, <1>3, <1>4, <2>1 DEF HeadLink
  <2> HIDE DEF link
  <2> QED BY <1>1, <1>4, <2>2, <2>3 DEF HeadInv, Agrees
<1>7. SavedInv'
  BY <1>1, <1>3 DEF SavedInv, IInv
<1> QED BY <1>3, <1>5, <1>6, <1>7 DEF IInv

\* PrototypeList keeps the invariant
LEMMA PrototypeListStep ==
  ASSUME IInv, PrototypeList
  PROVE  IInv'
<1>1. /\ tab' = EnterScope(tab) /\ env' = Open(env) /\ ctx' = Append(ctx, "list")
      /\ UNCHANGED <<head, envSaved, linked>>
  BY DEF PrototypeList, EnterParameterList
<1> DEFINE kind == "list"
<1>2. kind \in {"def", "list", "body", "block"} /\ ctx' = Append(ctx, kind) /\ kind = "list"
  BY <1>1
<1> HIDE DEF kind
<1>3. /\ TabInv(tab', env', linked') /\ KeepsSaved(tab, env, tab', env')
      /\ Len(env') = Len(env) + 1 /\ Len(ctx') = Len(env') /\ ctx' \in Seq(Contexts)
      /\ ctx'[Len(env) + 1] = kind /\ env'[Len(env) + 1] = EmptyScope
      /\ \A i \in 1..Len(env) : ctx'[i] = ctx[i] /\ env'[i] = env[i]
  BY <1>1, <1>2, Entered
<1>4. Len(env) \in Nat /\ Len(env) > 0 /\ Len(ctx) = Len(env)
  BY PlaceIs
<1>5. CtxInv'
  <2>1. \A m \in Names : ~HasLinkage(EmptyScope.ids[m])
    BY UnboundFields DEF EmptyScope
  <2>2. \A i \in 1..Len(ctx') : i \in 1..Len(env) \/ (i = Len(env) + 1 /\ i # 1)
    BY <1>3, <1>4
  <2> QED BY <1>1, <1>2, <1>3, <1>4, <2>1, <2>2 DEF CtxInv, IInv
<1>6. HeadInv'
  <2>1. env'[1] = env[1]
    BY <1>3, <1>4
  <2> QED BY <1>1, <2>1 DEF HeadInv, HeadLink, Agrees, IInv
<1>7. SavedInv'
  <2>1. envSaved' = envSaved /\ head' = head
    BY <1>1
  <2>2. Len(ctx') # 1 /\ (Len(ctx) # 1 => ctx'[2] = ctx[2])
    BY <1>3, <1>4
  <2>3. head # NoHead /\ ctx'[2] # "def" => Detached(tab', env', tab'.saved, envSaved)
    BY <1>3, <2>1, <2>2 DEF SavedInv, IInv, KeepsSaved
  <2> QED BY <2>1, <2>2, <2>3 DEF SavedInv, IInv
<1> QED BY <1>3, <1>5, <1>6, <1>7 DEF IInv

\* What leaving a scope, of whatever kind, does to the contexts
LEMMA Left ==
  ASSUME IInv, Len(env) > 1, env' = Close(env), ctx' = Front(ctx), UNCHANGED <<head, linked>>,
         TabInv(tab', env', linked')
  PROVE  /\ CtxInv' /\ HeadInv' /\ Len(env') = Len(env) - 1 /\ Len(ctx') = Len(env')
         /\ \A i \in 1..Len(env') : ctx'[i] = ctx[i] /\ env'[i] = env[i]
<1>1. ctx \in Seq(Contexts) /\ Len(ctx) = Len(env) /\ Len(env) \in Nat
  BY PlaceIs DEF IInv, CtxInv
<1>2. Len(env') = Len(env) - 1 /\ \A i \in 1..Len(env) - 1 : env'[i] = env[i]
  <2>1. TabInv(tab, env, linked)
    BY DEF IInv
  <2>2. /\ TabInv(ExitScope(tab), Close(env), linked)
        /\ Len(Close(env)) = Len(env) - 1 /\ \A i \in 1..Len(env) - 1 : Close(env)[i] = env[i]
    BY <2>1, PopKeeps
  <2> QED BY <2>2
<1>3. /\ ctx' \in Seq(Contexts) /\ Len(ctx') = Len(ctx) - 1
      /\ \A i \in 1..Len(ctx) - 1 : ctx'[i] = ctx[i]
  <2> DEFINE c == Len(ctx) - 1
  <2>1. c \in Nat /\ Len(ctx) = c + 1
    BY <1>1
  <2> HIDE DEF c
  <2>2. ctx' = SubSeq(ctx, 1, c) /\ \A i \in 1..c : ctx[i] \in Contexts
    BY <1>1, <2>1, ElementOfSeq DEF Front
  <2>3. ctx' \in Seq(Contexts) /\ Len(ctx') = c /\ \A i \in 1..c : ctx'[i] = ctx[i]
    BY <1>1, <2>1, <2>2, SubSeqProperties
  <2> QED BY <2>3 DEF c
<1>4. CtxInv'
  <2>1. \A i \in 1..Len(ctx') : i \in 1..Len(ctx) /\ ctx'[i] = ctx[i] /\ env'[i] = env[i]
    BY <1>1, <1>2, <1>3
  <2> QED BY <1>1, <1>2, <1>3, <2>1 DEF CtxInv, IInv
<1>5. HeadInv'
  <2>1. env'[1] = env[1]
    BY <1>1, <1>2
  <2> QED BY <2>1 DEF HeadInv, HeadLink, Agrees, IInv
<1> QED BY <1>1, <1>2, <1>3, <1>4, <1>5

\* LeaveParameterList keeps the invariant, and saves the scope of a definition's list
LEMMA LeaveParameterListStep ==
  ASSUME IInv, LeaveParameterList
  PROVE  IInv'
<1>1. /\ Len(env) > 1 /\ Len(env) \in Nat /\ Place = ctx[Len(env)] /\ Len(ctx) = Len(env)
      /\ TabInv(tab, env, linked)
  BY PlaceIs DEF LeaveParameterList, IInv
<1>2. /\ env' = Close(env) /\ ctx' = Front(ctx) /\ UNCHANGED <<head, linked>>
  BY DEF LeaveParameterList
<1>3. CASE Place = "def"
  <2>1. Len(env) = 2 /\ \A n \in Names : ~HasLinkage(env[2].ids[n])
    <3>1. Len(env) \in 1..Len(ctx)
      BY <1>1
    <3>2. Len(env) = 2
      BY <1>1, <1>3, <3>1 DEF IInv, CtxInv
    <3> QED BY <1>1, <1>3, <3>1, <3>2 DEF IInv, CtxInv
  <2>2. tab' = ExitScope(SaveParameterListTable(tab)) /\ envSaved' = Last(env)
    BY <1>3 DEF LeaveParameterList
  <2>3. TabInv(tab', env', linked') /\ envSaved' \in CScopes /\ Detached(tab', env', tab'.saved, envSaved')
    BY <1>1, <1>2, <2>1, <2>2, SaveKeeps
  <2>4. CtxInv' /\ HeadInv'
    BY <1>1, <1>2, <2>3, Left
  <2> QED BY <2>3, <2>4 DEF IInv, SavedInv
<1>4. CASE Place # "def"
  <2>1. tab' = ExitScope(tab) /\ envSaved' = envSaved
    BY <1>4 DEF LeaveParameterList
  <2>2. TabInv(tab', env', linked') /\ KeepsSaved(tab, env, tab', env')
    BY <1>1, <1>2, <2>1, LeaveKeeps
  <2>3. /\ CtxInv' /\ HeadInv' /\ Len(ctx') = Len(env) - 1
        /\ \A i \in 1..Len(env) - 1 : ctx'[i] = ctx[i]
    BY <1>1, <1>2, <2>2, Left
  <2>4. SavedInv'
    <3>1. envSaved' = envSaved /\ head' = head
      BY <1>2, <2>1
    <3>2. Len(ctx') = 1 \/ ctx'[2] # "def" => ctx[2] # "def"
      BY <1>1, <1>4, <2>3
    <3>3. head # NoHead /\ ctx[2] # "def" => Detached(tab', env', tab'.saved, envSaved)
      BY <2>2 DEF IInv, SavedInv, KeepsSaved
    <3> QED BY <3>1, <3>2, <3>3 DEF SavedInv, IInv
  <2> QED BY <2>2, <2>3, <2>4 DEF IInv
<1> QED BY <1>3, <1>4

\* OpenBlock keeps the invariant
LEMMA OpenBlockStep ==
  ASSUME IInv, OpenBlock
  PROVE  IInv'
<1>1. /\ tab' = EnterScope(tab) /\ env' = Open(env) /\ ctx' = Append(ctx, "block")
      /\ UNCHANGED <<head, envSaved, linked>> /\ head = NoHead
  BY PlaceIs DEF OpenBlock
<1> DEFINE kind == "block"
<1>2. kind \in {"def", "list", "body", "block"} /\ ctx' = Append(ctx, kind) /\ kind = "block"
  BY <1>1
<1> HIDE DEF kind
<1>3. /\ TabInv(tab', env', linked')
      /\ Len(env') = Len(env) + 1 /\ Len(ctx') = Len(env') /\ ctx' \in Seq(Contexts)
      /\ ctx'[Len(env) + 1] = kind
      /\ \A i \in 1..Len(env) : ctx'[i] = ctx[i] /\ env'[i] = env[i]
  BY <1>1, <1>2, Entered
<1>4. Len(env) \in Nat /\ Len(env) > 0 /\ Len(ctx) = Len(env)
  BY PlaceIs
<1>5. CtxInv'
  <2>1. \A i \in 1..Len(ctx') : i \in 1..Len(env) \/ (i = Len(env) + 1 /\ i # 1)
    BY <1>3, <1>4
  <2> QED BY <1>1, <1>2, <1>3, <1>4, <2>1 DEF CtxInv, IInv
<1>6. HeadInv' /\ SavedInv'
  BY <1>1 DEF HeadInv, SavedInv, IInv
<1> QED BY <1>3, <1>5, <1>6 DEF IInv

\* CloseBlock keeps the invariant
LEMMA CloseBlockStep ==
  ASSUME IInv, CloseBlock
  PROVE  IInv'
<1>1. /\ tab' = ExitScope(tab) /\ env' = Close(env) /\ ctx' = Front(ctx)
      /\ UNCHANGED <<head, envSaved, linked>> /\ head = NoHead /\ Len(env) > 1
  BY PlaceIs DEF CloseBlock
<1>2. TabInv(tab', env', linked')
  BY <1>1, LeaveKeeps DEF IInv
<1>3. CtxInv' /\ HeadInv'
  BY <1>1, <1>2, Left
<1>4. SavedInv'
  BY <1>1 DEF SavedInv, IInv
<1> QED BY <1>2, <1>3, <1>4 DEF IInv

\* StartBody keeps the invariant: the saved scope is open again, with the parameters
LEMMA StartBodyStep ==
  ASSUME IInv, NEW params \in ParameterLists, StartBody(params)
  PROVE  IInv'
<1> DEFINE n == head.name
           sclass == head.sclass
           link == IF sclass = "static" THEN "internal" ELSE ExternLink(env, n)
           x == Entity("function", link, 0)
           K == linked[n]
           N == [K EXCEPT !.kind = "function", !.link = link, !.def = TRUE]
           f == Bind(env, "ids", n, x)
           u == CheckFunction(tab, n, sclass, params)
           b == BodyScope(envSaved, params, Newest(u) - Len(params))
<1>1. /\ Place = "file" /\ head # NoHead /\ tab' = u
      /\ \A i \in 1..Len(params) : ~Bound(envSaved.ids[params[i]])
      /\ env' = Append(f, b)
      /\ linked' = [linked EXCEPT ![n].kind = "function", ![n].link = link, ![n].def = TRUE]
      /\ ctx' = Append(ctx, "body") /\ head' = NoHead /\ envSaved' = EmptyScope
  BY DEF StartBody, DeclareLinked, BodyScope
<1>2. /\ TabInv(tab, env, linked) /\ Len(env) = 1 /\ Len(ctx) = 1 /\ 1 \in 1..Len(env) /\ env \in Seq(CScopes)
      /\ ctx \in Seq(Contexts) /\ ctx[1] = "file" /\ Len(env) > 0
  <2>1. Len(env) \in 1..Len(ctx) /\ Len(ctx) = Len(env)
    BY PlaceIs
  <2>2. Len(env) = 1
    BY <1>1, <2>1, PlaceIs DEF IInv, CtxInv
  <2> QED BY <2>1, <2>2, PlaceIs DEF IInv, CtxInv
<1>3. /\ n \in Names /\ sclass \in {"none", "static"} /\ env[1].ids[n].kind \in {"unbound", "function"}
      /\ K.kind = "unbound" \/ (K.kind = "function" /\ K.link = link)
      /\ ~K.def /\ K \in Linkages /\ link \in Links /\ linked \in [Names -> Linkages]
  <2>1. LinkedAgree(env, linked) /\ linked \in [Names -> Linkages]
    BY <1>2 DEF TabInv, LinkedAgree
  <2>2. /\ n \in Names /\ sclass \in {"none", "static"} /\ env[1].ids[n].kind \in {"unbound", "function"}
        /\ Agrees(n, "function", HeadLink) /\ ~K.def
    BY <1>1 DEF IInv, HeadInv
  <2>3. HeadLink = link /\ link \in Links
    BY <1>2, <2>1, <2>2, ExternLinkIs DEF HeadLink, Links
  <2> QED BY <2>1, <2>2, <2>3 DEF Agrees
<1>4. linked' = [linked EXCEPT ![n] = N]
  <2> HIDE DEF n, link
  <2> QED BY <1>1, <1>3
<1>5. /\ N \in Linkages /\ N.kind = "function" /\ N.link = link /\ N.def
      /\ (N.plain <=> K.plain) /\ (N.called <=> K.called)
  <2> HIDE DEF K, link
  <2> QED BY <1>3 DEF Linkages, LinkedKinds
<1>6. x \in Entities
  <2>1. "function" \in LinkedKinds
    BY DEF LinkedKinds
  <2> QED BY <1>3, <2>1, LinkEntity
<1>7. Rebound(env, f, 1, n, x)
  <2> HIDE DEF x, n
  <2>1. Rebound(env, f, Len(env), n, x)
    BY <1>2, <1>3, <1>6, BindIds
  <2> QED BY <1>2, <2>1
<1>8. envSaved \in CScopes /\ Detached(tab, env, tab.saved, envSaved)
  BY <1>1, <1>2 DEF IInv, SavedInv
<1>9. TabInv(u, Append(f, b), [linked EXCEPT ![n] = N])
  <2>1. u = CheckFunction(tab, n, sclass, params)
    OBVIOUS
  <2>2. b = BodyScope(envSaved, params, Newest(u) - Len(params))
    OBVIOUS
  <2>3. link = IF sclass = "static" THEN "internal" ELSE ExternLink(env, n)
    OBVIOUS
  <2>4. Rebound(env, f, 1, n, Entity("function", link, 0))
    BY <1>7
  <2> HIDE DEF n, sclass, link, N, f, u, b, x
  <2> QED BY <1>1, <1>2, <1>3, <1>5, <1>8, <2>1, <2>2, <2>3, <2>4, CheckFunctionKeeps
<1>10. TabInv(tab', env', linked')
  BY <1>1, <1>4, <1>9
<1>11. CtxInv'
  <2>1. /\ ctx' \in Seq(Contexts) /\ Len(ctx') = 2 /\ ctx'[1] = "file" /\ ctx'[2] = "body"
    <3>1. "body" \in Contexts
      BY DEF Contexts
    <3> DEFINE kind == "body"
    <3>2. ctx' = Append(ctx, kind) /\ kind \in Contexts
      BY <1>1, <3>1
    <3> HIDE DEF kind
    <3>3. ctx \in Seq(Contexts)
      BY <1>2
    <3>4. /\ Append(ctx, kind) \in Seq(Contexts) /\ Len(Append(ctx, kind)) = Len(ctx) + 1
          /\ Append(ctx, kind)[Len(ctx) + 1] = kind
          /\ \A i \in 1..Len(ctx) : Append(ctx, kind)[i] = ctx[i]
      BY <3>2, <3>3, AppendProperties
    <3> QED BY <1>2, <3>2, <3>4 DEF kind
  <2>2. Len(env') = 2
    <3>1. f \in Seq(CScopes) /\ Len(f) = 1
      BY <1>2, <1>7 DEF Rebound
    <3> HIDE DEF f, b
    <3> DEFINE S == CScopes \cup {b}
    <3>2. f \in Seq(S) /\ b \in S
      BY <3>1, SeqMonotonic
    <3> HIDE DEF S
    <3>3. Len(Append(f, b)) = Len(f) + 1
      BY <3>2, AppendProperties
    <3> QED BY <1>1, <3>1, <3>3
  <2>3. \A i \in 1..Len(ctx') : i = 1 \/ i = 2
    BY <2>1
  <2> QED BY <1>1, <2>1, <2>2, <2>3 DEF CtxInv
<1>12. HeadInv' /\ SavedInv'
  <2>1. Unbound \in Entities
    BY DEF Unbound, Entities
  <2>2. EmptyScope \in CScopes
    BY <2>1 DEF EmptyScope, CScopes
  <2> QED BY <1>1, <2>2 DEF HeadInv, SavedInv
<1> QED BY <1>10, <1>11, <1>12 DEF IInv

-----------------------------------------------------------------------------
(* The theorems. *)

\* The empty table mirrors the empty environment
LEMMA InitHolds == Init => IInv
<1> SUFFICES ASSUME Init PROVE IInv
  OBVIOUS
<1> DEFINE sc == NewTable(0)
<1>1. /\ Unbound \in Entities /\ EmptyScope \in CScopes
      /\ \A n \in Names : EmptyScope.ids[n] = Unbound
      /\ \A n \in TagNames : EmptyScope.tags[n] = Unbound
  <2>1. Unbound \in Entities
    BY DEF Unbound, Entities
  <2> QED BY <2>1 DEF EmptyScope, CScopes
<1>2. sc \in ScopeSet /\ sc.level = 0 /\ (\A n \in Names : sc.ids[n] = 0) /\ \A n \in TagNames : sc.tags[n] = 0
  BY DEF NewTable, ScopeSet
<1>3. /\ env = <<EmptyScope>> /\ Len(env) = 1 /\ env[1] = EmptyScope /\ env \in Seq(CScopes)
      /\ ctx = <<"file">> /\ head = NoHead /\ envSaved = EmptyScope
      /\ linked = [n \in Names |-> NeverLinked]
  BY <1>1 DEF Init
<1> HIDE DEF sc
<1>4. /\ tab.symbols = <<>> /\ tab.tags = <<>> /\ tab.scopes = <<sc>> /\ tab.saved = sc /\ tab.Level = 0
      /\ tab.Globals = <<>> /\ tab.functions = {} /\ tab.FSYM = 0 /\ tab.rejected = FALSE /\ tab \in Tables
  <2>1. tab = [symbols |-> <<>>, tags |-> <<>>, scopes |-> <<sc>>, saved |-> sc, Level |-> 0,
               Globals |-> <<>>, functions |-> {}, FSYM |-> 0, rejected |-> FALSE]
    BY DEF Init, InitSymbolTable, sc
  <2>2. <<>> \in Seq(SymbolSet) /\ <<>> \in Seq(TagSet) /\ <<sc>> \in Seq(ScopeSet) /\ <<>> \in Seq(Nat)
    BY <1>2
  <2> QED BY <1>2, <2>1, <2>2 DEF Tables
<1>5. /\ Len(tab.scopes) = 1 /\ tab.scopes[1] = sc /\ Len(tab.symbols) = 0 /\ Objects(tab) = {}
      /\ \A i \in 1..1 : i = 1
  BY <1>4 DEF Objects
<1>6. Framed(tab, env) /\ Named(tab)
  BY <1>2, <1>3, <1>4, <1>5 DEF Framed, Named, NamedIn
<1>7. TagsAgree(tab, env) /\ OwnAgree(tab, env)
  BY <1>1, <1>2, <1>3, <1>5, UnboundFields DEF TagsAgree, TagsIn, OwnAgree, OwnIn, Own
<1>8. InNoOther(tab, env) /\ Deep(tab, env) /\ Inner(tab, env)
  BY <1>3 DEF InNoOther, Deep, Inner
<1>9. LinkedAgree(env, linked)
  <2>1. NeverLinked \in Linkages /\ NeverLinked.kind = "unbound"
    BY DEF NeverLinked, Linkages
  <2>2. linked \in [Names -> Linkages] /\ \A n \in Names : linked[n] = NeverLinked
    BY <1>3, <2>1
  <2> QED BY <1>1, <1>3, <2>1, <2>2, UnboundFields DEF LinkedAgree, Own
<1>10. FileAgree(tab, env, linked) /\ Sole(tab, linked)
  <2>1. \A n \in Names : linked[n].kind = "unbound"
    BY <1>3 DEF NeverLinked
  <2> QED BY <1>1, <1>2, <1>3, <1>4, <1>5, <2>1, UnboundFields DEF FileAgree, Sole
<1>11. CtxInv
  <2>1. "file" \in Contexts
    BY DEF Contexts
  <2> QED BY <1>3, <2>1 DEF CtxInv
<1>12. HeadInv /\ SavedInv
  BY <1>1, <1>3 DEF HeadInv, SavedInv
<1> QED BY <1>4, <1>6, <1>7, <1>8, <1>9, <1>10, <1>11, <1>12 DEF IInv, TabInv

\* Every step keeps the invariant
LEMMA NextKeeps ==
  ASSUME AnyExtern = FALSE, IInv, [Next]_vars
  PROVE  IInv'
<1>1. ASSUME NEW ds \in Declarators, NEW sclass \in {"none", "extern", "static"}, GlobalVariables(ds, sclass)
      PROVE  IInv'
  BY <1>1, GlobalVariablesStep
<1>2. ASSUME NEW n \in Names, NEW sclass \in {"none", "static"}, GlobalFunction(n, sclass)
      PROVE  IInv'
  BY <1>2, GlobalFunctionStep
<1>3. ASSUME NEW n \in Names, Typedef(n) \/ Enumerator(n)
      PROVE  IInv'
  BY <1>3, TypedefKeeps, EnumeratorStep
<1>4. ASSUME NEW n \in TagNames, NEW categ \in {"struct", "enum"}, TagReference(n, categ) \/ TagDefinition(n, categ)
      PROVE  IInv'
  BY <1>4, TagReferenceKeeps, TagDefinitionKeeps
<1>5. ASSUME NEW n \in Names, NEW sclass \in {"none", "static"}, DefinitionList(n, sclass)
      PROVE  IInv'
  BY <1>5, DefinitionListStep
<1>6. CASE PrototypeList
  BY <1>6, PrototypeListStep
<1>7. CASE LeaveParameterList
  BY <1>7, LeaveParameterListStep
<1>8. ASSUME NEW params \in ParameterLists, StartBody(params)
      PROVE  IInv'
  BY <1>8, StartBodyStep
<1>9. CASE OpenBlock
  BY <1>9, OpenBlockStep
<1>10. CASE CloseBlock
  BY <1>10, CloseBlockStep
<1>11. ASSUME NEW n \in Names, NEW kind \in {"auto", "static"}, LocalVariable(n, kind)
       PROVE  IInv'
  BY <1>11, LocalVariableKeeps
<1>12. ASSUME NEW n \in Names, LocalExtern(n) \/ Use(n) \/ Call(n)
       PROVE  IInv'
  BY <1>12, LocalExternStep, UseStep, CallStep
<1>13. ASSUME NEW n \in Names, NEW equal \in BOOLEAN, LocalFunction(n, equal)
       PROVE  IInv'
  BY <1>13, LocalFunctionStep
<1>14. CASE UNCHANGED vars
  BY <1>14 DEF vars, IInv, CtxInv, HeadInv, HeadLink, Agrees, SavedInv
<1> QED BY <1>1, <1>2, <1>3, <1>4, <1>5, <1>6, <1>7, <1>8, <1>9, <1>10, <1>11, <1>12, <1>13, <1>14 DEF Next

\* In every state the table agrees with C's environment (symbol.c, as declchk.c and
\* exprchk.c use it)
THEOREM TableMirrorsC ==
  ASSUME AnyExtern = FALSE
  PROVE  Spec => []IInv
<1>1. Init => IInv
  BY InitHolds
<1>2. IInv /\ [Next]_vars => IInv'
  BY NextKeeps
<1> QED BY <1>1, <1>2, PTL DEF Spec

\* What the runs check, of one state that mirrors C's

\* The shape
LEMMA MirrorHasTypes == IInv => TypeOK
<1> SUFFICES ASSUME IInv PROVE TypeOK
  OBVIOUS
<1>1. Framed(tab, env) /\ Named(tab) /\ TabInv(tab, env, linked)
  BY DEF IInv, TabInv
<1>2. /\ tab \in Tables /\ Len(tab.scopes) = Len(env) /\ tab.Level = Len(env) - 1
      /\ \A i \in 1..Len(env) : tab.scopes[i].level = i - 1 /\ NamedIn(tab, tab.scopes[i])
  BY <1>1, NamedTables
<1>3. Len(ctx) = Len(env)
  BY DEF IInv, CtxInv
<1>4. tab.symbols \in Seq(SymbolSet)
  BY <1>2, TableFields
<1>5. Objects(tab) \cup tab.functions \subseteq 1..Len(tab.symbols) /\ tab.FSYM \in 0..Len(tab.symbols)
  BY <1>1 DEF Named
<1> QED BY <1>2, <1>3, <1>4, <1>5 DEF TypeOK, NamedIn

\* Lookups
LEMMA MirrorResolves == IInv => ResolvesRight
<1> SUFFICES ASSUME IInv PROVE ResolvesRight
  OBVIOUS
<1>1. TabInv(tab, env, linked)
  BY DEF IInv
<1>2. \A n \in TagNames : LookupTag(tab, n) = Visible(env, "tags", n).id
  BY <1>1, TagFound
<1>3. ASSUME NEW n \in Names, NEW x, x = Visible(env, "ids", n), Bound(x), x.kind = "function" => linked[n].plain
      PROVE  LookupID(tab, n) # 0 /\ Represents(LookupID(tab, n), x)
  <2> DEFINE s == LookupID(tab, n)
  <2>1. /\ s # 0
        /\ Own(x) => s = x.id
        /\ HasLinkage(x) => x.kind \in LinkedKinds
        /\ x.kind = "object" => tab.symbols[s].kind = "Variable"
        /\ x.kind = "function" => tab.symbols[s].kind = "Function"
    BY <1>1, <1>3, NameFound
  <2> QED BY <1>3, <2>1 DEF Represents, Own, LinkedKinds
<1> QED BY <1>2, <1>3 DEF ResolvesRight

\* Addresses
LEMMA MirrorAddresses == IInv => AccessRight
<1> SUFFICES ASSUME IInv, NEW n \in Names, NEW x, x = Visible(env, "ids", n),
                    NEW s, s = LookupID(tab, n), x.kind \in {"object", "auto", "static"}
             PROVE  AccessName(tab.symbols[s]) = CASE x.kind = "object" -> "label"
                                                   [] x.kind = "static" -> "private"
                                                   [] x.kind = "auto" -> "frame"
  BY DEF AccessRight
<1>1. TabInv(tab, env, linked)
  BY DEF IInv
<1>2. Bound(x) /\ x.kind # "function"
  BY DEF Bound, Unbound
<1>3. /\ s # 0
      /\ Own(x) => /\ StandsFor(tab.symbols[s], x.kind)
                   /\ x.kind \in {"auto", "static"} => tab.symbols[s].level > 0
      /\ HasLinkage(x) => x.kind \in LinkedKinds
      /\ x.kind = "object" => tab.symbols[s].level = 0 \/ tab.symbols[s].sclass = "extern"
  BY <1>1, <1>2, NameFound
<1>4. CASE x.kind = "object"
  BY <1>3, <1>4 DEF AccessName
<1>5. CASE x.kind \in {"auto", "static"}
  <2>1. Own(x)
    BY <1>2, <1>3, <1>5 DEF Own, LinkedKinds
  <2>2. tab.symbols[s].sclass = x.kind /\ ~(tab.symbols[s].level = 0)
    BY <1>3, <1>5, <2>1 DEF StandsFor
  <2> QED BY <1>5, <2>2 DEF AccessName
<1> QED BY <1>4, <1>5

\* The symbol a plain name has in the file's table, and what is emitted of it
LEMMA PlainSymbol ==
  ASSUME IInv, NEW n \in Names, linked[n].plain
  PROVE  LET s == tab.scopes[1].ids[n]
             L == linked[n]
         IN  /\ L.kind = "object" => s # 0 /\ tab.symbols[s].name = n /\ ObjectRecord(tab, s, L)
             /\ L.kind = "function" => s # 0 /\ tab.symbols[s].name = n /\ FunctionRecord(tab, s, L)
             /\ L.kind \notin LinkedKinds /\ s # 0 => tab.symbols[s].kind # "Variable"
             /\ L.kind \in LinkedKinds => L.link \in Links
             /\ \A o \in Objects(tab) \cup tab.functions :
                  tab.symbols[o].name = n /\ (o \in Objects(tab) => tab.symbols[o].level = 0) => o = s
             /\ \A o \in Objects(tab) : tab.symbols[o].kind = "Variable"
             /\ s = 0 => s \notin Objects(tab)
<1> DEFINE s == tab.scopes[1].ids[n]
           L == linked[n]
           x == env[1].ids[n]
<1>1. /\ Framed(tab, env) /\ Named(tab) /\ OwnAgree(tab, env) /\ LinkedAgree(env, linked)
      /\ FileAgree(tab, env, linked) /\ Sole(tab, linked) /\ 1 \in 1..Len(env)
      /\ NamedIn(tab, tab.scopes[1])
  <2>1. TabInv(tab, env, linked) /\ 1 \in 1..Len(env)
    BY PlaceIs DEF IInv
  <2> QED BY <2>1, NamedTables DEF TabInv
<1>2. s # 0 => s \in 1..Len(tab.symbols) /\ tab.symbols[s].name = n
  BY <1>1 DEF NamedIn
<1>3. HasLinkage(x) => x.kind \in LinkedKinds /\ x.kind = L.kind
  BY <1>1 DEF LinkedAgree
<1>4. L.kind # "unbound" => L.link \in Links /\ HasLinkage(x)
  BY <1>1 DEF LinkedAgree
<1>5. L.kind # "unbound" => s # 0
  BY <1>1, <1>4 DEF FileAgree
<1>6. /\ L.kind = "object" /\ s # 0 => ObjectRecord(tab, s, L)
      /\ L.kind = "function" /\ s # 0 => FunctionRecord(tab, s, L)
      /\ L.kind = "unbound" /\ ~Bound(x) => s = 0
  BY <1>1 DEF FileAgree
<1>7. L.kind \in {"unbound"} \cup LinkedKinds
  <2>1. L \in Linkages
    BY <1>1 DEF LinkedAgree
  <2> QED BY <2>1 DEF Linkages
<1>8. L.kind = "unbound" /\ s # 0 => tab.symbols[s].kind # "Variable"
  <2> SUFFICES ASSUME L.kind = "unbound", s # 0 PROVE tab.symbols[s].kind # "Variable"
    OBVIOUS
  <2>1. Own(x)
    BY <1>3, <1>6 DEF Own, LinkedKinds
  <2>2. x.kind \in {"typedef", "enum"}
    BY <1>1, <2>1 DEF LinkedAgree
  <2>3. OwnIn(tab, tab.scopes[1], env[1])
    BY <1>1 DEF OwnAgree
  <2>4. StandsFor(tab.symbols[s], x.kind)
    BY <2>1, <2>3 DEF OwnIn
  <2> QED BY <2>2, <2>4 DEF StandsFor, SymbolKind
<1>9. ASSUME NEW o \in Objects(tab) \cup tab.functions
      PROVE  /\ o \in 1..Len(tab.symbols)
             /\ tab.symbols[o].name = n /\ (o \in Objects(tab) => tab.symbols[o].level = 0) => o = s
  BY <1>1 DEF Named, Sole
<1>10. \A o \in Objects(tab) : o \in 1..Len(tab.symbols) /\ tab.symbols[o].kind = "Variable"
  BY <1>1 DEF Named
<1>11. s = 0 => s \notin Objects(tab)
  <2>1. Len(tab.symbols) \in Nat
    BY <1>1, TableFields DEF Framed
  <2> QED BY <1>10, <2>1
<1> HIDE DEF s, L, x
<1>12. /\ L.kind = "object" => s # 0 /\ tab.symbols[s].name = n /\ ObjectRecord(tab, s, L)
       /\ L.kind = "function" => s # 0 /\ tab.symbols[s].name = n /\ FunctionRecord(tab, s, L)
  BY <1>2, <1>5, <1>6
<1>13. L.kind \in LinkedKinds => L.link \in Links
  BY <1>4 DEF LinkedKinds
<1>14. L.kind \notin LinkedKinds /\ s # 0 => tab.symbols[s].kind # "Variable"
  BY <1>7, <1>8
<1> QED BY <1>9, <1>10, <1>11, <1>12, <1>13, <1>14 DEF s, L

\* What is emitted
LEMMA MirrorEmits == IInv => EmittedRight
<1> SUFFICES ASSUME IInv, NEW n \in Names, linked[n].plain
             PROVE  /\ EmittedOnce(n)
                    /\ linked[n].kind = "function" /\ linked[n].def =>
                         (\E o \in EmittedFunctions(tab) : tab.symbols[o].name = n)
                           = (linked[n].link = "external" \/ linked[n].called)
  BY DEF EmittedRight
<1> DEFINE s == tab.scopes[1].ids[n]
           L == linked[n]
           those == {o \in EmittedObjects(tab) : tab.symbols[o].name = n /\ tab.symbols[o].level = 0}
<1>1. /\ L.kind = "object" => s # 0 /\ tab.symbols[s].name = n /\ ObjectRecord(tab, s, L)
      /\ L.kind = "function" => s # 0 /\ tab.symbols[s].name = n /\ FunctionRecord(tab, s, L)
      /\ L.kind \notin LinkedKinds /\ s # 0 => tab.symbols[s].kind # "Variable"
      /\ L.kind \in LinkedKinds => L.link \in Links
      /\ \A o \in Objects(tab) \cup tab.functions :
           tab.symbols[o].name = n /\ (o \in Objects(tab) => tab.symbols[o].level = 0) => o = s
      /\ \A o \in Objects(tab) : tab.symbols[o].kind = "Variable"
      /\ s = 0 => s \notin Objects(tab)
      /\ L.plain
  BY PlainSymbol
<1>2. those \subseteq {s} /\ those \subseteq Objects(tab)
  BY <1>1 DEF EmittedObjects
<1>3. CASE L.kind = "object"
  <2>1. /\ s \in Objects(tab) /\ tab.symbols[s].level = 0
        /\ tab.symbols[s].sclass = "static" <=> L.link = "internal"
        /\ L.def <=> tab.symbols[s].sclass # "extern" \/ tab.symbols[s].idata
    BY <1>1, <1>3 DEF ObjectRecord
  <2>2. s \in those <=> L.def
    BY <1>1, <1>3, <2>1 DEF EmittedObjects
  <2>3. CASE L.def
    <3>1. those = {s}
      BY <1>2, <2>2, <2>3
    <3>2. Cardinality(those) = 1
      BY <3>1, FS_Singleton
    <3>3. L.link \in {"internal", "external"}
      BY <1>1, <1>3 DEF LinkedKinds, Links
    <3>4. \A o \in those : Exported(tab, o) = (L.link = "external")
      BY <2>1, <3>1, <3>3 DEF Exported
    <3>5. /\ linked[n].kind = "object" /\ linked[n].def /\ Cardinality(those) = 1
          /\ \A o \in those : Exported(tab, o) = (linked[n].link = "external")
      BY <1>3, <2>3, <3>2, <3>4
    <3> QED BY <3>5, Zenon DEF EmittedOnce
  <2>4. CASE ~L.def
    <3>1. those = {}
      BY <1>2, <2>2, <2>4
    <3> QED BY <1>3, <2>4, <3>1 DEF EmittedOnce
  <2> QED BY <1>3, <2>3, <2>4
<1>4. CASE L.kind = "function"
  <2>1. /\ tab.symbols[s].kind = "Function"
        /\ tab.symbols[s].sclass = "static" <=> L.link = "internal"
        /\ tab.symbols[s].ref <=> L.called
        /\ s \in tab.functions <=> L.def
        /\ tab.symbols[s].name = n /\ L.link \in Links
    BY <1>1, <1>4 DEF FunctionRecord, LinkedKinds
  <2>2. those = {}
    BY <1>1, <1>2, <2>1
  <2>3. \A o \in EmittedFunctions(tab) : tab.symbols[o].name = n => o = s
    <3> SUFFICES ASSUME NEW o \in EmittedFunctions(tab), tab.symbols[o].name = n PROVE o = s
      OBVIOUS
    <3>1. o \in tab.functions
      BY DEF EmittedFunctions
    <3>2. PICK k \in 1..Len(tab.symbols) : k = o
      <4>1. Named(tab)
        BY DEF IInv, TabInv
      <4> QED BY <3>1, <4>1 DEF Named
    <3>3. Sole(tab, linked)
      BY DEF IInv, TabInv
    <3> QED BY <1>1, <3>1, <3>3 DEF Sole
  <2>4. L.def => (s \in EmittedFunctions(tab) <=> L.link = "external" \/ L.called)
    BY <2>1 DEF EmittedFunctions, Links
  <2>5. L.def => (\E o \in EmittedFunctions(tab) : tab.symbols[o].name = n)
                   <=> (L.link = "external" \/ L.called)
    BY <2>1, <2>3, <2>4
  <2> HIDE DEF s, those
  <2>6. L.def => (\E o \in EmittedFunctions(tab) : tab.symbols[o].name = n)
                   = (L.link = "external" \/ L.called)
    <3>1. L.called \in BOOLEAN
      <4>1. L \in Linkages
        BY DEF IInv, TabInv, LinkedAgree
      <4> QED BY <4>1 DEF Linkages
    <3> QED BY <2>5, <3>1
  <2>7. EmittedOnce(n)
    BY <1>4, <2>2 DEF EmittedOnce, those
  <2> QED BY <2>6, <2>7
<1>5. CASE L.kind \notin LinkedKinds
  <2>1. those = {}
    BY <1>1, <1>2, <1>5
  <2> QED BY <1>5, <2>1 DEF EmittedOnce, LinkedKinds
<1> QED BY <1>3, <1>4, <1>5 DEF LinkedKinds

\* The table keeps its shape: scope i has level i - 1, the names in it are those of their symbols
THEOREM TypeCorrect ==
  ASSUME AnyExtern = FALSE
  PROVE  Spec => []TypeOK
<1>1. IInv => TypeOK
  BY MirrorHasTypes
<1> QED BY <1>1, TableMirrorsC, PTL

\* A lookup finds the entity C says the name denotes (LookupID and LookupTag)
THEOREM LookupsCorrect ==
  ASSUME AnyExtern = FALSE
  PROVE  Spec => []ResolvesRight
<1>1. IInv => ResolvesRight
  BY MirrorResolves
<1> QED BY <1>1, TableMirrorsC, PTL

\* A variable is addressed by what it is (GetAccessName), whatever was looked up before
THEOREM AccessCorrect ==
  ASSUME AnyExtern = FALSE
  PROVE  Spec => []AccessRight
<1>1. IInv => AccessRight
  BY MirrorAddresses
<1> QED BY <1>1, TableMirrorsC, PTL

\* No declaration, definition or use that C accepts is rejected (declchk.c, exprchk.c)
THEOREM ValidAccepted ==
  ASSUME AnyExtern = FALSE
  PROVE  Spec => []AcceptsValid
<1>1. IInv => AcceptsValid
  BY DEF IInv, TabInv, AcceptsValid
<1> QED BY <1>1, TableMirrorsC, PTL

\* What the emitter makes of the table is what the file defines (EmitGlobals, EmitFunctions)
THEOREM EmissionCorrect ==
  ASSUME AnyExtern = FALSE
  PROVE  Spec => []EmittedRight
<1>1. IInv => EmittedRight
  BY MirrorEmits
<1> QED BY <1>1, TableMirrorsC, PTL
=============================================================================
