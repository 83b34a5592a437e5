------------------------- MODULE SymbolTableLemmas -------------------------
(***************************************************************************)
(* What it means that the table of symbol.c mirrors C's environment, and   *)
(* what the functions of symbol.c change and keep of it.                   *)
(***************************************************************************)
EXTENDS SymbolTable, SequenceTheorems, WellFoundedInduction, TLAPS

-----------------------------------------------------------------------------
(* The parts of the inductive invariant about the table.  They are about    *)
(* any table t, environment e and record l of what has linkage, so that     *)
(* what a function of the checker keeps can be stated for it alone.         *)

ScopeSet == [level : Nat, ids : [Names -> Nat], tags : [TagNames -> Nat]]
TagSet == [categ : {"struct", "enum"}, level : Nat, complete : BOOLEAN]
Tables ==
  [symbols : Seq(SymbolSet), tags : Seq(TagSet), scopes : Seq(ScopeSet), saved : ScopeSet,
   Level : Nat, Globals : Seq(Nat), functions : SUBSET Nat, FSYM : Nat, rejected : BOOLEAN]

OwnKinds == {"typedef", "enum", "auto", "static"}
LinkedKinds == {"object", "function"}
Links == {"internal", "external"}
Entities ==
  [kind : {"unbound", "struct"} \cup OwnKinds \cup LinkedKinds, link : {"none"} \cup Links, id : Nat]
CScopes == [ids : [Names -> Entities], tags : [TagNames -> Entities]]
Linkages ==
  [kind : {"unbound"} \cup LinkedKinds, link : {"none"} \cup Links,
   def : BOOLEAN, init : BOOLEAN, called : BOOLEAN, plain : BOOLEAN]

\* The shape of a table that mirrors an environment
Framed(t, e) ==
  /\ t \in Tables /\ e \in Seq(CScopes)
  /\ Len(e) \in Nat \ {0} /\ Len(t.scopes) = Len(e) /\ t.Level = Len(e) - 1
  /\ \A i \in 1..Len(e) : t.scopes[i].level = i - 1

\* A scope holds symbols of the names they are under
NamedIn(t, sc) ==
  \A n \in Names : sc.ids[n] # 0 => sc.ids[n] \in 1..Len(t.symbols) /\ t.symbols[sc.ids[n]].name = n
Named(t) ==
  /\ \A i \in 1..Len(t.scopes) : NamedIn(t, t.scopes[i])
  /\ \A s \in Objects(t) : s \in 1..Len(t.symbols) /\ t.symbols[s].kind = "Variable"
  /\ \A s \in t.functions : s \in 1..Len(t.symbols)
  /\ t.FSYM \in 0..Len(t.symbols)

\* The tags of a scope are those of C's
TagsIn(t, sc, b) ==
  \A n \in TagNames :
    /\ sc.tags[n] = b.tags[n].id /\ ~HasLinkage(b.tags[n])
    /\ Bound(b.tags[n]) => /\ sc.tags[n] \in 1..Len(t.tags)
                           /\ t.tags[sc.tags[n]].categ = b.tags[n].kind
TagsAgree(t, e) == \A i \in 1..Len(e) : TagsIn(t, t.scopes[i], e[i])

\* What is declared without linkage has its symbol in its scope
SymbolKind == [typedef |-> "TypedefName", enum |-> "EnumConstant",
               auto |-> "Variable", static |-> "Variable"]
Own(e) == Bound(e) /\ ~HasLinkage(e)
StandsFor(sym, kind) == sym.kind = SymbolKind[kind] /\ (kind \in {"auto", "static"} => sym.sclass = kind)
OwnIn(t, sc, b) ==
  \A n \in Names : Own(b.ids[n]) =>
    /\ b.ids[n].kind \in OwnKinds /\ b.ids[n].id # 0
    /\ sc.ids[n] = b.ids[n].id
    /\ StandsFor(t.symbols[sc.ids[n]], b.ids[n].kind)
OwnAgree(t, e) == \A i \in 1..Len(e) : OwnIn(t, t.scopes[i], e[i])

\* ... and in no other; a lookup cannot move it to level 0
InNoOther(t, e) ==
  \A i \in 1..Len(e), j \in 1..Len(e), n \in Names :
    Own(e[i].ids[n]) /\ i # j => t.scopes[j].ids[n] # e[i].ids[n].id
DeepIn(t, b) == \A n \in Names : Own(b.ids[n]) => t.symbols[b.ids[n].id].level > 0
Deep(t, e) == \A i \in 2..Len(e) : DeepIn(t, e[i])

\* Inside functions the table has nothing C does not have
Inner(t, e) ==
  \A i \in 2..Len(e), n \in Names :
    /\ ~Bound(e[i].ids[n]) => t.scopes[i].ids[n] = 0
    /\ e[i].ids[n].kind = "object" =>
         /\ t.scopes[i].ids[n] # 0
         /\ t.symbols[t.scopes[i].ids[n]].kind = "Variable"
         /\ t.symbols[t.scopes[i].ids[n]].sclass = "extern"

\* One thing has one kind and one linkage, wherever it is declared
LinkedAgree(e, l) ==
  /\ l \in [Names -> Linkages]
  /\ \A i \in 1..Len(e), n \in Names :
       HasLinkage(e[i].ids[n]) =>
         /\ e[i].ids[n].kind \in LinkedKinds /\ e[i].ids[n].kind = l[n].kind
         /\ e[i].ids[n].link = l[n].link
         /\ i > 1 => ~l[n].plain
  /\ \A n \in Names :
       /\ l[n].kind = "unbound" => l[n] = NeverLinked
       /\ l[n].kind # "unbound" => l[n].link \in Links
       /\ l[n].kind # "unbound" /\ ~HasLinkage(e[1].ids[n]) => ~l[n].plain /\ ~Bound(e[1].ids[n])
       /\ Own(e[1].ids[n]) => e[1].ids[n].kind \in {"typedef", "enum"}

\* What the file's table knows of an object, and of a function
ObjectRecord(t, s, L) ==
  /\ t.symbols[s].kind = "Variable"
  /\ IF L.plain
     THEN /\ s \in Objects(t) /\ t.symbols[s].level = 0
          /\ t.symbols[s].sclass \in {"none", "extern", "static"}
          /\ t.symbols[s].sclass = "static" <=> L.link = "internal"
          /\ L.def <=> t.symbols[s].sclass # "extern" \/ t.symbols[s].idata
          /\ t.symbols[s].defined => L.init
     ELSE t.symbols[s].sclass = "extern"
FunctionRecord(t, s, L) ==
  /\ t.symbols[s].kind = "Function"
  /\ t.symbols[s].sclass = "static" <=> L.link = "internal"
  /\ t.symbols[s].defined => L.def
  /\ L.plain => /\ t.symbols[s].ref <=> L.called
                /\ s \in t.functions <=> L.def

\* ... which is in it under its name, once it was declared at file scope
FileAgree(t, e, l) ==
  \A n \in Names :
    LET s == t.scopes[1].ids[n]
    IN  /\ l[n].kind = "unbound" /\ ~Bound(e[1].ids[n]) => s = 0
        /\ HasLinkage(e[1].ids[n]) => s # 0
        /\ l[n].kind = "object" /\ s # 0 => ObjectRecord(t, s, l[n])
        /\ l[n].kind = "function" /\ s # 0 => FunctionRecord(t, s, l[n])

\* No symbol but the one in the file's table passes for a plain name's
Sole(t, l) ==
  /\ \A s \in 1..Len(t.symbols) :
       t.symbols[s].level = 0 /\ l[t.symbols[s].name].plain => t.scopes[1].ids[t.symbols[s].name] = s
  /\ \A s \in t.functions :
       l[t.symbols[s].name].plain => t.scopes[1].ids[t.symbols[s].name] = s

TabInv(t, e, l) ==
  /\ Framed(t, e) /\ Named(t) /\ TagsAgree(t, e) /\ OwnAgree(t, e) /\ InNoOther(t, e) /\ Deep(t, e)
  /\ Inner(t, e) /\ LinkedAgree(e, l) /\ FileAgree(t, e, l) /\ Sole(t, l) /\ ~t.rejected

\* sc and C's b are a scope that was left: nothing it declares is in an open one
Detached(t, e, sc, b) ==
  /\ NamedIn(t, sc) /\ TagsIn(t, sc, b) /\ OwnIn(t, sc, b) /\ DeepIn(t, b)
  /\ \A n \in Names : /\ ~HasLinkage(b.ids[n])
                      /\ ~Bound(b.ids[n]) => sc.ids[n] = 0
                      /\ Bound(b.ids[n]) => \A j \in 1..Len(e) : t.scopes[j].ids[n] # b.ids[n].id

-----------------------------------------------------------------------------
(* Lookups: what the innermost of several scopes is.                        *)

\* A set of positions has a greatest
LEMMA GreatestExists ==
  ASSUME NEW k \in Nat, NEW S, S \subseteq 1..k, S # {}
  PROVE  \E i \in S : \A j \in S : j <= i
<1> DEFINE D == {k - i : i \in S}
<1>1. D \subseteq Nat /\ D # {}
  <2>1. \A i \in S : k - i \in Nat
    OBVIOUS
  <2>2. PICK i \in S : TRUE
    OBVIOUS
  <2>3. k - i \in D
    OBVIOUS
  <2>4. ASSUME NEW d \in D PROVE d \in Nat
    BY <2>1
  <2> QED BY <2>3, <2>4
<1>2. \E d \in D : \A c \in D : ~(<<c, d>> \in OpToRel(<, Nat))
  <2> HIDE DEF D
  <2> QED BY <1>1, NatLessThanWellFounded, WFMin
<1>3. PICK d \in D : \A c \in D : ~(<<c, d>> \in OpToRel(<, Nat))
  BY <1>2
<1>4. \A c \in D : ~(c < d)
  BY <1>3, <1>1 DEF OpToRel
<1>5. PICK i \in S : d = k - i
  BY <1>3
<1>6. ASSUME NEW j \in S PROVE j <= i
  <2>1. k - j \in D
    OBVIOUS
  <2>2. ~(k - j < d)
    <3> HIDE DEF D
    <3> QED BY <1>4, <2>1
  <2>3. i \in 1..k /\ j \in 1..k
    OBVIOUS
  <2> HIDE DEF D
  <2> QED BY <1>5, <2>2, <2>3
<1> QED BY <1>6

\* A name that denotes something is bound in a scope, and in none within it
LEMMA VisibleIsInnermost ==
  ASSUME NEW e, Len(e) \in Nat, NEW ns, NEW n, Bound(Visible(e, ns, n))
  PROVE  \E i \in 1..Len(e) : /\ Visible(e, ns, n) = e[i][ns][n]
                              /\ \A j \in i+1..Len(e) : ~Bound(e[j][ns][n])
<1> DEFINE S == {i \in 1..Len(e) : Bound(e[i][ns][n])}
<1>1. S # {}
  BY DEF Visible, Bound
<1>2. \E i \in S : \A j \in S : j <= i
  <2>1. S \subseteq 1..Len(e)
    OBVIOUS
  <2> HIDE DEF S
  <2> QED BY <1>1, <2>1, GreatestExists
<1> DEFINE i == CHOOSE i \in S : \A j \in S : j <= i
<1>3. i \in S /\ \A j \in S : j <= i
  <2> HIDE DEF S
  <2> QED BY <1>2
<1>4. Visible(e, ns, n) = e[i][ns][n]
  BY <1>1 DEF Visible
<1> HIDE DEF i
<1>5. i \in 1..Len(e) /\ \A j \in i+1..Len(e) : ~Bound(e[j][ns][n])
  BY <1>3
<1> QED BY <1>4, <1>5

\* The innermost scope that binds a name is the one C sees (Visible)
LEMMA InnermostIsVisible ==
  ASSUME NEW e, Len(e) \in Nat, NEW ns, NEW n, NEW i \in 1..Len(e), Bound(e[i][ns][n]),
         \A j \in i+1..Len(e) : ~Bound(e[j][ns][n])
  PROVE  Visible(e, ns, n) = e[i][ns][n]
<1> DEFINE S == {k \in 1..Len(e) : Bound(e[k][ns][n])}
<1>1. i \in S /\ \A j \in S : j <= i
  OBVIOUS
<1>2. ASSUME NEW k \in S, \A j \in S : j <= k PROVE k = i
  BY <1>1, <1>2
<1>3. (CHOOSE k \in S : \A j \in S : j <= k) = i
  <2> HIDE DEF S
  <2> QED BY <1>1, <1>2
<1>4. Visible(e, ns, n) = IF S = {} THEN Unbound
                          ELSE e[CHOOSE k \in S : \A j \in S : j <= k][ns][n]
  BY DEF Visible
<1>5. S # {}
  BY <1>1
<1> HIDE DEF S
<1> QED BY <1>3, <1>4, <1>5

\* A name that no scope binds denotes nothing
LEMMA NothingVisible ==
  ASSUME NEW e, NEW ns, NEW n, \A i \in 1..Len(e) : ~Bound(e[i][ns][n])
  PROVE  Visible(e, ns, n) = Unbound
  BY DEF Visible

\* A lookup stops at the innermost table that has the name (LookupID, LookupTag)
LEMMA LookupStops ==
  ASSUME NEW t, Len(t.scopes) \in Nat, NEW ns, NEW n, NEW i \in 1..Len(t.scopes),
         t.scopes[i][ns][n] # 0, \A j \in i+1..Len(t.scopes) : t.scopes[j][ns][n] = 0
  PROVE  FoundIn(t, ns, n) = i /\ Found(t, ns, n) = t.scopes[i][ns][n]
<1> DEFINE S == {k \in 1..Len(t.scopes) : t.scopes[k][ns][n] # 0}
<1>1. i \in S /\ \A j \in S : j <= i
  OBVIOUS
<1>2. ASSUME NEW k \in S, \A j \in S : j <= k PROVE k = i
  BY <1>1, <1>2
<1>3. (CHOOSE k \in S : \A j \in S : j <= k) = i
  <2> HIDE DEF S
  <2> QED BY <1>1, <1>2
<1>4. FoundIn(t, ns, n) = IF S = {} THEN 0 ELSE CHOOSE k \in S : \A j \in S : j <= k
  BY DEF FoundIn
<1>5. S # {}
  BY <1>1
<1>6. FoundIn(t, ns, n) = i
  <2> HIDE DEF S
  <2> QED BY <1>3, <1>4, <1>5
<1> QED BY <1>6 DEF Found

\* A lookup stops at a table that has the name, or finds nothing in any
LEMMA LookupFinds ==
  ASSUME NEW t, Len(t.scopes) \in Nat, NEW ns, NEW n
  PROVE  \/ /\ FoundIn(t, ns, n) = 0 /\ Found(t, ns, n) = 0
            /\ \A i \in 1..Len(t.scopes) : t.scopes[i][ns][n] = 0
         \/ /\ FoundIn(t, ns, n) \in 1..Len(t.scopes)
            /\ Found(t, ns, n) = t.scopes[FoundIn(t, ns, n)][ns][n]
            /\ Found(t, ns, n) # 0
            /\ \A j \in FoundIn(t, ns, n)+1..Len(t.scopes) : t.scopes[j][ns][n] = 0
<1> DEFINE S == {k \in 1..Len(t.scopes) : t.scopes[k][ns][n] # 0}
<1>1. CASE S = {}
  BY <1>1 DEF FoundIn, Found
<1>2. CASE S # {}
  <2>1. \E i \in S : \A j \in S : j <= i
    <3>1. S \subseteq 1..Len(t.scopes)
      OBVIOUS
    <3> HIDE DEF S
    <3> QED BY <1>2, <3>1, GreatestExists
  <2>2. PICK i \in S : \A j \in S : j <= i
    BY <2>1
  <2>3. FoundIn(t, ns, n) = i /\ Found(t, ns, n) = t.scopes[i][ns][n]
    BY <2>2, LookupStops
  <2> QED BY <2>2, <2>3
<1> QED BY <1>1, <1>2

-----------------------------------------------------------------------------
(* What the functions of symbol.c change.                                   *)

\* u is t but for one thing and another
SameScopes(t, u) == u.scopes = t.scopes /\ u.saved = t.saved /\ u.Level = t.Level
SameLists(t, u) == u.Globals = t.Globals /\ u.functions = t.functions /\ u.FSYM = t.FSYM
SameTags(t, u) == u.tags = t.tags
SameButLevel(a, b) ==
  /\ b.kind = a.kind /\ b.name = a.name /\ b.sclass = a.sclass
  /\ b.defined = a.defined /\ b.idata = a.idata /\ b.ref = a.ref

Relevelled(t, u, n) ==
  /\ u \in Tables /\ SameScopes(t, u) /\ SameLists(t, u) /\ SameTags(t, u) /\ u.rejected = t.rejected
  /\ Len(u.symbols) = Len(t.symbols)
  /\ \A s \in 1..Len(t.symbols) :
       /\ SameButLevel(t.symbols[s], u.symbols[s])
       /\ u.symbols[s].level = IF s = Found(t, "ids", n) /\ s # 0
                               THEN t.scopes[FoundIn(t, "ids", n)].level ELSE t.symbols[s].level

\* A lookup of an identifier changes no more than the level of what it finds
LEMMA LookupChanges ==
  ASSUME NEW t \in Tables, NEW n \in Names, \A i \in 1..Len(t.scopes) : NamedIn(t, t.scopes[i])
  PROVE  Relevelled(t, LookedUpID(t, n), n)
<1> DEFINE s == Found(t, "ids", n)
           f == FoundIn(t, "ids", n)
           u == LookedUpID(t, n)
<1>1. CASE s = 0
  <2>1. u = t
    BY <1>1 DEF LookedUpID
  <2> QED BY <2>1, <1>1 DEF Relevelled, SameScopes, SameLists, SameTags, SameButLevel, Tables
<1>2. CASE s # 0
  <2>1. f \in 1..Len(t.scopes) /\ s = t.scopes[f].ids[n]
    <3>1. Len(t.scopes) \in Nat
      BY DEF Tables
    <3> QED BY <1>2, <3>1, LookupFinds
  <2>2. s \in 1..Len(t.symbols)
    BY <1>2, <2>1 DEF NamedIn
  <2>3. t.scopes[f].level \in Nat /\ t.symbols \in Seq(SymbolSet) /\ t.symbols[s] \in SymbolSet
    <3>1. t.scopes \in Seq(ScopeSet) /\ t.symbols \in Seq(SymbolSet)
      BY DEF Tables
    <3>2. t.scopes[f] \in ScopeSet /\ t.symbols[s] \in SymbolSet
      BY <2>1, <2>2, <3>1, ElementOfSeq
    <3> QED BY <3>1, <3>2 DEF ScopeSet
  <2> DEFINE a == [t.symbols[s] EXCEPT !.level = t.scopes[f].level]
  <2>4. a \in SymbolSet /\ SameButLevel(t.symbols[s], a) /\ a.level = t.scopes[f].level
    BY <2>2, <2>3 DEF SymbolSet, SameButLevel
  <2>5. u = [t EXCEPT !.symbols = [t.symbols EXCEPT ![s] = a]]
    BY <1>2 DEF LookedUpID
  <2>6. u.symbols = [t.symbols EXCEPT ![s] = a]
    BY <2>5 DEF Tables
  <2>7. /\ u.symbols \in Seq(SymbolSet) /\ Len(u.symbols) = Len(t.symbols)
        /\ \A j \in 1..Len(t.symbols) : u.symbols[j] = IF j = s THEN a ELSE t.symbols[j]
    BY <2>2, <2>3, <2>4, <2>6, ExceptSeq
  <2>8. u \in Tables /\ SameScopes(t, u) /\ SameLists(t, u) /\ SameTags(t, u) /\ u.rejected = t.rejected
    BY <2>5, <2>7 DEF Tables, SameScopes, SameLists, SameTags
  <2> HIDE DEF s, f, u, a
  <2>9. \A j \in 1..Len(t.symbols) : SameButLevel(t.symbols[j], u.symbols[j])
    BY <2>4, <2>7 DEF SameButLevel
  <2>10. \A j \in 1..Len(t.symbols) :
           u.symbols[j].level = IF j = s /\ j # 0 THEN t.scopes[f].level ELSE t.symbols[j].level
    BY <2>4, <2>7, <2>2
  <2> QED BY <2>7, <2>8, <2>9, <2>10 DEF Relevelled, s, f, u
<1> QED BY <1>1, <1>2

\* u is t with a new symbol of name n, in the tables P (and, if g, in Globals)
Fresh(kind, n, sclass, level) ==
  [kind |-> kind, name |-> n, sclass |-> sclass, level |-> level,
   defined |-> FALSE, idata |-> FALSE, ref |-> FALSE]
Placed(t, u, n, P, sym, g) ==
  /\ u \in Tables /\ SameTags(t, u) /\ u.rejected = t.rejected
  /\ u.saved = t.saved /\ u.Level = t.Level /\ u.functions = t.functions /\ u.FSYM = t.FSYM
  /\ Objects(u) = IF g THEN Objects(t) \cup {Len(t.symbols) + 1} ELSE Objects(t)
  /\ Len(u.symbols) = Len(t.symbols) + 1 /\ u.symbols[Len(t.symbols) + 1] = sym
  /\ \A s \in 1..Len(t.symbols) : u.symbols[s] = t.symbols[s]
  /\ Len(u.scopes) = Len(t.scopes)
  /\ \A i \in 1..Len(t.scopes) :
       /\ u.scopes[i].level = t.scopes[i].level /\ u.scopes[i].tags = t.scopes[i].tags
       /\ \A m \in Names : u.scopes[i].ids[m] = IF i \in P /\ m = n THEN Len(t.symbols) + 1
                                                ELSE t.scopes[i].ids[m]

\* The fields of a table and the elements of its lists
LEMMA TableFields ==
  ASSUME NEW t \in Tables
  PROVE  /\ t.symbols \in Seq(SymbolSet) /\ t.tags \in Seq(TagSet) /\ t.scopes \in Seq(ScopeSet)
         /\ t.saved \in ScopeSet /\ t.Level \in Nat /\ t.Globals \in Seq(Nat)
         /\ t.functions \subseteq Nat /\ t.FSYM \in Nat /\ t.rejected \in BOOLEAN
         /\ Len(t.symbols) \in Nat /\ Len(t.tags) \in Nat /\ Len(t.scopes) \in Nat
         /\ \A s \in 1..Len(t.symbols) : t.symbols[s] \in SymbolSet
         /\ \A s \in 1..Len(t.tags) : t.tags[s] \in TagSet
         /\ \A i \in 1..Len(t.scopes) : t.scopes[i] \in ScopeSet
<1>1. /\ t.symbols \in Seq(SymbolSet) /\ t.tags \in Seq(TagSet) /\ t.scopes \in Seq(ScopeSet)
      /\ t.saved \in ScopeSet /\ t.Level \in Nat /\ t.Globals \in Seq(Nat)
      /\ t.functions \subseteq Nat /\ t.FSYM \in Nat /\ t.rejected \in BOOLEAN
  BY DEF Tables
<1> QED BY <1>1, ElementOfSeq, LenProperties

\* A new symbol is in no scope yet
LEMMA NewSymbolPlaced ==
  ASSUME NEW t \in Tables, NEW n \in Names, NEW kind \in Kinds, NEW sclass \in Classes
  PROVE  Placed(t, NewSymbol(t, kind, n, sclass), n, {}, Fresh(kind, n, sclass, 0), FALSE)
<1> DEFINE u == NewSymbol(t, kind, n, sclass)
           a == Fresh(kind, n, sclass, 0)
<1>1. a \in SymbolSet
  BY DEF Fresh, SymbolSet
<1>2. u = [t EXCEPT !.symbols = Append(t.symbols, a)]
  BY DEF NewSymbol, Fresh
<1>3. /\ Append(t.symbols, a) \in Seq(SymbolSet)
      /\ Len(Append(t.symbols, a)) = Len(t.symbols) + 1
      /\ \A i \in 1..Len(t.symbols) : Append(t.symbols, a)[i] = t.symbols[i]
      /\ Append(t.symbols, a)[Len(t.symbols) + 1] = a
  <2> HIDE DEF a
  <2> QED BY <1>1, TableFields, AppendProperties
<1> HIDE DEF a
<1>4. u \in Tables /\ u.symbols = Append(t.symbols, a)
  BY <1>2, <1>3 DEF Tables
<1>5. /\ u.tags = t.tags /\ u.rejected = t.rejected /\ u.saved = t.saved /\ u.Level = t.Level
      /\ u.functions = t.functions /\ u.FSYM = t.FSYM /\ u.Globals = t.Globals /\ u.scopes = t.scopes
  BY <1>2 DEF Tables
<1> HIDE DEF u
<1>6. Objects(u) = Objects(t)
  BY <1>5 DEF Objects
<1>7. Placed(t, u, n, {}, a, FALSE)
  BY <1>3, <1>4, <1>5, <1>6 DEF Placed, SameTags
<1> QED BY <1>7 DEF a, u

\* A new variable may join the list that is emitted
LEMMA GlobalsPlaced ==
  ASSUME NEW t \in Tables, NEW u, NEW n, NEW P, NEW sym, Placed(t, u, n, P, sym, FALSE)
  PROVE  Placed(t, [u EXCEPT !.Globals = Append(@, Len(u.symbols))], n, P, sym, TRUE)
<1> DEFINE v == [u EXCEPT !.Globals = Append(@, Len(u.symbols))]
           k == Len(t.symbols) + 1
<1>1. u \in Tables /\ Len(u.symbols) = k /\ k \in Nat /\ u.Globals \in Seq(Nat)
  BY TableFields DEF Placed
<1>2. v = [u EXCEPT !.Globals = Append(u.Globals, k)]
  BY <1>1
<1>3. /\ Append(u.Globals, k) \in Seq(Nat) /\ Len(u.Globals) \in Nat
      /\ Len(Append(u.Globals, k)) = Len(u.Globals) + 1
      /\ \A i \in 1..Len(u.Globals) : Append(u.Globals, k)[i] = u.Globals[i]
      /\ Append(u.Globals, k)[Len(u.Globals) + 1] = k
  <2> HIDE DEF k
  <2> QED BY <1>1, AppendProperties, LenProperties
<1>4. v \in Tables /\ v.Globals = Append(u.Globals, k)
  BY <1>1, <1>2, <1>3 DEF Tables
<1>5. Objects(v) = Objects(u) \cup {k}
  <2>1. Objects(v) = {Append(u.Globals, k)[i] : i \in 1..(Len(u.Globals) + 1)}
    BY <1>3, <1>4 DEF Objects
  <2>2. Objects(u) = {u.Globals[i] : i \in 1..Len(u.Globals)}
    BY DEF Objects
  <2> HIDE DEF k
  <2> DEFINE G == u.Globals
             H == Append(u.Globals, k)
             L == Len(u.Globals)
  <2>0. /\ Objects(v) = {H[i] : i \in 1..(L + 1)} /\ Objects(u) = {G[i] : i \in 1..L} /\ L \in Nat
        /\ H[L + 1] = k /\ \A i \in 1..L : H[i] = G[i]
    BY <2>1, <2>2, <1>3
  <2> HIDE DEF G, H, L, v
  <2>3. ASSUME NEW x \in Objects(v) PROVE x \in Objects(u) \cup {k}
    <3>1. PICK i \in 1..(L + 1) : x = H[i]
      BY <2>0
    <3>2. CASE i \in 1..L
      <4>1. x = G[i]
        BY <2>0, <3>1, <3>2
      <4> QED BY <4>1, <3>2, <2>0
    <3>3. CASE i = L + 1
      BY <3>1, <3>3, <2>0
    <3> QED BY <3>2, <3>3, <2>0
  <2>4. k \in Objects(v)
    <3>1. L + 1 \in 1..(L + 1)
      BY <2>0
    <3>2. H[L + 1] \in Objects(v)
      BY <3>1, <2>0
    <3> QED BY <3>2, <2>0
  <2>5. ASSUME NEW x \in Objects(u) PROVE x \in Objects(v)
    <3>1. PICK i \in 1..L : x = G[i]
      BY <2>0
    <3>2. i \in 1..(L + 1) /\ x = H[i]
      BY <3>1, <2>0
    <3> QED BY <3>2, <2>0
  <2> QED BY <2>3, <2>4, <2>5
<1>6. Objects(u) = Objects(t)
  BY DEF Placed
<1>7. /\ v.tags = u.tags /\ v.rejected = u.rejected /\ v.saved = u.saved /\ v.Level = u.Level
      /\ v.functions = u.functions /\ v.FSYM = u.FSYM /\ v.symbols = u.symbols /\ v.scopes = u.scopes
  BY <1>1, <1>2 DEF Tables
<1> HIDE DEF v
<1>8. Placed(t, v, n, P, sym, TRUE)
  BY <1>4, <1>5, <1>6, <1>7 DEF Placed, SameTags
<1> QED BY <1>8 DEF v

\* Symbols that agree in all fields are equal
LEMMA SameSymbol ==
  ASSUME NEW a \in SymbolSet, NEW b \in SymbolSet, SameButLevel(a, b), a.level = b.level
  PROVE  a = b
BY DEF SymbolSet, SameButLevel

\* AddSymbol puts the new symbol into one more scope, at that scope's level
LEMMA AddSymbolPlaced ==
  ASSUME NEW t \in Tables, NEW u, NEW n \in Names, NEW P, NEW g, NEW kind \in Kinds,
         NEW sclass \in Classes, NEW level,
         Placed(t, u, n, P, Fresh(kind, n, sclass, level), g), NEW i \in 1..Len(t.scopes)
  PROVE  Placed(t, AddSymbol(u, i, Len(t.symbols) + 1), n, P \cup {i},
                Fresh(kind, n, sclass, t.scopes[i].level), g)
<1> DEFINE k == Len(t.symbols) + 1
           v == AddSymbol(u, i, k)
           a == Fresh(kind, n, sclass, t.scopes[i].level)
           c == [u.scopes[i] EXCEPT !.ids[n] = k]
<1>1. /\ u \in Tables /\ Len(u.symbols) = k /\ k \in Nat /\ i \in 1..Len(u.scopes)
      /\ u.symbols[k] = Fresh(kind, n, sclass, level) /\ u.scopes[i].level = t.scopes[i].level
  BY TableFields DEF Placed
<1>2. u.scopes[i] \in ScopeSet /\ u.symbols \in Seq(SymbolSet) /\ u.scopes \in Seq(ScopeSet) /\ k \in 1..Len(u.symbols)
  BY <1>1, TableFields
<1>3. a \in SymbolSet
  BY <1>2, <1>1 DEF Fresh, SymbolSet, ScopeSet
<1>4. /\ c \in ScopeSet /\ c.level = u.scopes[i].level /\ c.tags = u.scopes[i].tags
      /\ \A m \in Names : c.ids[m] = IF m = n THEN k ELSE u.scopes[i].ids[m]
  <2> HIDE DEF k
  <2> QED BY <1>1, <1>2 DEF ScopeSet
<1>5. v = [u EXCEPT !.scopes = [u.scopes EXCEPT ![i] = c], !.symbols = [u.symbols EXCEPT ![k] = a]]
  <2>1. u.symbols[k].name = n /\ [u.symbols[k] EXCEPT !.level = u.scopes[i].level] = a
    <3> DEFINE b == [u.symbols[k] EXCEPT !.level = u.scopes[i].level]
    <3>1. u.symbols[k] \in SymbolSet /\ u.symbols[k].name = n
      BY <1>1, <1>2, TableFields DEF Fresh
    <3>2. u.scopes[i].level \in Nat
      BY <1>2 DEF ScopeSet
    <3>3. b \in SymbolSet /\ SameButLevel(u.symbols[k], b) /\ b.level = u.scopes[i].level
      <4> HIDE DEF k
      <4> QED BY <3>1, <3>2 DEF SymbolSet, SameButLevel
    <3>4. /\ a.kind = kind /\ a.name = n /\ a.sclass = sclass /\ a.defined = FALSE
          /\ a.idata = FALSE /\ a.ref = FALSE /\ a.level = u.scopes[i].level
      BY <1>1 DEF Fresh
    <3>5. SameButLevel(a, b)
      <4>1. /\ u.symbols[k].kind = kind /\ u.symbols[k].name = n /\ u.symbols[k].sclass = sclass
            /\ u.symbols[k].defined = FALSE /\ u.symbols[k].idata = FALSE /\ u.symbols[k].ref = FALSE
        BY <1>1 DEF Fresh
      <4> HIDE DEF a, b, k
      <4> QED BY <4>1, <3>3, <3>4 DEF SameButLevel
    <3> HIDE DEF k, a, b
    <3>6. a = b
      BY <1>3, <3>3, <3>4, <3>5, SameSymbol DEF SameButLevel
    <3> QED BY <3>1, <3>6 DEF b
  <2>2. v = [u EXCEPT !.scopes = [u.scopes EXCEPT ![i] = [u.scopes[i] EXCEPT !.ids[u.symbols[k].name] = k]],
                      !.symbols = [u.symbols EXCEPT ![k] = [u.symbols[k] EXCEPT !.level = u.scopes[i].level]]]
    BY DEF AddSymbol
  <2> HIDE DEF k, v, a
  <2> QED BY <2>1, <2>2
<1>6. /\ [u.scopes EXCEPT ![i] = c] \in Seq(ScopeSet)
      /\ Len([u.scopes EXCEPT ![i] = c]) = Len(u.scopes)
      /\ \A j \in 1..Len(u.scopes) : [u.scopes EXCEPT ![i] = c][j] = IF j = i THEN c ELSE u.scopes[j]
  <2> HIDE DEF c
  <2> QED BY <1>1, <1>2, <1>4, ExceptSeq
<1>7. /\ [u.symbols EXCEPT ![k] = a] \in Seq(SymbolSet)
      /\ Len([u.symbols EXCEPT ![k] = a]) = Len(u.symbols)
      /\ \A j \in 1..Len(u.symbols) : [u.symbols EXCEPT ![k] = a][j] = IF j = k THEN a ELSE u.symbols[j]
  <2> HIDE DEF a, k
  <2> QED BY <1>1, <1>2, <1>3, ExceptSeq
<1> HIDE DEF a, c, k
<1>8. /\ v \in Tables /\ v.scopes = [u.scopes EXCEPT ![i] = c] /\ v.symbols = [u.symbols EXCEPT ![k] = a]
      /\ v.tags = u.tags /\ v.rejected = u.rejected /\ v.saved = u.saved /\ v.Level = u.Level
      /\ v.functions = u.functions /\ v.FSYM = u.FSYM /\ v.Globals = u.Globals
  <2> HIDE DEF v
  <2> QED BY <1>1, <1>5, <1>6, <1>7 DEF Tables
<1>9. Objects(v) = Objects(u)
  BY <1>8 DEF Objects
<1> HIDE DEF v
<1>10. \A j \in 1..Len(t.scopes) :
         /\ v.scopes[j].level = t.scopes[j].level /\ v.scopes[j].tags = t.scopes[j].tags
         /\ \A m \in Names : v.scopes[j].ids[m] = IF j \in P \cup {i} /\ m = n THEN k
                                                  ELSE t.scopes[j].ids[m]
  BY <1>4, <1>6, <1>8 DEF Placed, k
<1>11. \A s \in 1..Len(t.symbols) : v.symbols[s] = t.symbols[s]
  BY <1>7, <1>8, TableFields DEF Placed, k
<1>12. v.symbols[k] = a /\ Len(v.symbols) = k /\ Len(v.scopes) = Len(t.scopes)
  BY <1>1, <1>2, <1>6, <1>7, <1>8 DEF Placed
<1>13. Placed(t, v, n, P \cup {i}, a, g)
  BY <1>8, <1>9, <1>10, <1>11, <1>12 DEF Placed, SameTags, k
<1> QED BY <1>13 DEF a, v, k

\* Newest and Current of a table with one new symbol
LEMMA NewestPlaced ==
  ASSUME NEW t \in Tables, NEW u, NEW n, NEW P, NEW sym, NEW g, Placed(t, u, n, P, sym, g)
  PROVE  Newest(u) = Len(t.symbols) + 1 /\ Current(u) = Current(t)
BY DEF Placed, Newest, Current

\* A new name in the current scope: a typedef or an enumerator
LEMMA AddNamePlaced ==
  ASSUME NEW t \in Tables, NEW n \in Names, NEW kind \in Kinds, NEW sclass \in Classes,
         Len(t.scopes) > 0
  PROVE  LET new == NewSymbol(t, kind, n, sclass)
         IN  Placed(t, AddSymbol(new, Current(t), Newest(new)), n, {Current(t)},
                    Fresh(kind, n, sclass, t.scopes[Current(t)].level), FALSE)
<1> DEFINE new == NewSymbol(t, kind, n, sclass)
           c == Current(t)
<1>1. Placed(t, new, n, {}, Fresh(kind, n, sclass, 0), FALSE)
  BY NewSymbolPlaced
<1>2. Newest(new) = Len(t.symbols) + 1
  BY <1>1, NewestPlaced
<1>3. c \in 1..Len(t.scopes)
  BY TableFields DEF Current
<1> HIDE DEF new, c
<1>4. Placed(t, AddSymbol(new, c, Newest(new)), n, {} \cup {c},
             Fresh(kind, n, sclass, t.scopes[c].level), FALSE)
  BY <1>1, <1>2, <1>3, AddSymbolPlaced
<1>5. {} \cup {c} = {c}
  OBVIOUS
<1> QED BY <1>4, <1>5 DEF new, c

\* AddVariable: one new variable, in the current scope and, if extern, in the file's
LEMMA AddVariablePlaced ==
  ASSUME NEW t \in Tables, NEW n \in Names, NEW sclass \in Classes, Len(t.scopes) > 0
  PROVE  Placed(t, AddVariable(t, n, sclass), n,
                IF AlsoGlobal(t, sclass) THEN {1, Current(t)} ELSE {Current(t)},
                Fresh("Variable", n, sclass, t.scopes[Current(t)].level), OnGlobals(t, sclass))
<1> DEFINE new  == NewSymbol(t, "Variable", n, sclass)
           s    == Newest(new)
           listed == [new EXCEPT !.Globals = Append(@, s)]
           list == IF OnGlobals(t, sclass) THEN listed ELSE new
           glob == IF AlsoGlobal(t, sclass) THEN AddSymbol(list, 1, s) ELSE list
           c == Current(t)
           k == Len(t.symbols) + 1
           sym(level) == Fresh("Variable", n, sclass, level)
           g == OnGlobals(t, sclass)
           z == t.scopes[c].level
<1>0. AddVariable(t, n, sclass) = AddSymbol(glob, c, s)
  BY DEF AddVariable
<1>1. Placed(t, new, n, {}, sym(0), FALSE)
  BY NewSymbolPlaced DEF Kinds
<1>2. s = k /\ s = Len(new.symbols)
  BY <1>1, NewestPlaced DEF Newest
<1>3. c \in 1..Len(t.scopes) /\ 1 \in 1..Len(t.scopes)
  BY TableFields DEF Current
<1>4. Placed(t, list, n, {}, sym(0), g)
  <2>1. Placed(t, listed, n, {}, sym(0), TRUE)
    <3> HIDE DEF new, sym
    <3> QED BY <1>1, <1>2, GlobalsPlaced
  <2>2. g \in BOOLEAN
    BY DEF OnGlobals
  <2>3. g = TRUE \/ g = FALSE
    BY <2>2
  <2> HIDE DEF new, sym, s, listed
  <2> QED BY <2>1, <2>3, <1>1
<1> HIDE DEF new, s, list, listed, c, g, z, k
<1>5. CASE AlsoGlobal(t, sclass)
  <2>1. Placed(t, AddSymbol(list, 1, k), n, {} \cup {1}, sym(t.scopes[1].level), g)
    BY <1>3, <1>4, AddSymbolPlaced DEF Kinds, k
  <2>2. Placed(t, AddSymbol(glob, c, k), n, {} \cup {1} \cup {c}, sym(t.scopes[c].level), g)
    BY <2>1, <1>2, <1>3, <1>5, AddSymbolPlaced DEF Kinds, k
  <2>3. {} \cup {1} \cup {c} = {1, c}
    OBVIOUS
  <2> HIDE DEF glob
  <2> QED BY <2>2, <2>3, <1>0, <1>2, <1>5 DEF c, g
<1>6. CASE ~AlsoGlobal(t, sclass)
  <2>1. Placed(t, AddSymbol(list, c, k), n, {} \cup {c}, sym(t.scopes[c].level), g)
    BY <1>3, <1>4, AddSymbolPlaced DEF Kinds, k
  <2>2. {} \cup {c} = {c} /\ glob = list
    BY <1>6
  <2> HIDE DEF glob
  <2> QED BY <2>1, <2>2, <1>0, <1>2, <1>6 DEF c, g
<1> QED BY <1>5, <1>6

\* AddFunction: one new function, in the file's scope and in the current one
LEMMA AddFunctionPlaced ==
  ASSUME NEW t \in Tables, NEW n \in Names, NEW sclass \in Classes, Len(t.scopes) > 0
  PROVE  Placed(t, AddFunction(t, n, sclass), n, {1, Current(t)},
                Fresh("Function", n, sclass, t.scopes[1].level), FALSE)
<1> DEFINE new == NewSymbol(t, "Function", n, sclass)
           s == Newest(new)
           c == Current(t)
           k == Len(t.symbols) + 1
           loc == IF c # 1 THEN AddSymbol(new, c, s) ELSE new
           sym(level) == Fresh("Function", n, sclass, level)
<1>0. AddFunction(t, n, sclass) = AddSymbol(loc, 1, s)
  BY DEF AddFunction
<1>1. Placed(t, new, n, {}, sym(0), FALSE)
  BY NewSymbolPlaced DEF Kinds
<1>2. s = k
  BY <1>1, NewestPlaced
<1>3. c \in 1..Len(t.scopes) /\ 1 \in 1..Len(t.scopes)
  BY TableFields DEF Current
<1> HIDE DEF new, s, c, k
<1>4. CASE c # 1
  <2>1. Placed(t, AddSymbol(new, c, k), n, {} \cup {c}, sym(t.scopes[c].level), FALSE)
    BY <1>1, <1>3, AddSymbolPlaced DEF Kinds, k
  <2>2. Placed(t, AddSymbol(loc, 1, k), n, {} \cup {c} \cup {1}, sym(t.scopes[1].level), FALSE)
    BY <2>1, <1>2, <1>3, <1>4, AddSymbolPlaced DEF Kinds, k
  <2>3. {} \cup {c} \cup {1} = {1, c}
    OBVIOUS
  <2> HIDE DEF loc
  <2> QED BY <2>2, <2>3, <1>0, <1>2 DEF c
<1>5. CASE c = 1
  <2>1. Placed(t, AddSymbol(loc, 1, k), n, {} \cup {1}, sym(t.scopes[1].level), FALSE)
    BY <1>1, <1>3, <1>5, AddSymbolPlaced DEF Kinds, k
  <2>2. {} \cup {1} = {1, c}
    BY <1>5
  <2> HIDE DEF loc
  <2> QED BY <2>1, <2>2, <1>0, <1>2 DEF c
<1> QED BY <1>4, <1>5

\* u is t but for its tags, which keep their kinds
Retagged(t, u) ==
  /\ u \in Tables /\ SameScopes(t, u) /\ SameLists(t, u) /\ u.rejected = t.rejected
  /\ u.symbols = t.symbols /\ Len(u.tags) = Len(t.tags)
  /\ \A s \in 1..Len(t.tags) : u.tags[s].categ = t.tags[s].categ

\* A change to a tag that leaves its category alone
LEMMA TagChanges ==
  ASSUME NEW t \in Tables, NEW s \in 1..Len(t.tags), NEW a \in TagSet, a.categ = t.tags[s].categ
  PROVE  LET u == [t EXCEPT !.tags = [t.tags EXCEPT ![s] = a]]
         IN  Retagged(t, u) /\ u.tags[s] = a
<1> DEFINE u == [t EXCEPT !.tags = [t.tags EXCEPT ![s] = a]]
<1>1. /\ [t.tags EXCEPT ![s] = a] \in Seq(TagSet)
      /\ Len([t.tags EXCEPT ![s] = a]) = Len(t.tags)
      /\ \A j \in 1..Len(t.tags) : [t.tags EXCEPT ![s] = a][j] = IF j = s THEN a ELSE t.tags[j]
  BY TableFields, ExceptSeq
<1>2. /\ u \in Tables /\ u.tags = [t.tags EXCEPT ![s] = a] /\ u.symbols = t.symbols
      /\ u.scopes = t.scopes /\ u.saved = t.saved /\ u.Level = t.Level /\ u.Globals = t.Globals
      /\ u.functions = t.functions /\ u.FSYM = t.FSYM /\ u.rejected = t.rejected
  BY <1>1 DEF Tables
<1> HIDE DEF u
<1>3. u.tags[s] = a /\ Len(u.tags) = Len(t.tags) /\ \A j \in 1..Len(t.tags) : u.tags[j].categ = t.tags[j].categ
  BY <1>1, <1>2
<1>4. Retagged(t, u)
  BY <1>2, <1>3 DEF Retagged, SameScopes, SameLists
<1> QED BY <1>3, <1>4 DEF u

\* A lookup of a tag changes no more than the level of what it finds
LEMMA LookupTagChanges ==
  ASSUME NEW t \in Tables, NEW n \in TagNames,
         \A i \in 1..Len(t.scopes) : t.scopes[i].tags[n] # 0 => t.scopes[i].tags[n] \in 1..Len(t.tags)
  PROVE  LET s == Found(t, "tags", n)
             u == LookedUpTag(t, n)
         IN  /\ Retagged(t, u)
             /\ s # 0 => /\ s \in 1..Len(t.tags)
                         /\ u.tags[s].complete = t.tags[s].complete
                         /\ u.tags[s].level = t.scopes[FoundIn(t, "tags", n)].level
<1> DEFINE s == Found(t, "tags", n)
           f == FoundIn(t, "tags", n)
           u == LookedUpTag(t, n)
<1>1. CASE s = 0
  <2>1. u = t
    BY <1>1 DEF LookedUpTag
  <2> HIDE DEF s, u
  <2> QED BY <2>1, <1>1 DEF Retagged, SameScopes, SameLists, s, u
<1>2. CASE s # 0
  <2>1. f \in 1..Len(t.scopes) /\ s = t.scopes[f].tags[n]
    BY <1>2, TableFields, LookupFinds
  <2>2. s \in 1..Len(t.tags)
    BY <1>2, <2>1
  <2> DEFINE z == t.scopes[f].level
             a == [t.tags[s] EXCEPT !.level = z]
  <2>3. z \in Nat /\ t.tags[s] \in TagSet
    <3>1. t.scopes[f] \in ScopeSet
      BY <2>1, TableFields
    <3> QED BY <2>2, <3>1, TableFields DEF ScopeSet
  <2>4. u = [t EXCEPT !.tags = [t.tags EXCEPT ![s] = a]]
    BY <1>2 DEF LookedUpTag
  <2> HIDE DEF z
  <2>5. a \in TagSet /\ a.categ = t.tags[s].categ /\ a.complete = t.tags[s].complete /\ a.level = z
    <3> HIDE DEF s
    <3> QED BY <2>3 DEF TagSet
  <2> HIDE DEF s, a, u, f
  <2>6. Retagged(t, u) /\ u.tags[s] = a
    BY <2>2, <2>4, <2>5, TagChanges
  <2> QED BY <2>2, <2>5, <2>6 DEF s, u, f, z
<1> QED BY <1>1, <1>2

\* u is t with a new tag of name n in the current scope
TagPlaced(t, u, n, categ) ==
  /\ u \in Tables /\ SameLists(t, u) /\ u.rejected = t.rejected /\ u.symbols = t.symbols
  /\ u.saved = t.saved /\ u.Level = t.Level
  /\ Len(u.tags) = Len(t.tags) + 1 /\ u.tags[Len(t.tags) + 1].categ = categ
  /\ \A s \in 1..Len(t.tags) : u.tags[s] = t.tags[s]
  /\ Len(u.scopes) = Len(t.scopes)
  /\ \A i \in 1..Len(t.scopes) :
       /\ u.scopes[i].level = t.scopes[i].level /\ u.scopes[i].ids = t.scopes[i].ids
       /\ \A m \in TagNames : u.scopes[i].tags[m] = IF i = Len(t.scopes) /\ m = n THEN Len(t.tags) + 1
                                                    ELSE t.scopes[i].tags[m]

\* AddTag: one new tag, in the current scope
LEMMA AddTagPlaced ==
  ASSUME NEW t \in Tables, NEW n \in TagNames, NEW categ \in {"struct", "enum"},
         NEW complete \in BOOLEAN, Len(t.scopes) > 0
  PROVE  TagPlaced(t, AddTag(t, n, categ, complete), n, categ)
<1> DEFINE s == Len(t.tags) + 1
           c == Len(t.scopes)
           z == Last(t.scopes).level
           a == [categ |-> categ, level |-> z, complete |-> complete]
           b == [t.scopes[c] EXCEPT !.tags[n] = s]
           u == AddTag(t, n, categ, complete)
<1>1. s \in Nat /\ c \in 1..Len(t.scopes) /\ t.scopes[c] \in ScopeSet /\ z = t.scopes[c].level
  BY TableFields DEF Last
<1>2. z \in Nat
  BY <1>1 DEF ScopeSet
<1>3. a \in TagSet /\ a.categ = categ
  <2> HIDE DEF z
  <2> QED BY <1>2 DEF TagSet
<1>4. u = [t EXCEPT !.tags = Append(t.tags, a), !.scopes = [t.scopes EXCEPT ![c] = b]]
  BY DEF AddTag
<1> HIDE DEF a, z
<1>5. /\ b \in ScopeSet /\ b.level = t.scopes[c].level /\ b.ids = t.scopes[c].ids
      /\ \A m \in TagNames : b.tags[m] = IF m = n THEN s ELSE t.scopes[c].tags[m]
  <2> HIDE DEF s, c
  <2> QED BY <1>1 DEF ScopeSet
<1> HIDE DEF b, c, u
<1>6. /\ [t.scopes EXCEPT ![c] = b] \in Seq(ScopeSet)
      /\ Len([t.scopes EXCEPT ![c] = b]) = Len(t.scopes)
      /\ \A j \in 1..Len(t.scopes) : [t.scopes EXCEPT ![c] = b][j] = IF j = c THEN b ELSE t.scopes[j]
  BY <1>1, <1>5, TableFields, ExceptSeq
<1>7. /\ Append(t.tags, a) \in Seq(TagSet) /\ Len(Append(t.tags, a)) = s /\ Append(t.tags, a)[s] = a
      /\ \A i \in 1..Len(t.tags) : Append(t.tags, a)[i] = t.tags[i]
  BY <1>3, TableFields, AppendProperties
<1> HIDE DEF s
<1>8. /\ u \in Tables /\ u.tags = Append(t.tags, a) /\ u.scopes = [t.scopes EXCEPT ![c] = b]
      /\ u.symbols = t.symbols /\ u.saved = t.saved /\ u.Level = t.Level /\ u.Globals = t.Globals
      /\ u.functions = t.functions /\ u.FSYM = t.FSYM /\ u.rejected = t.rejected
  BY <1>4, <1>6, <1>7 DEF Tables
<1>9. Len(u.tags) = s /\ u.tags[s].categ = categ /\ \A i \in 1..Len(t.tags) : u.tags[i] = t.tags[i]
  BY <1>3, <1>7, <1>8
<1>10. /\ Len(u.scopes) = Len(t.scopes)
       /\ \A i \in 1..Len(t.scopes) :
            /\ u.scopes[i].level = t.scopes[i].level /\ u.scopes[i].ids = t.scopes[i].ids
            /\ \A m \in TagNames : u.scopes[i].tags[m] = IF i = c /\ m = n THEN s
                                                         ELSE t.scopes[i].tags[m]
  BY <1>5, <1>6, <1>8
<1> QED BY <1>8, <1>9, <1>10 DEF TagPlaced, SameLists, s, c, u

-----------------------------------------------------------------------------
(* What keeps the invariant.                                                *)

\* u is t but for fields of symbols other than their kinds and names
Retouched(t, u) ==
  /\ u \in Tables /\ SameScopes(t, u) /\ SameTags(t, u) /\ u.Globals = t.Globals
  /\ u.functions \subseteq 1..Len(t.symbols) /\ u.FSYM \in 0..Len(t.symbols)
  /\ Len(u.symbols) = Len(t.symbols)
  /\ \A s \in 1..Len(t.symbols) : /\ u.symbols[s].kind = t.symbols[s].kind
                                  /\ u.symbols[s].name = t.symbols[s].name

\* What a table that mirrors an environment has in common with it
LEMMA NamedTables ==
  ASSUME NEW t, NEW e, Framed(t, e), Named(t)
  PROVE  /\ t \in Tables /\ Len(t.scopes) = Len(e) /\ Len(e) \in Nat /\ Len(e) > 0
         /\ t.Level = Len(e) - 1
         /\ \A i \in 1..Len(e) : /\ t.scopes[i].level = i - 1 /\ NamedIn(t, t.scopes[i])
                                 /\ \A n \in Names : t.scopes[i].ids[n] \in Nat
<1>1. /\ t \in Tables /\ Len(t.scopes) = Len(e) /\ Len(e) \in Nat /\ Len(e) > 0 /\ t.Level = Len(e) - 1
      /\ \A i \in 1..Len(e) : t.scopes[i].level = i - 1 /\ NamedIn(t, t.scopes[i])
  BY DEF Framed, Named
<1>2. \A i \in 1..Len(e) : t.scopes[i] \in ScopeSet
  BY <1>1, TableFields
<1> QED BY <1>1, <1>2 DEF ScopeSet

\* Changes to symbols already there keep names, tags and positions
LEMMA RetouchedKeeps ==
  ASSUME NEW t, NEW u, NEW e, Framed(t, e), Named(t), TagsAgree(t, e), InNoOther(t, e), Retouched(t, u)
  PROVE  /\ Framed(u, e) /\ Named(u) /\ TagsAgree(u, e) /\ InNoOther(u, e)
         /\ \A sc \in ScopeSet : NamedIn(t, sc) => NamedIn(u, sc)
<1>1. Framed(u, e)
  BY DEF Framed, Retouched, SameScopes
<1>2. \A sc \in ScopeSet : NamedIn(t, sc) => NamedIn(u, sc)
  BY DEF NamedIn, Retouched
<1>3. Named(u)
  <2>1. ASSUME NEW i \in 1..Len(u.scopes) PROVE NamedIn(u, u.scopes[i])
    <3> DEFINE sc == t.scopes[i]
    <3>1. NamedIn(t, sc) /\ u.scopes[i] = sc
      BY DEF Named, Retouched, SameScopes
    <3> HIDE DEF sc
    <3>2. NamedIn(u, sc)
      BY <3>1 DEF NamedIn, Retouched
    <3> QED BY <3>1, <3>2
  <2>2. Objects(u) = Objects(t)
    BY DEF Objects, Retouched
  <2> QED BY <2>1, <2>2 DEF Named, Retouched
<1>4. TagsAgree(u, e)
  BY DEF TagsAgree, TagsIn, Retouched, SameTags, SameScopes
<1>5. InNoOther(u, e)
  BY DEF InNoOther, Retouched, SameScopes
<1> QED BY <1>1, <1>2, <1>3, <1>4, <1>5

\* ... and, when no storage class changes, what is declared without linkage
LEMMA ClassesKept ==
  ASSUME NEW t, NEW u, NEW e, Framed(t, e), Named(t), OwnAgree(t, e), Inner(t, e), Retouched(t, u),
         \A s \in 1..Len(t.symbols) : u.symbols[s].sclass = t.symbols[s].sclass
  PROVE  OwnAgree(u, e) /\ Inner(u, e)
<1>1. \A i \in 1..Len(e), n \in Names : t.scopes[i].ids[n] # 0 => t.scopes[i].ids[n] \in 1..Len(t.symbols)
  BY NamedTables DEF NamedIn
<1>2. u.scopes = t.scopes
  BY DEF Retouched, SameScopes
<1>3. OwnAgree(u, e)
  <2> SUFFICES ASSUME NEW i \in 1..Len(e), NEW n \in Names, Own(e[i].ids[n])
               PROVE  /\ e[i].ids[n].kind \in OwnKinds /\ e[i].ids[n].id # 0
                      /\ t.scopes[i].ids[n] = e[i].ids[n].id
                      /\ StandsFor(u.symbols[t.scopes[i].ids[n]], e[i].ids[n].kind)
    BY <1>2 DEF OwnAgree, OwnIn
  <2>1. /\ e[i].ids[n].kind \in OwnKinds /\ e[i].ids[n].id # 0
        /\ t.scopes[i].ids[n] = e[i].ids[n].id
        /\ StandsFor(t.symbols[t.scopes[i].ids[n]], e[i].ids[n].kind)
    BY DEF OwnAgree, OwnIn
  <2>2. t.scopes[i].ids[n] \in 1..Len(t.symbols)
    BY <1>1, <2>1
  <2> QED BY <2>1, <2>2 DEF StandsFor, Retouched
<1>4. Inner(u, e)
  <2> SUFFICES ASSUME NEW i \in 2..Len(e), NEW n \in Names
               PROVE  /\ ~Bound(e[i].ids[n]) => t.scopes[i].ids[n] = 0
                      /\ e[i].ids[n].kind = "object" =>
                           /\ t.scopes[i].ids[n] # 0
                           /\ u.symbols[t.scopes[i].ids[n]].kind = "Variable"
                           /\ u.symbols[t.scopes[i].ids[n]].sclass = "extern"
    BY <1>2 DEF Inner
  <2>1. t.scopes[i].ids[n] # 0 => t.scopes[i].ids[n] \in 1..Len(t.symbols)
    BY <1>1, NamedTables
  <2> QED BY <2>1 DEF Inner, Retouched
<1> QED BY <1>3, <1>4

\* A plain name of linkage is in no table but the file's, among the linked
LEMMA PlainInFileOnly ==
  ASSUME NEW t, NEW e, NEW l, Framed(t, e), OwnAgree(t, e), InNoOther(t, e), Inner(t, e),
         LinkedAgree(e, l), NEW n \in Names, l[n].plain, NEW j \in 1..Len(e), t.scopes[1].ids[n] # 0,
         t.scopes[j].ids[n] = t.scopes[1].ids[n]
  PROVE  j = 1
<1> SUFFICES ASSUME j # 1 PROVE FALSE
  OBVIOUS
<1>1. j \in 2..Len(e) /\ 1 \in 1..Len(e)
  BY DEF Framed
<1>2. Bound(e[j].ids[n])
  BY <1>1 DEF Inner
<1>3. ~HasLinkage(e[j].ids[n])
  BY <1>1 DEF LinkedAgree
<1>4. t.scopes[j].ids[n] = e[j].ids[n].id
  BY <1>2, <1>3 DEF OwnAgree, OwnIn, Own
<1> QED BY <1>1, <1>2, <1>3, <1>4 DEF InNoOther, Own

\* Every lookup keeps the invariant: it writes the level a symbol already
\* has, or that of a declaration of its own scope
LEMMA LookupKeeps ==
  ASSUME NEW t, NEW e, NEW l, TabInv(t, e, l), NEW n \in Names
  PROVE  TabInv(LookedUpID(t, n), e, l) /\ Relevelled(t, LookedUpID(t, n), n)
<1> DEFINE u == LookedUpID(t, n)
           s == Found(t, "ids", n)
           f == FoundIn(t, "ids", n)
<1> USE DEF TabInv
<1>1. /\ t \in Tables /\ Len(t.scopes) = Len(e) /\ Len(e) \in Nat /\ Len(e) > 0 /\ t.Level = Len(e) - 1
      /\ \A i \in 1..Len(e) : /\ t.scopes[i].level = i - 1 /\ NamedIn(t, t.scopes[i])
                              /\ \A m \in Names : t.scopes[i].ids[m] \in Nat
  BY NamedTables
<1>2. Relevelled(t, u, n)
  BY <1>1, LookupChanges
<1>3. s # 0 => f \in 1..Len(e) /\ s = t.scopes[f].ids[n] /\ s \in 1..Len(t.symbols)
  <2>1. s # 0 => f \in 1..Len(e) /\ s = t.scopes[f].ids[n]
    BY <1>1, LookupFinds
  <2> QED BY <2>1, <1>1 DEF NamedIn
<1> HIDE DEF u, s, f
<1>4. \A k \in 1..Len(t.symbols) :
        /\ SameButLevel(t.symbols[k], u.symbols[k])
        /\ u.symbols[k].level = IF k = s /\ k # 0 THEN f - 1 ELSE t.symbols[k].level
  BY <1>1, <1>2, <1>3 DEF Relevelled, s, f
<1>5. /\ Retouched(t, u) /\ u.rejected = t.rejected /\ u.functions = t.functions /\ u.scopes = t.scopes
      /\ Objects(u) = Objects(t) /\ Len(u.symbols) = Len(t.symbols)
  BY <1>2 DEF Relevelled, Retouched, Named, SameButLevel, SameLists, SameScopes, Objects
<1>6. Framed(u, e) /\ Named(u) /\ TagsAgree(u, e) /\ InNoOther(u, e) /\ OwnAgree(u, e) /\ Inner(u, e)
  BY <1>4, <1>5, RetouchedKeeps, ClassesKept DEF SameButLevel
<1>7. Deep(u, e)
  <2> SUFFICES ASSUME NEW i \in 2..Len(e), NEW m \in Names, Own(e[i].ids[m])
               PROVE  u.symbols[e[i].ids[m].id].level > 0
    BY DEF Deep, DeepIn
  <2>1. e[i].ids[m].id = t.scopes[i].ids[m] /\ e[i].ids[m].id # 0
    BY DEF OwnAgree, OwnIn
  <2> DEFINE k == e[i].ids[m].id
  <2>2. k \in 1..Len(t.symbols) /\ t.symbols[k].name = m
    BY <1>1, <2>1 DEF NamedIn
  <2>3. CASE k = s
    <3>1. m = n
      BY <1>1, <1>3, <2>2, <2>3 DEF NamedIn
    <3>2. f = i
      BY <1>3, <2>1, <2>3, <3>1 DEF InNoOther
    <3> QED BY <1>4, <2>2, <2>3, <3>2
  <2>4. CASE k # s
    BY <1>4, <2>2, <2>4 DEF Deep, DeepIn
  <2> QED BY <2>3, <2>4
<1>8. ASSUME NEW m \in Names, l[m].plain, NEW k, k = t.scopes[1].ids[m], k # 0, k = s
      PROVE  m = n /\ f = 1
  <2>0. 1 \in 1..Len(e)
    BY <1>1
  <2>1. m = n
    <3>1. t.symbols[k].name = m
      <4>1. NamedIn(t, t.scopes[1])
        BY <1>1, <2>0
      <4> QED BY <1>8, <4>1 DEF NamedIn
    <3>2. t.symbols[s].name = n
      BY <1>1, <1>3, <1>8 DEF NamedIn
    <3> QED BY <1>8, <3>1, <3>2
  <2> QED BY <1>3, <1>8, <2>1, PlainInFileOnly
<1>9. FileAgree(u, e, l)
  <2> SUFFICES ASSUME NEW m \in Names
               PROVE  LET k == t.scopes[1].ids[m]
                      IN  /\ l[m].kind = "unbound" /\ ~Bound(e[1].ids[m]) => k = 0
                          /\ HasLinkage(e[1].ids[m]) => k # 0
                          /\ l[m].kind = "object" /\ k # 0 => ObjectRecord(u, k, l[m])
                          /\ l[m].kind = "function" /\ k # 0 => FunctionRecord(u, k, l[m])
    BY <1>5 DEF FileAgree
  <2> DEFINE k == t.scopes[1].ids[m]
  <2>1. k # 0 => k \in 1..Len(t.symbols)
    BY <1>1 DEF NamedIn
  <2>2. k # 0 /\ l[m].plain => u.symbols[k].level = IF k = s THEN 0 ELSE t.symbols[k].level
    BY <1>4, <1>8, <2>1
  <2>3. k # 0 => SameButLevel(t.symbols[k], u.symbols[k])
    BY <1>4, <2>1
  <2>4. /\ l[m].kind = "unbound" /\ ~Bound(e[1].ids[m]) => k = 0
        /\ HasLinkage(e[1].ids[m]) => k # 0
        /\ l[m].kind = "object" /\ k # 0 => ObjectRecord(t, k, l[m])
        /\ l[m].kind = "function" /\ k # 0 => FunctionRecord(t, k, l[m])
    BY DEF FileAgree
  <2>5. l[m].kind = "object" /\ k # 0 => ObjectRecord(u, k, l[m])
    BY <1>5, <2>2, <2>3, <2>4 DEF ObjectRecord, SameButLevel
  <2>6. l[m].kind = "function" /\ k # 0 => FunctionRecord(u, k, l[m])
    BY <1>5, <2>3, <2>4 DEF FunctionRecord, SameButLevel
  <2> QED BY <2>4, <2>5, <2>6
<1>10. Sole(u, l)
  <2>1. \A k \in 1..Len(t.symbols) : u.symbols[k].name = t.symbols[k].name
    BY <1>4 DEF SameButLevel
  <2>2. ASSUME NEW k \in 1..Len(t.symbols), u.symbols[k].level = 0, l[t.symbols[k].name].plain
        PROVE  t.scopes[1].ids[t.symbols[k].name] = k
    <3>1. CASE k = s
      <4>1. f = 1 /\ t.scopes[1].ids[n] = k /\ 1 \in 1..Len(e)
        BY <1>1, <1>3, <1>4, <2>2, <3>1
      <4>2. t.symbols[k].name = n
        BY <4>1, <1>1, <1>3, <3>1 DEF NamedIn
      <4> QED BY <4>1, <4>2
    <3>2. CASE k # s
      BY <1>4, <2>2, <3>2 DEF Sole
    <3> QED BY <3>1, <3>2
  <2>3. t.functions \subseteq 1..Len(t.symbols)
    BY DEF Named
  <2> QED BY <1>5, <2>1, <2>2, <2>3 DEF Sole
<1> QED BY <1>2, <1>5, <1>6, <1>7, <1>9, <1>10 DEF u

\* e with another binding of n in scope c, and with another tag
Rebound(e, f, c, n, x) ==
  /\ f \in Seq(CScopes) /\ Len(f) = Len(e)
  /\ \A i \in 1..Len(e) :
       /\ f[i].tags = e[i].tags
       /\ \A m \in Names : f[i].ids[m] = IF i = c /\ m = n THEN x ELSE e[i].ids[m]
Retied(e, f, n, x) ==
  /\ f \in Seq(CScopes) /\ Len(f) = Len(e)
  /\ \A i \in 1..Len(e) :
       /\ f[i].ids = e[i].ids
       /\ \A m \in TagNames : f[i].tags[m] = IF i = Len(e) /\ m = n THEN x ELSE e[i].tags[m]

\* The scopes of an environment and their fields
LEMMA ScopeFields ==
  ASSUME NEW e \in Seq(CScopes)
  PROVE  /\ Len(e) \in Nat
         /\ \A i \in 1..Len(e) : /\ e[i] \in CScopes
                                 /\ e[i].ids \in [Names -> Entities] /\ e[i].tags \in [TagNames -> Entities]
<1>1. Len(e) \in Nat /\ \A i \in 1..Len(e) : e[i] \in CScopes
  BY ElementOfSeq, LenProperties
<1> QED BY <1>1 DEF CScopes

\* Binding an identifier in the innermost scope changes nothing else
LEMMA BindIds ==
  ASSUME NEW e \in Seq(CScopes), Len(e) > 0, NEW n \in Names, NEW x \in Entities
  PROVE  Rebound(e, Bind(e, "ids", n, x), Len(e), n, x)
<1> DEFINE c == Len(e)
           b == [e[c] EXCEPT !.ids = [e[c].ids EXCEPT ![n] = x]]
           f == Bind(e, "ids", n, x)
<1>1. c \in 1..Len(e) /\ e[c] \in CScopes
  BY ScopeFields
<1>2. /\ b \in CScopes /\ b.tags = e[c].tags
      /\ \A m \in Names : b.ids[m] = IF m = n THEN x ELSE e[c].ids[m]
  <2> HIDE DEF c
  <2> QED BY <1>1 DEF CScopes
<1>3. f = [e EXCEPT ![c] = b]
  BY DEF Bind
<1> HIDE DEF c, b, f
<1>4. /\ f \in Seq(CScopes) /\ Len(f) = Len(e)
      /\ \A i \in 1..Len(e) : f[i] = IF i = c THEN b ELSE e[i]
  BY <1>1, <1>2, <1>3, ExceptSeq
<1> QED BY <1>2, <1>4 DEF Rebound, c, f

\* Binding a tag in the innermost scope changes nothing else
LEMMA BindTags ==
  ASSUME NEW e \in Seq(CScopes), Len(e) > 0, NEW n \in TagNames, NEW x \in Entities
  PROVE  Retied(e, Bind(e, "tags", n, x), n, x)
<1> DEFINE c == Len(e)
           b == [e[c] EXCEPT !.tags = [e[c].tags EXCEPT ![n] = x]]
           f == Bind(e, "tags", n, x)
<1>1. c \in 1..Len(e) /\ e[c] \in CScopes
  BY ScopeFields
<1>2. /\ b \in CScopes /\ b.ids = e[c].ids
      /\ \A m \in TagNames : b.tags[m] = IF m = n THEN x ELSE e[c].tags[m]
  <2> HIDE DEF c
  <2> QED BY <1>1 DEF CScopes
<1>3. f = [e EXCEPT ![c] = b]
  BY DEF Bind
<1> HIDE DEF c, b, f
<1>4. /\ f \in Seq(CScopes) /\ Len(f) = Len(e)
      /\ \A i \in 1..Len(e) : f[i] = IF i = c THEN b ELSE e[i]
  BY <1>1, <1>2, <1>3, ExceptSeq
<1> QED BY <1>2, <1>4 DEF Retied, c, f

\* An entity's fields
LEMMA EntityFields ==
  ASSUME NEW kind, NEW link, NEW id
  PROVE  LET x == Entity(kind, link, id)
         IN  /\ x.kind = kind /\ x.link = link /\ x.id = id
             /\ kind # "unbound" => Bound(x)
             /\ HasLinkage(x) <=> link # "none"
<1>1. Entity(kind, link, id).kind = kind /\ Entity(kind, link, id).link = link /\ Entity(kind, link, id).id = id
  BY DEF Entity
<1>2. Unbound.kind = "unbound"
  BY DEF Unbound
<1> QED BY <1>1, <1>2 DEF Bound, HasLinkage

\* Unbound is not bound and has no linkage
LEMMA UnboundFields ==
  Unbound.kind = "unbound" /\ Unbound.link = "none" /\ Unbound.id = 0 /\ ~Bound(Unbound) /\ ~HasLinkage(Unbound)
BY DEF Unbound, Bound, HasLinkage

\* A declaration without linkage in the current scope
LEMMA OwnKeeps ==
  ASSUME NEW t, NEW e, NEW l, TabInv(t, e, l), NEW n \in Names, NEW kind \in OwnKinds,
         NEW sclass, NEW g \in BOOLEAN, NEW u, NEW f,
         Placed(t, u, n, {Len(e)}, Fresh(SymbolKind[kind], n, sclass, Len(e) - 1), g),
         Rebound(e, f, Len(e), n, Entity(kind, "none", Len(t.symbols) + 1)),
         ~Bound(e[Len(e)].ids[n]),
         kind \in {"auto", "static"} => sclass = kind,
         g => kind \in {"auto", "static"},
         Len(e) = 1 => kind \in {"typedef", "enum"} /\ l[n].kind = "unbound"
  PROVE  TabInv(u, f, l)
<1> DEFINE c == Len(e)
           k == Len(t.symbols) + 1
           x == Entity(kind, "none", k)
           sym == Fresh(SymbolKind[kind], n, sclass, c - 1)
<1> USE DEF TabInv
<1>1. /\ t \in Tables /\ Len(t.scopes) = c /\ c \in Nat /\ c > 0 /\ t.Level = c - 1
      /\ Len(t.symbols) \in Nat
      /\ \A i \in 1..c : /\ t.scopes[i].level = i - 1 /\ NamedIn(t, t.scopes[i])
                         /\ \A m \in Names : t.scopes[i].ids[m] \in Nat
  BY NamedTables, TableFields
<1>2. /\ x.kind = kind /\ x.id = k /\ Bound(x) /\ ~HasLinkage(x) /\ Own(x) /\ kind \notin LinkedKinds
  BY EntityFields DEF OwnKinds, Own, LinkedKinds
<1>3. /\ sym.kind = SymbolKind[kind] /\ sym.name = n /\ sym.sclass = sclass /\ sym.level = c - 1
      /\ StandsFor(sym, kind)
      /\ kind \in {"auto", "static"} => SymbolKind[kind] = "Variable"
  BY DEF Fresh, StandsFor, SymbolKind
<1> HIDE DEF x, sym
<1>4. /\ u \in Tables /\ u.tags = t.tags /\ u.rejected = t.rejected /\ u.saved = t.saved
      /\ u.Level = t.Level /\ u.functions = t.functions /\ u.FSYM = t.FSYM
      /\ Objects(u) = IF g THEN Objects(t) \cup {k} ELSE Objects(t)
      /\ Len(u.symbols) = k /\ u.symbols[k] = sym /\ Len(u.scopes) = c
      /\ \A s \in 1..Len(t.symbols) : u.symbols[s] = t.symbols[s]
      /\ \A i \in 1..c :
           /\ u.scopes[i].level = t.scopes[i].level /\ u.scopes[i].tags = t.scopes[i].tags
           /\ \A m \in Names : u.scopes[i].ids[m] = IF i = c /\ m = n THEN k ELSE t.scopes[i].ids[m]
  BY <1>1 DEF Placed, SameTags, sym
<1>5. /\ f \in Seq(CScopes) /\ Len(f) = c
      /\ \A i \in 1..c :
           /\ f[i].tags = e[i].tags
           /\ \A m \in Names : f[i].ids[m] = IF i = c /\ m = n THEN x ELSE e[i].ids[m]
  BY DEF Rebound, x
<1>6. \A i \in 1..c, m \in Names : t.scopes[i].ids[m] # 0 =>
         t.scopes[i].ids[m] \in 1..Len(t.symbols) /\ t.symbols[t.scopes[i].ids[m]].name = m
  BY <1>1 DEF NamedIn
<1> HIDE DEF k, c
<1>7. k \in Nat /\ k > 0 /\ k \notin 1..Len(t.symbols) /\ 1..k = 1..Len(t.symbols) \cup {k}
  BY <1>1 DEF k
<1>8. c \in 1..c /\ 1 \in 1..c
  BY <1>1
<1>19. u.scopes[c].ids[n] = k /\ f[c].ids[n] = x
  BY <1>4, <1>5, <1>8
<1>20. \A i \in 1..c, m \in Names :
         ~(i = c /\ m = n) => u.scopes[i].ids[m] = t.scopes[i].ids[m] /\ f[i].ids[m] = e[i].ids[m]
  BY <1>4, <1>5
<1>21. \A i \in 1..c, m \in Names : t.scopes[i].ids[m] # 0 =>
         /\ t.scopes[i].ids[m] # k
         /\ u.symbols[t.scopes[i].ids[m]] = t.symbols[t.scopes[i].ids[m]]
  BY <1>4, <1>6, <1>7
<1>9. Framed(u, f)
  BY <1>1, <1>4, <1>5 DEF Framed
<1>10. Named(u)
  <2>1. ASSUME NEW i \in 1..c, NEW m \in Names, u.scopes[i].ids[m] # 0
        PROVE  u.scopes[i].ids[m] \in 1..k /\ u.symbols[u.scopes[i].ids[m]].name = m
    <3>1. CASE i = c /\ m = n
      BY <1>3, <1>4, <1>7, <1>19, <3>1
    <3>2. CASE ~(i = c /\ m = n)
      <4>1. u.scopes[i].ids[m] = t.scopes[i].ids[m]
        BY <1>20, <3>2
      <4>2. t.scopes[i].ids[m] \in 1..Len(t.symbols) /\ t.symbols[t.scopes[i].ids[m]].name = m
        BY <1>6, <2>1, <4>1
      <4>3. u.symbols[t.scopes[i].ids[m]] = t.symbols[t.scopes[i].ids[m]]
        BY <1>21, <2>1, <4>1
      <4> QED BY <1>7, <4>1, <4>2, <4>3
    <3> QED BY <3>1, <3>2
  <2>2. \A i \in 1..Len(u.scopes) : NamedIn(u, u.scopes[i])
    BY <1>4, <2>1 DEF NamedIn
  <2>3. \A s \in Objects(u) : s \in 1..k /\ u.symbols[s].kind = "Variable"
    BY <1>3, <1>4, <1>7 DEF Named
  <2>4. u.functions \subseteq 1..k /\ u.FSYM \in 0..k
    BY <1>1, <1>4, <1>7 DEF Named
  <2> QED BY <1>4, <2>2, <2>3, <2>4 DEF Named
<1>11. TagsAgree(u, f)
  <2> SUFFICES ASSUME NEW i \in 1..c, NEW m \in TagNames
               PROVE  /\ u.scopes[i].tags[m] = f[i].tags[m].id /\ ~HasLinkage(f[i].tags[m])
                      /\ Bound(f[i].tags[m]) => /\ u.scopes[i].tags[m] \in 1..Len(u.tags)
                                                /\ u.tags[u.scopes[i].tags[m]].categ = f[i].tags[m].kind
    BY <1>5 DEF TagsAgree, TagsIn
  <2>1. u.scopes[i].tags = t.scopes[i].tags /\ f[i].tags = e[i].tags /\ u.tags = t.tags
    BY <1>4, <1>5
  <2> QED BY <2>1 DEF TagsAgree, TagsIn, c
<1>12. OwnAgree(u, f)
  <2> SUFFICES ASSUME NEW i \in 1..c, NEW m \in Names, Own(f[i].ids[m])
               PROVE  /\ f[i].ids[m].kind \in OwnKinds /\ f[i].ids[m].id # 0
                      /\ u.scopes[i].ids[m] = f[i].ids[m].id
                      /\ StandsFor(u.symbols[u.scopes[i].ids[m]], f[i].ids[m].kind)
    BY <1>5 DEF OwnAgree, OwnIn
  <2>1. CASE i = c /\ m = n
    BY <1>2, <1>3, <1>4, <1>5, <1>7, <2>1
  <2>2. CASE ~(i = c /\ m = n)
    <3>1. f[i].ids[m] = e[i].ids[m] /\ u.scopes[i].ids[m] = t.scopes[i].ids[m]
      BY <1>4, <1>5, <2>2
    <3>2. /\ e[i].ids[m].kind \in OwnKinds /\ e[i].ids[m].id # 0
          /\ t.scopes[i].ids[m] = e[i].ids[m].id
          /\ StandsFor(t.symbols[t.scopes[i].ids[m]], e[i].ids[m].kind)
      BY <3>1 DEF OwnAgree, OwnIn, c
    <3> QED BY <1>21, <3>1, <3>2
  <2> QED BY <2>1, <2>2
<1>13. InNoOther(u, f)
  <2> SUFFICES ASSUME NEW i \in 1..c, NEW j \in 1..c, NEW m \in Names, Own(f[i].ids[m]), i # j
               PROVE  u.scopes[j].ids[m] # f[i].ids[m].id
    BY <1>5 DEF InNoOther
  <2>1. CASE i = c /\ m = n
    <3>1. u.scopes[j].ids[m] = t.scopes[j].ids[m] /\ f[i].ids[m].id = k
      BY <1>2, <1>19, <1>20, <2>1
    <3> QED BY <1>7, <1>21, <3>1
  <2>2. CASE j = c /\ m = n
    <3>1. f[i].ids[m] = e[i].ids[m] /\ u.scopes[j].ids[m] = k
      BY <1>4, <1>5, <2>2
    <3>2. e[i].ids[m].id \in 1..Len(t.symbols)
      BY <1>6, <3>1 DEF OwnAgree, OwnIn, c
    <3> QED BY <1>7, <3>1, <3>2
  <2>3. CASE ~(i = c /\ m = n) /\ ~(j = c /\ m = n)
    BY <1>4, <1>5, <2>3 DEF InNoOther, c
  <2> QED BY <2>1, <2>2, <2>3
<1>14. Deep(u, f)
  <2> SUFFICES ASSUME NEW i \in 2..c, NEW m \in Names, Own(f[i].ids[m])
               PROVE  u.symbols[f[i].ids[m].id].level > 0
    BY <1>5 DEF Deep, DeepIn
  <2>1. CASE i = c /\ m = n
    BY <1>1, <1>2, <1>3, <1>4, <1>5, <2>1
  <2>2. CASE ~(i = c /\ m = n)
    <3>1. f[i].ids[m] = e[i].ids[m] /\ i \in 1..c
      BY <1>5, <2>2
    <3>2. e[i].ids[m].id \in 1..Len(t.symbols)
      BY <1>6, <3>1 DEF OwnAgree, OwnIn, c
    <3>3. t.symbols[e[i].ids[m].id].level > 0
      BY <3>1 DEF Deep, DeepIn, c
    <3>4. u.symbols[e[i].ids[m].id] = t.symbols[e[i].ids[m].id]
      BY <1>4, <3>2
    <3> QED BY <3>1, <3>3, <3>4
  <2> QED BY <2>1, <2>2
<1>15. Inner(u, f)
  <2> SUFFICES ASSUME NEW i \in 2..c, NEW m \in Names
               PROVE  /\ ~Bound(f[i].ids[m]) => u.scopes[i].ids[m] = 0
                      /\ f[i].ids[m].kind = "object" =>
                           /\ u.scopes[i].ids[m] # 0
                           /\ u.symbols[u.scopes[i].ids[m]].kind = "Variable"
                           /\ u.symbols[u.scopes[i].ids[m]].sclass = "extern"
    BY <1>5 DEF Inner
  <2>1. CASE i = c /\ m = n
    BY <1>2, <1>5, <1>8, <2>1 DEF LinkedKinds
  <2>2. CASE ~(i = c /\ m = n)
    <3>1. /\ f[i].ids[m] = e[i].ids[m] /\ u.scopes[i].ids[m] = t.scopes[i].ids[m]
          /\ t.scopes[i].ids[m] # 0 => u.symbols[t.scopes[i].ids[m]] = t.symbols[t.scopes[i].ids[m]]
      BY <1>20, <1>21, <2>2
    <3> QED BY <3>1 DEF Inner, c
  <2> QED BY <2>1, <2>2
<1>16. LinkedAgree(f, l)
  <2>1. ASSUME NEW i \in 1..c, NEW m \in Names, HasLinkage(f[i].ids[m])
        PROVE  /\ f[i].ids[m].kind \in LinkedKinds /\ f[i].ids[m].kind = l[m].kind
               /\ f[i].ids[m].link = l[m].link
               /\ i > 1 => ~l[m].plain
    BY <1>2, <1>5, <2>1 DEF LinkedAgree, c
  <2>2. ASSUME NEW m \in Names
        PROVE  /\ l[m].kind = "unbound" => l[m] = NeverLinked
               /\ l[m].kind # "unbound" => l[m].link \in Links
               /\ l[m].kind # "unbound" /\ ~HasLinkage(f[1].ids[m]) => ~l[m].plain /\ ~Bound(f[1].ids[m])
               /\ Own(f[1].ids[m]) => f[1].ids[m].kind \in {"typedef", "enum"}
    <3>1. CASE 1 = c /\ m = n
      BY <1>2, <1>5, <1>8, <3>1 DEF LinkedAgree, c
    <3>2. CASE ~(1 = c /\ m = n)
      BY <1>5, <1>8, <3>2 DEF LinkedAgree
    <3> QED BY <3>1, <3>2
  <2> QED BY <1>5, <2>1, <2>2 DEF LinkedAgree
<1>17. FileAgree(u, f, l)
  <2> SUFFICES ASSUME NEW m \in Names
               PROVE  LET s == u.scopes[1].ids[m]
                      IN  /\ l[m].kind = "unbound" /\ ~Bound(f[1].ids[m]) => s = 0
                          /\ HasLinkage(f[1].ids[m]) => s # 0
                          /\ l[m].kind = "object" /\ s # 0 => ObjectRecord(u, s, l[m])
                          /\ l[m].kind = "function" /\ s # 0 => FunctionRecord(u, s, l[m])
    BY DEF FileAgree
  <2>1. CASE 1 = c /\ m = n
    BY <1>2, <1>5, <1>7, <1>8, <2>1, <1>4 DEF c
  <2>2. CASE ~(1 = c /\ m = n)
    <3> DEFINE s == t.scopes[1].ids[m]
    <3>1. f[1].ids[m] = e[1].ids[m] /\ u.scopes[1].ids[m] = s
      BY <1>4, <1>5, <1>8, <2>2
    <3>2. /\ l[m].kind = "unbound" /\ ~Bound(e[1].ids[m]) => s = 0
          /\ HasLinkage(e[1].ids[m]) => s # 0
          /\ l[m].kind = "object" /\ s # 0 => ObjectRecord(t, s, l[m])
          /\ l[m].kind = "function" /\ s # 0 => FunctionRecord(t, s, l[m])
      BY DEF FileAgree
    <3>3. s # 0 => s \in 1..Len(t.symbols) /\ u.symbols[s] = t.symbols[s]
      BY <1>4, <1>6, <1>8
    <3>4. Objects(t) \subseteq Objects(u) /\ u.functions = t.functions
      BY <1>4
    <3>5. l[m].kind = "object" /\ s # 0 => ObjectRecord(u, s, l[m])
      BY <3>2, <3>3, <3>4 DEF ObjectRecord
    <3>6. l[m].kind = "function" /\ s # 0 => FunctionRecord(u, s, l[m])
      BY <3>2, <3>3, <3>4 DEF FunctionRecord
    <3> QED BY <3>1, <3>2, <3>5, <3>6
  <2> QED BY <2>1, <2>2
<1>18. Sole(u, l)
  <2>1. ASSUME NEW s \in 1..Len(t.symbols), t.scopes[1].ids[t.symbols[s].name] = s
        PROVE  u.scopes[1].ids[t.symbols[s].name] = s
    <3>1. t.symbols[s].name \in Names
      BY <1>1, TableFields DEF SymbolSet
    <3>2. c = 1 => t.scopes[1].ids[n] = 0
      BY DEF FileAgree, c
    <3>3. ~(1 = c /\ t.symbols[s].name = n)
      BY <1>7, <2>1, <3>2
    <3> QED BY <1>8, <1>20, <2>1, <3>1, <3>3
  <2>2. ASSUME NEW s \in 1..Len(u.symbols), u.symbols[s].level = 0, l[u.symbols[s].name].plain
        PROVE  u.scopes[1].ids[u.symbols[s].name] = s
    <3>1. CASE s = k
      <4>1. c = 1
        BY <1>1, <1>3, <1>4, <2>2, <3>1
      <4> QED BY <1>3, <1>4, <1>8, <3>1, <4>1
    <3>2. CASE s # k
      <4>1. s \in 1..Len(t.symbols) /\ u.symbols[s] = t.symbols[s]
        BY <1>4, <1>7, <3>2
      <4> QED BY <2>1, <2>2, <4>1 DEF Sole
    <3> QED BY <3>1, <3>2
  <2>3. ASSUME NEW s \in u.functions, l[u.symbols[s].name].plain
        PROVE  u.scopes[1].ids[u.symbols[s].name] = s
    <3>1. s \in t.functions /\ s \in 1..Len(t.symbols) /\ u.symbols[s] = t.symbols[s]
      BY <1>4 DEF Named
    <3> QED BY <2>1, <2>3, <3>1 DEF Sole
  <2> QED BY <2>2, <2>3 DEF Sole
<1> QED BY <1>4, <1>9, <1>10, <1>11, <1>12, <1>13, <1>14, <1>15, <1>16, <1>17, <1>18

\* A declaration of what has linkage: C's side
LEMMA LinkedAgreeKept ==
  ASSUME NEW e, NEW l, NEW f, NEW n \in Names, NEW kind \in LinkedKinds, NEW link \in Links,
         NEW L \in Linkages, NEW c \in 1..Len(e), Len(e) \in Nat, LinkedAgree(e, l),
         Rebound(e, f, c, n, Entity(kind, link, 0)),
         l[n].kind = "unbound" \/ (l[n].kind = kind /\ l[n].link = link),
         L.kind = kind, L.link = link,
         c = 1 => (L.plain <=> l[n].plain),
         c > 1 => ~L.plain /\ ~Own(e[1].ids[n])
  PROVE  LinkedAgree(f, [l EXCEPT ![n] = L])
<1> DEFINE x == Entity(kind, link, 0)
           m == [l EXCEPT ![n] = L]
<1>1. x.kind = kind /\ x.link = link /\ Bound(x) /\ HasLinkage(x) /\ ~Own(x) /\ kind # "unbound"
  BY EntityFields DEF LinkedKinds, Links, Own
<1>2. /\ Len(f) = Len(e)
      /\ \A i \in 1..Len(e), p \in Names : f[i].ids[p] = IF i = c /\ p = n THEN x ELSE e[i].ids[p]
  BY DEF Rebound
<1>3. l \in [Names -> Linkages]
  BY DEF LinkedAgree
<1>4. m \in [Names -> Linkages] /\ m[n] = L /\ \A p \in Names : p # n => m[p] = l[p]
  BY <1>3
<1> HIDE DEF x, m
<1>5. ASSUME NEW i \in 1..Len(e), NEW p \in Names, HasLinkage(f[i].ids[p])
      PROVE  /\ f[i].ids[p].kind \in LinkedKinds /\ f[i].ids[p].kind = m[p].kind
             /\ f[i].ids[p].link = m[p].link
             /\ i > 1 => ~m[p].plain
  <2>1. CASE p # n
    BY <1>2, <1>4, <1>5, <2>1 DEF LinkedAgree
  <2>2. CASE p = n /\ i = c
    BY <1>1, <1>2, <1>4, <2>2
  <2>3. CASE p = n /\ i # c
    <3>1. f[i].ids[p] = e[i].ids[n]
      BY <1>2, <2>3
    <3>2. /\ e[i].ids[n].kind \in LinkedKinds /\ e[i].ids[n].kind = l[n].kind
          /\ e[i].ids[n].link = l[n].link
          /\ i > 1 => ~l[n].plain
      BY <1>5, <2>3, <3>1 DEF LinkedAgree
    <3>3. l[n].kind = kind /\ l[n].link = link
      BY <3>2 DEF LinkedKinds
    <3>4. m[p] = L
      BY <1>4, <2>3
    <3>5. i > 1 => ~L.plain
      BY <2>3, <3>2
    <3> QED BY <3>1, <3>2, <3>3, <3>4, <3>5
  <2> QED BY <2>1, <2>2, <2>3
<1>6. ASSUME NEW p \in Names
      PROVE  /\ m[p].kind = "unbound" => m[p] = NeverLinked
             /\ m[p].kind # "unbound" => m[p].link \in Links
             /\ m[p].kind # "unbound" /\ ~HasLinkage(f[1].ids[p]) => ~m[p].plain /\ ~Bound(f[1].ids[p])
             /\ Own(f[1].ids[p]) => f[1].ids[p].kind \in {"typedef", "enum"}
  <2>1. 1 \in 1..Len(e)
    OBVIOUS
  <2>2. CASE p # n
    BY <1>2, <1>4, <2>1, <2>2 DEF LinkedAgree
  <2>3. CASE p = n /\ c = 1
    BY <1>1, <1>2, <1>4, <2>1, <2>3
  <2>4. CASE p = n /\ c # 1
    BY <1>1, <1>2, <1>4, <2>1, <2>4 DEF Own
  <2> QED BY <2>2, <2>3, <2>4
<1> QED BY <1>2, <1>4, <1>5, <1>6 DEF LinkedAgree, m

\* ... and the checker's, when the file's table has the name or needs not have it
Recorded(t, s, L) ==
  IF L.kind = "object" THEN ObjectRecord(t, s, L) ELSE L.kind = "function" /\ FunctionRecord(t, s, L)

\* One more declaration of a name with linkage, whose symbol in the file's table is
\* brought up to date
LEMMA TouchedKeeps ==
  ASSUME NEW t, NEW e, NEW l, TabInv(t, e, l), NEW n \in Names, NEW u, NEW f, NEW x, NEW L,
         NEW c \in 1..Len(e), Retouched(t, u), ~u.rejected,
         \A k \in 1..Len(t.symbols) :
           /\ k # t.scopes[1].ids[n] => u.symbols[k] = t.symbols[k]
           /\ u.symbols[k].level = t.symbols[k].level
           /\ (Len(e) = 1 /\ ~Own(e[1].ids[n])) \/ u.symbols[k].sclass = t.symbols[k].sclass,
         t.functions \subseteq u.functions, u.functions \subseteq t.functions \cup {t.scopes[1].ids[n]},
         Rebound(e, f, c, n, x), HasLinkage(x),
         x.kind = "object" /\ c > 1 => e[c].ids[n].kind = "object",
         LinkedAgree(f, [l EXCEPT ![n] = L]), L.kind # "unbound", L.plain => l[n].plain,
         c = 1 => t.scopes[1].ids[n] # 0,
         t.scopes[1].ids[n] # 0 => Recorded(u, t.scopes[1].ids[n], L)
  PROVE  TabInv(u, f, [l EXCEPT ![n] = L])
<1> DEFINE s == t.scopes[1].ids[n]
           m == [l EXCEPT ![n] = L]
<1> USE DEF TabInv
<1>1. /\ t \in Tables /\ Len(t.scopes) = Len(e) /\ Len(e) \in Nat /\ Len(e) > 0
      /\ 1 \in 1..Len(e)
      /\ \A i \in 1..Len(e) : NamedIn(t, t.scopes[i])
  BY NamedTables
<1>2. /\ Len(f) = Len(e) /\ f \in Seq(CScopes)
      /\ f[c].ids[n] = x
      /\ \A i \in 1..Len(e) : f[i].tags = e[i].tags
      /\ \A i \in 1..Len(e), p \in Names : ~(i = c /\ p = n) => f[i].ids[p] = e[i].ids[p]
  BY DEF Rebound
<1>3. m[n] = L /\ \A p \in Names : p # n => m[p] = l[p]
  BY DEF LinkedAgree
<1>4. Bound(x) /\ ~Own(x)
  BY UnboundFields DEF Own, Bound
<1> HIDE DEF s, m
<1>5. u.scopes = t.scopes /\ u.tags = t.tags /\ Objects(u) = Objects(t) /\ Len(u.symbols) = Len(t.symbols)
  BY DEF Retouched, SameScopes, SameTags, Objects
<1>6. \A i \in 1..Len(e), p \in Names : t.scopes[i].ids[p] # 0 =>
        /\ t.scopes[i].ids[p] \in 1..Len(t.symbols) /\ t.symbols[t.scopes[i].ids[p]].name = p
        /\ p # n => t.scopes[i].ids[p] # s /\ u.symbols[t.scopes[i].ids[p]] = t.symbols[t.scopes[i].ids[p]]
  <2> SUFFICES ASSUME NEW i \in 1..Len(e), NEW p \in Names, t.scopes[i].ids[p] # 0
               PROVE  /\ t.scopes[i].ids[p] \in 1..Len(t.symbols)
                      /\ t.symbols[t.scopes[i].ids[p]].name = p
                      /\ p # n => /\ t.scopes[i].ids[p] # s
                                  /\ u.symbols[t.scopes[i].ids[p]] = t.symbols[t.scopes[i].ids[p]]
    OBVIOUS
  <2>1. t.scopes[i].ids[p] \in 1..Len(t.symbols) /\ t.symbols[t.scopes[i].ids[p]].name = p
    BY <1>1 DEF NamedIn
  <2>2. s # 0 => t.symbols[s].name = n
    BY <1>1 DEF NamedIn, s
  <2> QED BY <2>1, <2>2 DEF s
<1>7. \A i \in 1..Len(e), p \in Names : Own(f[i].ids[p]) => ~(i = c /\ p = n) /\ f[i].ids[p] = e[i].ids[p]
  BY <1>2, <1>4
<1>8. Framed(u, e) /\ Named(u) /\ TagsAgree(u, e)
  BY RetouchedKeeps
<1>9. Framed(u, f) /\ TagsAgree(u, f)
  <2>1. Framed(u, f)
    BY <1>2, <1>8 DEF Framed
  <2>2. ASSUME NEW i \in 1..Len(e) PROVE TagsIn(u, u.scopes[i], f[i])
    <3>1. TagsIn(u, u.scopes[i], e[i]) /\ f[i].tags = e[i].tags
      BY <1>2, <1>8 DEF TagsAgree
    <3> QED BY <3>1 DEF TagsIn
  <2> QED BY <1>2, <2>1, <2>2 DEF TagsAgree
<1>10. OwnAgree(u, f)
  <2> SUFFICES ASSUME NEW i \in 1..Len(e), NEW p \in Names, Own(f[i].ids[p])
               PROVE  /\ f[i].ids[p].kind \in OwnKinds /\ f[i].ids[p].id # 0
                      /\ t.scopes[i].ids[p] = f[i].ids[p].id
                      /\ StandsFor(u.symbols[t.scopes[i].ids[p]], f[i].ids[p].kind)
    BY <1>2, <1>5 DEF OwnAgree, OwnIn
  <2> DEFINE k == t.scopes[i].ids[p]
  <2>1. f[i].ids[p] = e[i].ids[p]
    BY <1>7
  <2>2. /\ e[i].ids[p].kind \in OwnKinds /\ e[i].ids[p].id # 0 /\ k = e[i].ids[p].id
        /\ StandsFor(t.symbols[k], e[i].ids[p].kind)
    BY <2>1 DEF OwnAgree, OwnIn
  <2>3. k \in 1..Len(t.symbols)
    BY <1>6, <2>2
  <2>4. u.symbols[k].kind = t.symbols[k].kind
    BY <2>3 DEF Retouched
  <2>5. u.symbols[k].sclass = t.symbols[k].sclass
    <3>1. CASE p = n
      <4>1. Len(e) = 1 => i = 1
        OBVIOUS
      <4>2. ~(Len(e) = 1 /\ ~Own(e[1].ids[n]))
        BY <2>1, <3>1, <4>1
      <4> HIDE DEF k
      <4> QED BY <2>3, <4>2
    <3>2. CASE p # n
      BY <1>6, <2>2, <3>2
    <3> QED BY <3>1, <3>2
  <2> HIDE DEF k
  <2>6. StandsFor(u.symbols[k], e[i].ids[p].kind)
    BY <2>2, <2>4, <2>5 DEF StandsFor
  <2> QED BY <2>1, <2>2, <2>6 DEF k
<1>11. InNoOther(u, f)
  BY <1>2, <1>5, <1>7 DEF InNoOther
<1>12. Deep(u, f)
  <2> SUFFICES ASSUME NEW i \in 2..Len(e), NEW p \in Names, Own(f[i].ids[p])
               PROVE  u.symbols[f[i].ids[p].id].level > 0
    BY <1>2 DEF Deep, DeepIn
  <2>1. f[i].ids[p] = e[i].ids[p] /\ i \in 1..Len(e)
    BY <1>7
  <2>2. e[i].ids[p].id # 0 /\ t.scopes[i].ids[p] = e[i].ids[p].id
    BY <2>1 DEF OwnAgree, OwnIn
  <2>3. e[i].ids[p].id \in 1..Len(t.symbols)
    BY <1>6, <2>1, <2>2
  <2>4. t.symbols[e[i].ids[p].id].level > 0
    BY <2>1 DEF Deep, DeepIn
  <2> QED BY <2>1, <2>3, <2>4
<1>13. Inner(u, f)
  <2> SUFFICES ASSUME NEW i \in 2..Len(f), NEW p \in Names
               PROVE  /\ ~Bound(f[i].ids[p]) => u.scopes[i].ids[p] = 0
                      /\ f[i].ids[p].kind = "object" =>
                           /\ u.scopes[i].ids[p] # 0
                           /\ u.symbols[u.scopes[i].ids[p]].kind = "Variable"
                           /\ u.symbols[u.scopes[i].ids[p]].sclass = "extern"
    BY DEF Inner
  <2> DEFINE k == t.scopes[i].ids[p]
  <2>5. i \in 2..Len(e) /\ i \in 1..Len(e) /\ u.scopes[i].ids[p] = k
    BY <1>1, <1>2, <1>5
  <2>1. /\ ~Bound(e[i].ids[p]) => k = 0
        /\ e[i].ids[p].kind = "object" =>
             k # 0 /\ t.symbols[k].kind = "Variable" /\ t.symbols[k].sclass = "extern"
    BY <2>5 DEF Inner
  <2>2. k # 0 => u.symbols[k].kind = t.symbols[k].kind /\ u.symbols[k].sclass = t.symbols[k].sclass
    <3>1. k # 0 => k \in 1..Len(t.symbols)
      BY <1>6, <2>5
    <3>2. Len(e) # 1
      BY <1>1, <2>5
    <3> HIDE DEF k
    <3> QED BY <3>1, <3>2 DEF Retouched
  <2>3. CASE i = c /\ p = n
    <3>1. f[i].ids[p] = x /\ Bound(x)
      BY <1>2, <1>4, <2>3
    <3>2. x.kind = "object" => e[i].ids[p].kind = "object"
      BY <1>1, <2>3, <2>5
    <3> HIDE DEF k
    <3> QED BY <2>1, <2>2, <2>5, <3>1, <3>2
  <2>4. CASE ~(i = c /\ p = n)
    <3>1. f[i].ids[p] = e[i].ids[p]
      BY <1>2, <2>4, <2>5
    <3> HIDE DEF k
    <3> QED BY <2>1, <2>2, <2>5, <3>1
  <2> QED BY <2>3, <2>4
<1>14. FileAgree(u, f, m)
  <2> SUFFICES ASSUME NEW p \in Names
               PROVE  LET k == t.scopes[1].ids[p]
                      IN  /\ m[p].kind = "unbound" /\ ~Bound(f[1].ids[p]) => k = 0
                          /\ HasLinkage(f[1].ids[p]) => k # 0
                          /\ m[p].kind = "object" /\ k # 0 => ObjectRecord(u, k, m[p])
                          /\ m[p].kind = "function" /\ k # 0 => FunctionRecord(u, k, m[p])
    BY <1>5 DEF FileAgree
  <2>1. CASE p = n
    <3>1. HasLinkage(f[1].ids[n]) => s # 0
      <4>1. c # 1 => f[1].ids[n] = e[1].ids[n]
        BY <1>1, <1>2
      <4> QED BY <4>1 DEF FileAgree, s
    <3> QED BY <1>3, <2>1, <3>1 DEF Recorded, s
  <2>2. CASE p # n
    <3> DEFINE k == t.scopes[1].ids[p]
    <3>1. f[1].ids[p] = e[1].ids[p] /\ m[p] = l[p]
      BY <1>1, <1>2, <1>3, <2>2
    <3>2. /\ l[p].kind = "unbound" /\ ~Bound(e[1].ids[p]) => k = 0
          /\ HasLinkage(e[1].ids[p]) => k # 0
          /\ l[p].kind = "object" /\ k # 0 => ObjectRecord(t, k, l[p])
          /\ l[p].kind = "function" /\ k # 0 => FunctionRecord(t, k, l[p])
      BY DEF FileAgree
    <3>3. k # 0 => u.symbols[k] = t.symbols[k] /\ k # s
      BY <1>1, <1>6, <2>2
    <3>4. k # 0 => (k \in u.functions <=> k \in t.functions)
      BY <3>3 DEF s
    <3> HIDE DEF k
    <3>5. l[p].kind = "object" /\ k # 0 => ObjectRecord(u, k, l[p])
      BY <1>5, <3>2, <3>3 DEF ObjectRecord
    <3>6. l[p].kind = "function" /\ k # 0 => FunctionRecord(u, k, l[p])
      BY <3>2, <3>3, <3>4 DEF FunctionRecord
    <3> QED BY <3>1, <3>2, <3>5, <3>6 DEF k
  <2> QED BY <2>1, <2>2
<1>15. Sole(u, m)
  <2>1. \A k \in 1..Len(t.symbols) : /\ u.symbols[k].name = t.symbols[k].name
                                     /\ u.symbols[k].level = t.symbols[k].level
                                     /\ t.symbols[k].name \in Names
    BY <1>1, TableFields DEF Retouched, SymbolSet
  <2>2. \A p \in Names : m[p].plain => l[p].plain
    BY <1>3
  <2>3. ASSUME NEW k \in 1..Len(t.symbols), t.symbols[k].level = 0, m[t.symbols[k].name].plain
        PROVE  t.scopes[1].ids[t.symbols[k].name] = k
    BY <2>1, <2>2, <2>3 DEF Sole
  <2>4. ASSUME NEW k \in u.functions, m[t.symbols[k].name].plain
        PROVE  t.scopes[1].ids[t.symbols[k].name] = k
    <3>1. k \in 1..Len(t.symbols)
      BY DEF Retouched
    <3>2. CASE k = s
      BY <1>1, <1>6, <3>1, <3>2 DEF s
    <3>3. CASE k # s
      BY <2>1, <2>2, <2>4, <3>1, <3>3 DEF Sole, s
    <3> QED BY <3>2, <3>3
  <2>5. u.functions \subseteq 1..Len(t.symbols)
    BY DEF Retouched
  <2> QED BY <1>5, <2>1, <2>3, <2>4, <2>5 DEF Sole
<1>16. LinkedAgree(f, m)
  BY DEF m
<1> QED BY <1>8, <1>9, <1>10, <1>11, <1>12, <1>13, <1>14, <1>15, <1>16 DEF m

\* ... and when a new symbol is put into the tables for it
LEMMA PlacedKeeps ==
  ASSUME NEW t, NEW e, NEW l, TabInv(t, e, l), NEW n \in Names, NEW u, NEW f, NEW x, NEW L,
         NEW c \in 1..Len(e), NEW sym, NEW g \in BOOLEAN,
         Placed(t, u, n, {1, c}, sym, g), sym.name = n, g => sym.kind = "Variable",
         Rebound(e, f, c, n, x), HasLinkage(x),
         x.kind = "object" /\ c > 1 => sym.kind = "Variable" /\ sym.sclass = "extern",
         ~Own(e[1].ids[n]), ~Own(e[c].ids[n]),
         LinkedAgree(f, [l EXCEPT ![n] = L]), L.kind # "unbound",
         L.plain => l[n].plain /\ t.scopes[1].ids[n] = 0,
         Recorded(u, Len(t.symbols) + 1, L)
  PROVE  TabInv(u, f, [l EXCEPT ![n] = L])
<1> DEFINE k == Len(t.symbols) + 1
           m == [l EXCEPT ![n] = L]
<1> USE DEF TabInv
<1>1. /\ t \in Tables /\ Len(t.scopes) = Len(e) /\ Len(e) \in Nat /\ Len(e) > 0
      /\ 1 \in 1..Len(e) /\ Len(t.symbols) \in Nat /\ t.Level = Len(e) - 1
      /\ \A i \in 1..Len(e) : t.scopes[i].level = i - 1 /\ NamedIn(t, t.scopes[i])
  BY NamedTables, TableFields
<1>2. /\ Len(f) = Len(e) /\ f \in Seq(CScopes)
      /\ f[c].ids[n] = x
      /\ \A i \in 1..Len(e) : f[i].tags = e[i].tags
      /\ \A i \in 1..Len(e), p \in Names : ~(i = c /\ p = n) => f[i].ids[p] = e[i].ids[p]
  BY DEF Rebound
<1>3. m[n] = L /\ \A p \in Names : p # n => m[p] = l[p]
  BY DEF LinkedAgree
<1>4. Bound(x) /\ ~Own(x)
  BY UnboundFields DEF Own, Bound
<1>5. /\ u \in Tables /\ u.tags = t.tags /\ ~u.rejected /\ u.saved = t.saved
      /\ u.Level = t.Level /\ u.functions = t.functions /\ u.FSYM = t.FSYM
      /\ Objects(u) = IF g THEN Objects(t) \cup {k} ELSE Objects(t)
      /\ Len(u.symbols) = k /\ u.symbols[k] = sym /\ Len(u.scopes) = Len(e)
      /\ \A s \in 1..Len(t.symbols) : u.symbols[s] = t.symbols[s]
      /\ \A i \in 1..Len(e) :
           /\ u.scopes[i].level = t.scopes[i].level /\ u.scopes[i].tags = t.scopes[i].tags
           /\ \A p \in Names : u.scopes[i].ids[p] = IF i \in {1, c} /\ p = n THEN k
                                                    ELSE t.scopes[i].ids[p]
  BY <1>1 DEF Placed, SameTags
<1> HIDE DEF k, m
<1>6. k \in Nat /\ k > 0 /\ k \notin 1..Len(t.symbols) /\ 1..k = 1..Len(t.symbols) \cup {k}
  BY <1>1 DEF k
<1>7. u.scopes[1].ids[n] = k /\ u.scopes[c].ids[n] = k
  BY <1>1, <1>5
<1>8. \A i \in 1..Len(e), p \in Names : ~(i \in {1, c} /\ p = n) =>
        u.scopes[i].ids[p] = t.scopes[i].ids[p] /\ f[i].ids[p] = e[i].ids[p]
  BY <1>2, <1>5
<1>9. \A i \in 1..Len(e), p \in Names : t.scopes[i].ids[p] # 0 =>
        /\ t.scopes[i].ids[p] \in 1..Len(t.symbols) /\ t.symbols[t.scopes[i].ids[p]].name = p
        /\ t.scopes[i].ids[p] # k
        /\ u.symbols[t.scopes[i].ids[p]] = t.symbols[t.scopes[i].ids[p]]
  <2>1. \A i \in 1..Len(e), p \in Names : t.scopes[i].ids[p] # 0 =>
          t.scopes[i].ids[p] \in 1..Len(t.symbols) /\ t.symbols[t.scopes[i].ids[p]].name = p
    BY <1>1 DEF NamedIn
  <2>2. \A s \in 1..Len(t.symbols) : s # k /\ u.symbols[s] = t.symbols[s]
    BY <1>5, <1>6
  <2> QED BY <2>1, <2>2
<1>10. \A i \in 1..Len(e), p \in Names : Own(f[i].ids[p]) =>
         ~(i \in {1, c} /\ p = n) /\ f[i].ids[p] = e[i].ids[p] /\ u.scopes[i].ids[p] = t.scopes[i].ids[p]
  <2> SUFFICES ASSUME NEW i \in 1..Len(e), NEW p \in Names, Own(f[i].ids[p]) PROVE ~(i \in {1, c} /\ p = n)
    BY <1>8
  <2>1. ~(i = c /\ p = n)
    BY <1>2, <1>4
  <2>2. f[i].ids[p] = e[i].ids[p]
    BY <1>2, <2>1
  <2> QED BY <2>1, <2>2
<1>11. \A i \in 1..Len(e), p \in Names : Own(f[i].ids[p]) =>
         /\ f[i].ids[p].kind \in OwnKinds /\ f[i].ids[p].id # 0 /\ t.scopes[i].ids[p] = f[i].ids[p].id
         /\ StandsFor(t.symbols[t.scopes[i].ids[p]], f[i].ids[p].kind)
  <2> SUFFICES ASSUME NEW i \in 1..Len(e), NEW p \in Names, Own(f[i].ids[p])
               PROVE  /\ f[i].ids[p].kind \in OwnKinds /\ f[i].ids[p].id # 0
                      /\ t.scopes[i].ids[p] = f[i].ids[p].id
                      /\ StandsFor(t.symbols[t.scopes[i].ids[p]], f[i].ids[p].kind)
    OBVIOUS
  <2>1. f[i].ids[p] = e[i].ids[p]
    BY <1>10
  <2> QED BY <2>1 DEF OwnAgree, OwnIn
<1>12. Framed(u, f)
  BY <1>1, <1>2, <1>5 DEF Framed
<1>13. Named(u)
  <2>1. ASSUME NEW i \in 1..Len(e), NEW p \in Names, u.scopes[i].ids[p] # 0
        PROVE  u.scopes[i].ids[p] \in 1..k /\ u.symbols[u.scopes[i].ids[p]].name = p
    <3>1. CASE i \in {1, c} /\ p = n
      BY <1>5, <1>6, <1>7, <3>1
    <3>2. CASE ~(i \in {1, c} /\ p = n)
      <4>1. u.scopes[i].ids[p] = t.scopes[i].ids[p]
        BY <1>8, <3>2
      <4> DEFINE s == t.scopes[i].ids[p]
      <4>2. s \in 1..Len(t.symbols) /\ t.symbols[s].name = p /\ u.symbols[s] = t.symbols[s]
        BY <1>9, <2>1, <4>1
      <4>3. s \in 1..k
        BY <1>6, <4>2
      <4> QED BY <4>1, <4>2, <4>3
    <3> QED BY <3>1, <3>2
  <2>2. \A i \in 1..Len(u.scopes) : NamedIn(u, u.scopes[i])
    BY <1>5, <2>1 DEF NamedIn
  <2>3. \A s \in Objects(u) : s \in 1..k /\ u.symbols[s].kind = "Variable"
    BY <1>5, <1>6 DEF Named
  <2>4. u.functions \subseteq 1..k /\ u.FSYM \in 0..k
    BY <1>1, <1>5, <1>6 DEF Named
  <2> QED BY <1>5, <2>2, <2>3, <2>4 DEF Named
<1>14. TagsAgree(u, f)
  <2> SUFFICES ASSUME NEW i \in 1..Len(e), NEW p \in TagNames
               PROVE  /\ u.scopes[i].tags[p] = f[i].tags[p].id /\ ~HasLinkage(f[i].tags[p])
                      /\ Bound(f[i].tags[p]) => /\ u.scopes[i].tags[p] \in 1..Len(u.tags)
                                                /\ u.tags[u.scopes[i].tags[p]].categ = f[i].tags[p].kind
    BY <1>2 DEF TagsAgree, TagsIn
  <2>1. u.scopes[i].tags = t.scopes[i].tags /\ f[i].tags = e[i].tags /\ u.tags = t.tags
    BY <1>2, <1>5
  <2> QED BY <2>1 DEF TagsAgree, TagsIn
<1>15. OwnAgree(u, f)
  <2> SUFFICES ASSUME NEW i \in 1..Len(e), NEW p \in Names, Own(f[i].ids[p])
               PROVE  /\ f[i].ids[p].kind \in OwnKinds /\ f[i].ids[p].id # 0
                      /\ u.scopes[i].ids[p] = f[i].ids[p].id
                      /\ StandsFor(u.symbols[u.scopes[i].ids[p]], f[i].ids[p].kind)
    BY <1>2 DEF OwnAgree, OwnIn
  <2>1. u.scopes[i].ids[p] = t.scopes[i].ids[p]
    BY <1>10
  <2>2. /\ f[i].ids[p].kind \in OwnKinds /\ f[i].ids[p].id # 0 /\ t.scopes[i].ids[p] = f[i].ids[p].id
        /\ StandsFor(t.symbols[t.scopes[i].ids[p]], f[i].ids[p].kind)
    BY <1>11
  <2>3. u.symbols[t.scopes[i].ids[p]] = t.symbols[t.scopes[i].ids[p]]
    BY <1>9, <2>2
  <2> QED BY <2>1, <2>2, <2>3
<1>16. InNoOther(u, f)
  <2> SUFFICES ASSUME NEW i \in 1..Len(e), NEW j \in 1..Len(e), NEW p \in Names, Own(f[i].ids[p]), i # j
               PROVE  u.scopes[j].ids[p] # f[i].ids[p].id
    BY <1>2 DEF InNoOther
  <2>1. CASE j \in {1, c} /\ p = n
    <3>1. u.scopes[j].ids[p] = k
      BY <1>7, <2>1
    <3>2. f[i].ids[p].id = t.scopes[i].ids[p] /\ f[i].ids[p].id # 0
      BY <1>11
    <3> QED BY <1>9, <3>1, <3>2
  <2>2. CASE ~(j \in {1, c} /\ p = n)
    <3>1. f[i].ids[p] = e[i].ids[p] /\ u.scopes[j].ids[p] = t.scopes[j].ids[p]
      BY <1>8, <1>10, <2>2
    <3> QED BY <3>1 DEF InNoOther
  <2> QED BY <2>1, <2>2
<1>17. Deep(u, f)
  <2> SUFFICES ASSUME NEW i \in 2..Len(e), NEW p \in Names, Own(f[i].ids[p])
               PROVE  u.symbols[f[i].ids[p].id].level > 0
    BY <1>2 DEF Deep, DeepIn
  <2>1. f[i].ids[p] = e[i].ids[p] /\ i \in 1..Len(e)
    BY <1>10
  <2>2. f[i].ids[p].id # 0 /\ t.scopes[i].ids[p] = f[i].ids[p].id
    BY <1>11, <2>1
  <2>3. u.symbols[f[i].ids[p].id] = t.symbols[f[i].ids[p].id]
    <3>1. t.scopes[i].ids[p] # 0
      BY <2>2
    <3>2. u.symbols[t.scopes[i].ids[p]] = t.symbols[t.scopes[i].ids[p]]
      BY <1>9, <2>1, <3>1
    <3> QED BY <2>2, <3>2
  <2>4. t.symbols[f[i].ids[p].id].level > 0
    BY <2>1 DEF Deep, DeepIn
  <2> QED BY <2>3, <2>4
<1>18. Inner(u, f)
  <2> SUFFICES ASSUME NEW i \in 2..Len(e), NEW p \in Names
               PROVE  /\ ~Bound(f[i].ids[p]) => u.scopes[i].ids[p] = 0
                      /\ f[i].ids[p].kind = "object" =>
                           /\ u.scopes[i].ids[p] # 0
                           /\ u.symbols[u.scopes[i].ids[p]].kind = "Variable"
                           /\ u.symbols[u.scopes[i].ids[p]].sclass = "extern"
    BY <1>2 DEF Inner
  <2>1. CASE i = c /\ p = n
    <3>1. f[i].ids[p] = x /\ u.scopes[i].ids[p] = k /\ c > 1
      BY <1>2, <1>7, <2>1
    <3> QED BY <1>4, <1>5, <1>6, <3>1
  <2>2. CASE ~(i = c /\ p = n)
    <3>1. /\ f[i].ids[p] = e[i].ids[p] /\ u.scopes[i].ids[p] = t.scopes[i].ids[p]
      BY <1>8, <2>2
    <3>2. t.scopes[i].ids[p] # 0 => u.symbols[t.scopes[i].ids[p]] = t.symbols[t.scopes[i].ids[p]]
      BY <1>9
    <3> QED BY <3>1, <3>2 DEF Inner
  <2> QED BY <2>1, <2>2
<1>19. FileAgree(u, f, m)
  <2> SUFFICES ASSUME NEW p \in Names
               PROVE  LET s == u.scopes[1].ids[p]
                      IN  /\ m[p].kind = "unbound" /\ ~Bound(f[1].ids[p]) => s = 0
                          /\ HasLinkage(f[1].ids[p]) => s # 0
                          /\ m[p].kind = "object" /\ s # 0 => ObjectRecord(u, s, m[p])
                          /\ m[p].kind = "function" /\ s # 0 => FunctionRecord(u, s, m[p])
    BY DEF FileAgree
  <2>1. CASE p = n
    BY <1>3, <1>6, <1>7, <2>1 DEF Recorded, k
  <2>2. CASE p # n
    <3> DEFINE s == t.scopes[1].ids[p]
    <3>1. f[1].ids[p] = e[1].ids[p] /\ m[p] = l[p] /\ u.scopes[1].ids[p] = s
      BY <1>1, <1>3, <1>8, <2>2
    <3>2. /\ l[p].kind = "unbound" /\ ~Bound(e[1].ids[p]) => s = 0
          /\ HasLinkage(e[1].ids[p]) => s # 0
          /\ l[p].kind = "object" /\ s # 0 => ObjectRecord(t, s, l[p])
          /\ l[p].kind = "function" /\ s # 0 => FunctionRecord(t, s, l[p])
      BY DEF FileAgree
    <3>3. s # 0 => u.symbols[s] = t.symbols[s]
      BY <1>1, <1>9
    <3>4. Objects(t) \subseteq Objects(u) /\ u.functions = t.functions
      BY <1>5
    <3> HIDE DEF s
    <3>5. l[p].kind = "object" /\ s # 0 => ObjectRecord(u, s, l[p])
      BY <3>2, <3>3, <3>4 DEF ObjectRecord
    <3>6. l[p].kind = "function" /\ s # 0 => FunctionRecord(u, s, l[p])
      BY <3>2, <3>3, <3>4 DEF FunctionRecord
    <3> QED BY <3>1, <3>2, <3>5, <3>6
  <2> QED BY <2>1, <2>2
<1>20. Sole(u, m)
  <2>1. ASSUME NEW s \in 1..Len(t.symbols), m[t.symbols[s].name].plain,
               l[t.symbols[s].name].plain => t.scopes[1].ids[t.symbols[s].name] = s
        PROVE  u.scopes[1].ids[t.symbols[s].name] = s
    <3>1. t.symbols[s].name \in Names
      BY <1>1, TableFields DEF SymbolSet
    <3>2. CASE t.symbols[s].name = n
      BY <1>3, <2>1, <3>2
    <3>3. CASE t.symbols[s].name # n
      BY <1>1, <1>3, <1>8, <2>1, <3>1, <3>3
    <3> QED BY <3>2, <3>3
  <2>2. ASSUME NEW s \in 1..Len(u.symbols), u.symbols[s].level = 0, m[u.symbols[s].name].plain
        PROVE  u.scopes[1].ids[u.symbols[s].name] = s
    <3>1. CASE s = k
      BY <1>5, <1>7, <3>1
    <3>2. CASE s # k
      <4>1. s \in 1..Len(t.symbols) /\ u.symbols[s] = t.symbols[s]
        <5>1. s \in 1..k
          BY <1>5
        <5>2. s \in 1..Len(t.symbols)
          BY <1>6, <3>2, <5>1
        <5> QED BY <1>5, <5>2
      <4> QED BY <2>1, <2>2, <4>1 DEF Sole
    <3> QED BY <3>1, <3>2
  <2>3. ASSUME NEW s \in u.functions, m[u.symbols[s].name].plain
        PROVE  u.scopes[1].ids[u.symbols[s].name] = s
    <3>1. s \in t.functions /\ s \in 1..Len(t.symbols) /\ u.symbols[s] = t.symbols[s]
      BY <1>5 DEF Named
    <3> QED BY <2>1, <2>3, <3>1 DEF Sole
  <2> QED BY <2>2, <2>3 DEF Sole
<1>21. LinkedAgree(f, m)
  BY DEF m
<1> QED BY <1>5, <1>12, <1>13, <1>14, <1>15, <1>16, <1>17, <1>18, <1>19, <1>20, <1>21 DEF m

\* What the file's table knows of objects and functions depends on its identifiers alone
LEMMA FileKept ==
  ASSUME NEW t, NEW e, NEW l, FileAgree(t, e, l), NEW u, NEW f,
         u.symbols = t.symbols, Objects(u) = Objects(t), u.functions = t.functions,
         u.scopes[1].ids = t.scopes[1].ids, f[1].ids = e[1].ids
  PROVE  FileAgree(u, f, l)
<1> SUFFICES ASSUME NEW n \in Names
             PROVE  LET s == t.scopes[1].ids[n]
                    IN  /\ l[n].kind = "unbound" /\ ~Bound(e[1].ids[n]) => s = 0
                        /\ HasLinkage(e[1].ids[n]) => s # 0
                        /\ l[n].kind = "object" /\ s # 0 => ObjectRecord(u, s, l[n])
                        /\ l[n].kind = "function" /\ s # 0 => FunctionRecord(u, s, l[n])
  BY DEF FileAgree
<1> DEFINE s == t.scopes[1].ids[n]
<1>1. /\ l[n].kind = "unbound" /\ ~Bound(e[1].ids[n]) => s = 0
      /\ HasLinkage(e[1].ids[n]) => s # 0
      /\ l[n].kind = "object" /\ s # 0 => ObjectRecord(t, s, l[n])
      /\ l[n].kind = "function" /\ s # 0 => FunctionRecord(t, s, l[n])
  BY DEF FileAgree
<1> HIDE DEF s
<1>2. ObjectRecord(t, s, l[n]) => ObjectRecord(u, s, l[n])
  BY DEF ObjectRecord
<1>3. FunctionRecord(t, s, l[n]) => FunctionRecord(u, s, l[n])
  BY DEF FunctionRecord
<1> QED BY <1>1, <1>2, <1>3 DEF s

\* A step that leaves identifiers and symbols alone
LEMMA IdsKept ==
  ASSUME NEW t, NEW e, NEW l, TabInv(t, e, l), NEW u, NEW f,
         Framed(u, f), TagsAgree(u, f), Len(f) = Len(e), Len(u.scopes) = Len(t.scopes),
         SameLists(t, u), ~u.rejected, u.symbols = t.symbols,
         \A i \in 1..Len(e) : u.scopes[i].ids = t.scopes[i].ids /\ f[i].ids = e[i].ids
  PROVE  TabInv(u, f, l)
<1> USE DEF TabInv
<1>1. Len(e) \in Nat /\ Len(e) > 0 /\ 1 \in 1..Len(e) /\ Len(t.scopes) = Len(e)
  BY NamedTables
<1>2. Objects(u) = Objects(t) /\ u.functions = t.functions /\ u.FSYM = t.FSYM
  BY DEF Objects, SameLists
<1>3. Named(u)
  BY <1>1, <1>2 DEF Named, NamedIn
<1>4. OwnAgree(u, f)
  <2> SUFFICES ASSUME NEW i \in 1..Len(e) PROVE OwnIn(u, u.scopes[i], f[i])
    BY DEF OwnAgree
  <2>1. OwnIn(t, t.scopes[i], e[i])
    BY DEF OwnAgree
  <2> QED BY <2>1 DEF OwnIn
<1>5. InNoOther(u, f)
  <2> SUFFICES ASSUME NEW i \in 1..Len(f), NEW j \in 1..Len(f), NEW p \in Names,
                      Own(f[i].ids[p]), i # j
               PROVE  u.scopes[j].ids[p] # f[i].ids[p].id
    BY DEF InNoOther
  <2>1. i \in 1..Len(e) /\ j \in 1..Len(e) /\ u.scopes[j].ids = t.scopes[j].ids /\ f[i].ids = e[i].ids
    OBVIOUS
  <2> QED BY <2>1 DEF InNoOther
<1>6. Deep(u, f)
  BY DEF Deep, DeepIn
<1>7. Inner(u, f)
  BY DEF Inner
<1>8. LinkedAgree(f, l)
  BY <1>1 DEF LinkedAgree
<1>9. FileAgree(u, f, l)
  BY <1>1, <1>2, FileKept
<1>10. Sole(u, l)
  BY <1>1, <1>2 DEF Sole
<1> QED BY <1>3, <1>4, <1>5, <1>6, <1>7, <1>8, <1>9, <1>10

\* A change to tags that leaves their categories alone keeps the invariant
LEMMA RetaggedKeeps ==
  ASSUME NEW t, NEW e, NEW l, TabInv(t, e, l), NEW u, Retagged(t, u)
  PROVE  TabInv(u, e, l)
<1>1. u.scopes = t.scopes /\ u.Level = t.Level /\ u \in Tables /\ u.symbols = t.symbols /\ ~u.rejected
  BY DEF Retagged, SameScopes, TabInv
<1>2. Framed(u, e)
  BY <1>1 DEF Framed, TabInv
<1>3. TagsAgree(u, e)
  BY <1>1 DEF Retagged, TagsAgree, TagsIn, TabInv
<1> QED BY <1>1, <1>2, <1>3, IdsKept DEF Retagged

\* A new tag, in the table and in C's innermost scope, keeps the invariant
LEMMA TagPlacedKeeps ==
  ASSUME NEW t, NEW e, NEW l, TabInv(t, e, l), NEW u, NEW f, NEW n \in TagNames,
         NEW categ \in {"struct", "enum"}, TagPlaced(t, u, n, categ),
         Retied(e, f, n, Entity(categ, "none", Len(t.tags) + 1))
  PROVE  TabInv(u, f, l)
<1> DEFINE k == Len(t.tags) + 1
           x == Entity(categ, "none", k)
<1>1. /\ t \in Tables /\ Len(t.scopes) = Len(e) /\ Len(e) \in Nat /\ Len(e) > 0
      /\ t.Level = Len(e) - 1 /\ Len(t.tags) \in Nat
      /\ \A i \in 1..Len(e) : t.scopes[i].level = i - 1
  BY NamedTables, TableFields DEF TabInv
<1>2. x.kind = categ /\ x.id = k /\ ~HasLinkage(x)
  BY EntityFields
<1>3. /\ Len(u.tags) = k /\ u.tags[k].categ = categ /\ \A s \in 1..Len(t.tags) : u.tags[s] = t.tags[s]
      /\ u \in Tables /\ u.Level = t.Level /\ Len(u.scopes) = Len(e) /\ u.symbols = t.symbols
      /\ ~u.rejected
      /\ \A i \in 1..Len(e) :
           /\ u.scopes[i].level = t.scopes[i].level /\ u.scopes[i].ids = t.scopes[i].ids
           /\ \A m \in TagNames : u.scopes[i].tags[m] = IF i = Len(e) /\ m = n THEN k ELSE t.scopes[i].tags[m]
  BY <1>1 DEF TagPlaced, TabInv
<1>4. /\ f \in Seq(CScopes) /\ Len(f) = Len(e)
      /\ \A i \in 1..Len(e) :
           /\ f[i].ids = e[i].ids
           /\ \A m \in TagNames : f[i].tags[m] = IF i = Len(e) /\ m = n THEN x ELSE e[i].tags[m]
  BY DEF Retied
<1> HIDE DEF k, x
<1>5. Framed(u, f)
  BY <1>1, <1>3, <1>4 DEF Framed
<1>6. TagsAgree(u, f)
  <2> SUFFICES ASSUME NEW i \in 1..Len(e), NEW m \in TagNames
               PROVE  /\ u.scopes[i].tags[m] = f[i].tags[m].id /\ ~HasLinkage(f[i].tags[m])
                      /\ Bound(f[i].tags[m]) => /\ u.scopes[i].tags[m] \in 1..Len(u.tags)
                                                /\ u.tags[u.scopes[i].tags[m]].categ = f[i].tags[m].kind
    BY <1>4 DEF TagsAgree, TagsIn
  <2>1. CASE i = Len(e) /\ m = n
    <3>1. u.scopes[i].tags[m] = k /\ f[i].tags[m] = x
      BY <1>3, <1>4, <2>1
    <3>2. k \in 1..Len(u.tags)
      BY <1>1, <1>3 DEF k
    <3> QED BY <1>2, <1>3, <3>1, <3>2
  <2>2. CASE ~(i = Len(e) /\ m = n)
    <3>1. u.scopes[i].tags[m] = t.scopes[i].tags[m] /\ f[i].tags[m] = e[i].tags[m]
      BY <1>3, <1>4, <2>2
    <3>2. /\ t.scopes[i].tags[m] = e[i].tags[m].id /\ ~HasLinkage(e[i].tags[m])
          /\ Bound(e[i].tags[m]) => /\ t.scopes[i].tags[m] \in 1..Len(t.tags)
                                    /\ t.tags[t.scopes[i].tags[m]].categ = e[i].tags[m].kind
      BY DEF TabInv, TagsAgree, TagsIn
    <3>3. 1..Len(t.tags) \subseteq 1..Len(u.tags)
      BY <1>1, <1>3 DEF k
    <3> QED BY <1>3, <3>1, <3>2, <3>3
  <2> QED BY <2>1, <2>2
<1> QED BY <1>1, <1>3, <1>4, <1>5, <1>6, IdsKept DEF TagPlaced

-----------------------------------------------------------------------------
(* Scopes opened and closed.                                                *)

\* sc, and C's b, may be opened
Opens(t, e, sc, b) == sc \in ScopeSet /\ sc.level = Len(e) /\ b \in CScopes /\ Detached(t, e, sc, b)

Pushed(t, sc) == [t EXCEPT !.Level = @ + 1, !.scopes = Append(@, sc)]

\* A scope put on both stacks keeps the invariant, if nothing it declares is in an
\* open one
LEMMA PushKeeps ==
  ASSUME NEW t, NEW e, NEW l, TabInv(t, e, l), NEW sc, NEW b, Opens(t, e, sc, b)
  PROVE  TabInv(Pushed(t, sc), Append(e, b), l)
<1> DEFINE c == Len(e)
           u == Pushed(t, sc)
           f == Append(e, b)
<1> USE DEF TabInv
<1>1. /\ t \in Tables /\ Len(t.scopes) = c /\ c \in Nat /\ c > 0 /\ t.Level = c - 1
      /\ e \in Seq(CScopes)
      /\ \A i \in 1..c : t.scopes[i].level = i - 1 /\ NamedIn(t, t.scopes[i])
  BY NamedTables DEF Framed
<1>2. /\ Append(t.scopes, sc) \in Seq(ScopeSet) /\ Len(Append(t.scopes, sc)) = c + 1
      /\ \A i \in 1..c : Append(t.scopes, sc)[i] = t.scopes[i]
      /\ Append(t.scopes, sc)[c + 1] = sc
  BY <1>1, TableFields, AppendProperties DEF Opens, Detached
<1>3. /\ f \in Seq(CScopes) /\ Len(f) = c + 1 /\ \A i \in 1..c : f[i] = e[i]
      /\ f[c + 1] = b
  BY <1>1, AppendProperties DEF Opens, Detached
<1>4. /\ u \in Tables /\ u.Level = c /\ u.scopes = Append(t.scopes, sc) /\ u.symbols = t.symbols
      /\ u.tags = t.tags /\ u.Globals = t.Globals /\ u.functions = t.functions /\ u.FSYM = t.FSYM
      /\ u.rejected = t.rejected
  <2> DEFINE z == Append(t.scopes, sc)
  <2>1. t.Level + 1 = c
    BY <1>1
  <2> HIDE DEF c
  <2>2. u = [t EXCEPT !.Level = c, !.scopes = z]
    BY <2>1 DEF Pushed
  <2> HIDE DEF u, z
  <2>3. z \in Seq(ScopeSet)
    BY <1>2 DEF z
  <2>4. /\ u \in Tables /\ u.Level = c /\ u.scopes = z /\ u.symbols = t.symbols
        /\ u.tags = t.tags /\ u.Globals = t.Globals /\ u.functions = t.functions /\ u.FSYM = t.FSYM
        /\ u.rejected = t.rejected
    BY <1>1, <2>2, <2>3 DEF Tables
  <2> QED BY <2>4 DEF z
<1> HIDE DEF u, f, c
<1>5. /\ Len(u.scopes) = c + 1 /\ u.scopes[c + 1] = sc /\ \A i \in 1..c : u.scopes[i] = t.scopes[i]
      /\ Objects(u) = Objects(t)
  BY <1>2, <1>4 DEF Objects
<1>6. 1..(c + 1) = 1..c \cup {c + 1} /\ 2..(c + 1) = 2..c \cup {c + 1} /\ 1 \in 1..c
  BY <1>1
<1>7. Framed(u, f)
  BY <1>1, <1>3, <1>4, <1>5, <1>6 DEF Framed, Opens, Detached, c
<1>8. Named(u)
  <2>1. ASSUME NEW i \in 1..(c + 1) PROVE NamedIn(u, u.scopes[i])
    BY <1>1, <1>4, <1>5, <1>6 DEF NamedIn, Opens, Detached
  <2> QED BY <2>1, <1>4, <1>5 DEF Named
<1>9. TagsAgree(u, f)
  <2> SUFFICES ASSUME NEW i \in 1..(c + 1) PROVE TagsIn(u, u.scopes[i], f[i])
    BY <1>3 DEF TagsAgree
  <2>1. TagsIn(t, u.scopes[i], f[i])
    BY <1>3, <1>5, <1>6 DEF TagsAgree, Opens, Detached, c
  <2> QED BY <1>4, <2>1 DEF TagsIn
<1>10. OwnAgree(u, f)
  <2> SUFFICES ASSUME NEW i \in 1..(c + 1) PROVE OwnIn(u, u.scopes[i], f[i])
    BY <1>3 DEF OwnAgree
  <2>1. OwnIn(t, u.scopes[i], f[i])
    BY <1>3, <1>5, <1>6 DEF OwnAgree, Opens, Detached, c
  <2> QED BY <1>4, <2>1 DEF OwnIn
<1>11. InNoOther(u, f)
  <2> SUFFICES ASSUME NEW i \in 1..(c + 1), NEW j \in 1..(c + 1), NEW n \in Names, Own(f[i].ids[n]), i # j
               PROVE  u.scopes[j].ids[n] # f[i].ids[n].id
    BY <1>3 DEF InNoOther
  <2>1. CASE i = c + 1
    <3>1. j \in 1..c /\ f[i] = b /\ u.scopes[j] = t.scopes[j]
      BY <1>3, <1>5, <1>6, <2>1
    <3> QED BY <3>1 DEF Opens, Detached, c, Own
  <2>2. CASE i \in 1..c /\ j = c + 1
    <3>1. f[i] = e[i] /\ u.scopes[j] = sc
      BY <1>3, <1>5, <2>2
    <3>2. e[i].ids[n].id # 0 /\ t.scopes[i].ids[n] = e[i].ids[n].id
      BY <2>2, <3>1 DEF OwnAgree, OwnIn, c
    <3>3. CASE ~Bound(b.ids[n])
      BY <3>1, <3>2, <3>3 DEF Opens, Detached
    <3>4. CASE Bound(b.ids[n])
      <4>1. Own(b.ids[n])
        BY <3>4 DEF Opens, Detached, Own
      <4>2. sc.ids[n] = b.ids[n].id
        BY <4>1 DEF Opens, Detached, OwnIn
      <4>3. t.scopes[i].ids[n] # b.ids[n].id
        BY <2>2, <3>4 DEF Opens, Detached, c
      <4> QED BY <3>1, <3>2, <4>2, <4>3
    <3> QED BY <3>3, <3>4
  <2>3. CASE i \in 1..c /\ j \in 1..c
    BY <1>3, <1>5, <2>3 DEF InNoOther, c
  <2> QED BY <1>6, <2>1, <2>2, <2>3
<1>12. Deep(u, f)
  <2> SUFFICES ASSUME NEW i \in 2..(c + 1) PROVE DeepIn(u, f[i])
    BY <1>3 DEF Deep
  <2>1. CASE i = c + 1
    BY <1>3, <1>4, <2>1 DEF Opens, Detached, DeepIn
  <2>2. CASE i \in 2..c
    <3>1. f[i] = e[i]
      BY <1>3, <2>2
    <3> QED BY <1>4, <2>2, <3>1 DEF Deep, DeepIn, c
  <2> QED BY <1>6, <2>1, <2>2
<1>13. Inner(u, f)
  <2> SUFFICES ASSUME NEW i \in 2..(c + 1), NEW n \in Names
               PROVE  /\ ~Bound(f[i].ids[n]) => u.scopes[i].ids[n] = 0
                      /\ f[i].ids[n].kind = "object" =>
                           /\ u.scopes[i].ids[n] # 0
                           /\ u.symbols[u.scopes[i].ids[n]].kind = "Variable"
                           /\ u.symbols[u.scopes[i].ids[n]].sclass = "extern"
    BY <1>3 DEF Inner
  <2>1. CASE i = c + 1
    <3>1. f[i] = b /\ u.scopes[i] = sc
      BY <1>3, <1>5, <2>1
    <3>2. Own(b.ids[n]) => b.ids[n].kind # "object"
      BY DEF Opens, Detached, OwnIn, OwnKinds
    <3>3. ~Bound(b.ids[n]) => b.ids[n].kind # "object"
      BY UnboundFields DEF Bound
    <3> QED BY <3>1, <3>2, <3>3 DEF Opens, Detached, Own
  <2>2. CASE i \in 2..c
    <3>1. f[i] = e[i] /\ u.scopes[i] = t.scopes[i]
      BY <1>3, <1>5, <2>2
    <3> QED BY <1>4, <2>2, <3>1 DEF Inner, c
  <2> QED BY <1>6, <2>1, <2>2
<1>14. LinkedAgree(f, l)
  <2>1. ASSUME NEW i \in 1..(c + 1), NEW n \in Names, HasLinkage(f[i].ids[n])
        PROVE  /\ f[i].ids[n].kind \in LinkedKinds /\ f[i].ids[n].kind = l[n].kind
               /\ f[i].ids[n].link = l[n].link
               /\ i > 1 => ~l[n].plain
    <3>1. CASE i = c + 1
      BY <1>3, <2>1, <3>1 DEF Opens, Detached
    <3>2. CASE i \in 1..c
      BY <1>3, <2>1, <3>2 DEF LinkedAgree, c
    <3> QED BY <1>6, <3>1, <3>2
  <2>2. f[1] = e[1]
    BY <1>3, <1>6
  <2> QED BY <1>3, <2>1, <2>2 DEF LinkedAgree
<1>15. FileAgree(u, f, l)
  <2>1. f[1] = e[1] /\ u.scopes[1] = t.scopes[1]
    BY <1>3, <1>5, <1>6
  <2> QED BY <1>4, <1>5, <2>1, FileKept
<1>16. Sole(u, l)
  <2>1. u.scopes[1] = t.scopes[1]
    BY <1>5, <1>6
  <2> QED BY <1>4, <2>1 DEF Sole
<1> QED BY <1>4, <1>7, <1>8, <1>9, <1>10, <1>11, <1>12, <1>13, <1>14, <1>15, <1>16 DEF u, f

\* Leaving a scope (ExitScope) keeps the invariant and the outer scopes
LEMMA PopKeeps ==
  ASSUME NEW t, NEW e, NEW l, TabInv(t, e, l), Len(e) > 1
  PROVE  /\ TabInv(ExitScope(t), Close(e), l)
         /\ Len(Close(e)) = Len(e) - 1 /\ \A i \in 1..Len(e) - 1 : Close(e)[i] = e[i]
         /\ \A i \in 1..Len(e) - 1 : ExitScope(t).scopes[i] = t.scopes[i]
         /\ ExitScope(t).symbols = t.symbols /\ ExitScope(t).saved = t.saved /\ ExitScope(t).tags = t.tags
<1> DEFINE c == Len(e) - 1
           u == ExitScope(t)
           f == Close(e)
<1> USE DEF TabInv
<1>1. /\ t \in Tables /\ Len(t.scopes) = c + 1 /\ Len(e) = c + 1 /\ c \in Nat /\ c > 0 /\ t.Level = c
      /\ e \in Seq(CScopes)
      /\ \A i \in 1..(c + 1) : t.scopes[i].level = i - 1 /\ NamedIn(t, t.scopes[i])
  BY NamedTables DEF Framed
<1>2. /\ Front(t.scopes) \in Seq(ScopeSet) /\ Len(Front(t.scopes)) = c
      /\ \A i \in 1..c : Front(t.scopes)[i] = t.scopes[i]
  <2>1. \A i \in 1..c : t.scopes[i] \in ScopeSet
    BY <1>1, TableFields
  <2> HIDE DEF c
  <2> DEFINE z == t.scopes
  <2>2. Front(z) = SubSeq(z, 1, c) /\ \A i \in 1..c : z[i] \in ScopeSet
    BY <1>1, <2>1 DEF Front
  <2> HIDE DEF z
  <2>3. Front(z) \in Seq(ScopeSet) /\ Len(Front(z)) = c /\ \A i \in 1..c : Front(z)[i] = z[i]
    BY <1>1, <2>2, SubSeqProperties
  <2> QED BY <2>3 DEF z
<1>3. /\ f \in Seq(CScopes) /\ Len(f) = c /\ \A i \in 1..c : f[i] = e[i]
  <2>1. \A i \in 1..c : e[i] \in CScopes
    BY <1>1, ElementOfSeq
  <2> HIDE DEF c
  <2>2. f = SubSeq(e, 1, c)
    BY <1>1 DEF Front, Close
  <2> QED BY <1>1, <2>1, <2>2, SubSeqProperties
<1>4. /\ u \in Tables /\ u.Level = c - 1 /\ u.scopes = Front(t.scopes) /\ u.symbols = t.symbols
      /\ u.tags = t.tags /\ u.Globals = t.Globals /\ u.functions = t.functions /\ u.FSYM = t.FSYM
      /\ u.rejected = t.rejected /\ u.saved = t.saved
  <2> DEFINE z == Front(t.scopes)
  <2>1. t.Level - 1 = c - 1 /\ c - 1 \in Nat
    BY <1>1
  <2>2. u = [t EXCEPT !.Level = t.Level - 1, !.scopes = z]
    BY DEF ExitScope
  <2> HIDE DEF u, z, c
  <2>3. z \in Seq(ScopeSet)
    BY <1>2 DEF z
  <2>4. /\ u \in Tables /\ u.Level = c - 1 /\ u.scopes = z /\ u.symbols = t.symbols
        /\ u.tags = t.tags /\ u.Globals = t.Globals /\ u.functions = t.functions /\ u.FSYM = t.FSYM
        /\ u.rejected = t.rejected /\ u.saved = t.saved
    BY <1>1, <2>1, <2>2, <2>3 DEF Tables
  <2> QED BY <2>4 DEF z
<1> HIDE DEF u, f, c
<1>5. /\ Len(u.scopes) = c /\ \A i \in 1..c : u.scopes[i] = t.scopes[i]
      /\ Objects(u) = Objects(t)
  BY <1>2, <1>4 DEF Objects
<1>6. 1 \in 1..c /\ 1..c \subseteq 1..Len(e) /\ 2..c \subseteq 2..Len(e)
  BY <1>1
<1>7. Framed(u, f)
  BY <1>1, <1>3, <1>4, <1>5 DEF Framed
<1>8. Named(u)
  <2>1. ASSUME NEW i \in 1..c PROVE NamedIn(u, u.scopes[i])
    <3>1. NamedIn(t, t.scopes[i]) /\ u.scopes[i] = t.scopes[i]
      BY <1>1, <1>5
    <3> QED BY <1>4, <3>1 DEF NamedIn
  <2> QED BY <2>1, <1>4, <1>5 DEF Named
<1>9. TagsAgree(u, f)
  <2> SUFFICES ASSUME NEW i \in 1..c PROVE TagsIn(u, u.scopes[i], f[i])
    BY <1>3 DEF TagsAgree
  <2>1. TagsIn(t, u.scopes[i], f[i])
    BY <1>3, <1>5, <1>6 DEF TagsAgree
  <2> QED BY <1>4, <2>1 DEF TagsIn
<1>10. OwnAgree(u, f)
  <2> SUFFICES ASSUME NEW i \in 1..c PROVE OwnIn(u, u.scopes[i], f[i])
    BY <1>3 DEF OwnAgree
  <2>1. OwnIn(t, u.scopes[i], f[i])
    BY <1>3, <1>5, <1>6 DEF OwnAgree
  <2> QED BY <1>4, <2>1 DEF OwnIn
<1>11. InNoOther(u, f)
  <2> SUFFICES ASSUME NEW i \in 1..Len(f), NEW j \in 1..Len(f), NEW p \in Names,
                      Own(f[i].ids[p]), i # j
               PROVE  u.scopes[j].ids[p] # f[i].ids[p].id
    BY DEF InNoOther
  <2>1. i \in 1..Len(e) /\ j \in 1..Len(e) /\ u.scopes[j] = t.scopes[j] /\ f[i] = e[i]
    BY <1>3, <1>5, <1>6
  <2> QED BY <2>1 DEF InNoOther
<1>12. Deep(u, f)
  <2> SUFFICES ASSUME NEW i \in 2..c PROVE DeepIn(u, f[i])
    BY <1>3 DEF Deep
  <2>1. f[i] = e[i] /\ i \in 2..Len(e)
    BY <1>3, <1>6
  <2> QED BY <1>4, <2>1 DEF Deep, DeepIn
<1>13. Inner(u, f)
  <2> SUFFICES ASSUME NEW i \in 2..c, NEW n \in Names
               PROVE  /\ ~Bound(f[i].ids[n]) => u.scopes[i].ids[n] = 0
                      /\ f[i].ids[n].kind = "object" =>
                           /\ u.scopes[i].ids[n] # 0
                           /\ u.symbols[u.scopes[i].ids[n]].kind = "Variable"
                           /\ u.symbols[u.scopes[i].ids[n]].sclass = "extern"
    BY <1>3 DEF Inner
  <2>1. f[i] = e[i] /\ u.scopes[i] = t.scopes[i] /\ i \in 2..Len(e)
    BY <1>3, <1>5, <1>6
  <2> QED BY <1>4, <2>1 DEF Inner
<1>14. LinkedAgree(f, l)
  <2>1. \A i \in 1..c : f[i] = e[i] /\ i \in 1..Len(e)
    BY <1>3, <1>6
  <2>2. f[1] = e[1]
    BY <1>6, <2>1
  <2> QED BY <1>3, <2>1, <2>2 DEF LinkedAgree
<1>15. FileAgree(u, f, l)
  <2>1. f[1] = e[1] /\ u.scopes[1] = t.scopes[1]
    BY <1>3, <1>5, <1>6
  <2> QED BY <1>4, <1>5, <2>1, FileKept
<1>16. Sole(u, l)
  <2>1. u.scopes[1] = t.scopes[1]
    BY <1>5, <1>6
  <2> QED BY <1>4, <2>1 DEF Sole
<1>17. TabInv(u, f, l)
  BY <1>4, <1>7, <1>8, <1>9, <1>10, <1>11, <1>12, <1>13, <1>14, <1>15, <1>16
<1> QED BY <1>17, <1>3, <1>4, <1>5 DEF u, f, c
=============================================================================
