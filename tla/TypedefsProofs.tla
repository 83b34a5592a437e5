--------------------------- MODULE TypedefsProofs ---------------------------
(***************************************************************************)
(* For any names and any nesting: where the parser knows the typedef names *)
(***************************************************************************)
EXTENDS Typedefs, TLAPS

-----------------------------------------------------------------------------
(* The inductive invariant                                                  *)

\* An entry is overloaded by a block that is open
Within ==
    \A id \in Ids : TypedefNames[id] # NULL /\ TypedefNames[id].overload =>
        TypedefNames[id].overloadLevel \in 1 .. Level

\* Level 0 marks the typedefs at file scope
FileLevel ==
    \A id \in Ids :
        scopes[1][id] = "typedef" <=> TypedefNames[id] # NULL /\ TypedefNames[id].level = 0

\* local is what it says
LocalOnly ==
    \A id \in Ids \ local :
        /\ TypedefNames[id] # NULL => TypedefNames[id].level = 0
        /\ \A l \in 2 .. Len(scopes) : scopes[l][id] # "typedef"

\* A name that is not nested is overloaded by the one block that declares it
OneBlock ==
    \A id \in Ids \ (local \cup nested) :
        /\ \A l, m \in 2 .. Len(scopes) :
               scopes[l][id] = "other" /\ scopes[m][id] = "other" => l = m
        /\ TypedefNames[id] # NULL =>
               /\ \A l \in 2 .. Len(scopes) : scopes[l][id] = "other" => TypedefNames[id].overload
               /\ TypedefNames[id].overload =>
                      scopes[TypedefNames[id].overloadLevel + 1][id] = "other"

IInv == TypeOK /\ OverloadsListed /\ Within /\ FileLevel /\ LocalOnly /\ OneBlock

Kinds == {"none", "typedef", "other"}

LEMMA InitIInv == Init => IInv
<1> SUFFICES ASSUME Init PROVE IInv
  OBVIOUS
<1>1. Declared({}, "none") \in [Ids -> Kinds] /\ \A id \in Ids : Declared({}, "none")[id] = "none"
  BY DEF Declared, Kinds
<1>2. Len(scopes) = 1 /\ scopes[1] = Declared({}, "none") /\ scopes \in Seq([Ids -> Kinds])
  BY <1>1 DEF Init
<1>3. TypeOK
  BY <1>2, TypedefsAssumption DEF Init, TypeOK, Kinds
<1>4. OverloadsListed /\ Within
  BY DEF Init, OverloadsListed, Within
<1>5. FileLevel /\ LocalOnly /\ OneBlock
  BY <1>1, <1>2 DEF Init, FileLevel, LocalOnly, OneBlock
<1> QED
  BY <1>3, <1>4, <1>5 DEF IInv

\* The types of the entries and of the scopes, name by name
LEMMA TypeFacts ==
    ASSUME IInv
    PROVE  /\ Level \in Nat /\ Len(scopes) = Level + 1 /\ Len(scopes) \in Nat
           /\ scopes \in Seq([Ids -> Kinds])
           /\ \A id \in Ids : TypedefNames[id] # NULL =>
                  /\ TypedefNames[id] \in Entry /\ TypedefNames[id].level \in Nat
                  /\ TypedefNames[id].overload \in BOOLEAN
                  /\ TypedefNames[id].overloadLevel \in Nat
           /\ \A l \in 1 .. Len(scopes) : scopes[l] \in [Ids -> Kinds]
           /\ NULL \notin Entry
<1>1. Level \in Nat /\ Len(scopes) = Level + 1 /\ scopes \in Seq([Ids -> Kinds])
  BY TypedefsAssumption DEF IInv, TypeOK, Kinds
<1>2. \A id \in Ids : TypedefNames[id] # NULL => TypedefNames[id] \in Entry
  BY DEF IInv, TypeOK
<1>3. \A id \in Ids : TypedefNames[id] # NULL =>
          /\ TypedefNames[id].level \in Nat /\ TypedefNames[id].overload \in BOOLEAN
          /\ TypedefNames[id].overloadLevel \in Nat
  BY <1>2 DEF Entry
<1> QED
  BY <1>1, <1>2, <1>3, TypedefsAssumption DEF Entry

-----------------------------------------------------------------------------
(* The steps                                                                *)

\* What InScope does to the stack
LEMMA InScopeFacts ==
    ASSUME IInv, NEW S \in SUBSET Ids, NEW kind \in Kinds, InScope(S, kind)
    PROVE  /\ scopes' \in Seq([Ids -> Kinds]) /\ Len(scopes') = Len(scopes)
           /\ \A l \in 1 .. Len(scopes), id \in Ids :
                  scopes'[l][id] = IF l = Len(scopes) /\ id \in S THEN kind ELSE scopes[l][id]
<1> DEFINE top == [id \in Ids |-> IF id \in S THEN kind ELSE scopes[Len(scopes)][id]]
<1>1. scopes \in Seq([Ids -> Kinds]) /\ Len(scopes) \in 1 .. Len(scopes)
      /\ scopes[Len(scopes)] \in [Ids -> Kinds]
  BY TypeFacts
<1>2. scopes' = [scopes EXCEPT ![Len(scopes)] = top]
  BY DEF InScope
<1>3. top \in [Ids -> Kinds] /\ \A id \in Ids : top[id] = IF id \in S THEN kind ELSE scopes[Len(scopes)][id]
  BY <1>1
<1> HIDE DEF top
<1>4. scopes' \in Seq([Ids -> Kinds]) /\ Len(scopes') = Len(scopes)
      /\ \A l \in 1 .. Len(scopes) : scopes'[l] = IF l = Len(scopes) THEN top ELSE scopes[l]
  BY <1>1, <1>2, <1>3
<1> QED
  BY <1>3, <1>4

LEMMA TypedefIInv == ASSUME IInv, NEW S \in SUBSET Ids, Typedef(S) PROVE IInv'
<1>1. /\ \A id \in S : scopes[Len(scopes)][id] \in {"none", "typedef"}
      /\ TypedefNames' = [id \in Ids |->
             IF id \notin S THEN TypedefNames[id]
             ELSE IF TypedefNames[id] = NULL
             THEN [level |-> Level, overload |-> FALSE, overloadLevel |-> 0]
             ELSE [TypedefNames[id] EXCEPT !.level = NewLevel(TypedefNames[id])]]
      /\ local' = IF Level = 0 THEN local ELSE local \cup S
      /\ UNCHANGED <<Level, OverloadNames, declaring, nested>>
  BY DEF Typedef, MayDeclare
<1>2. /\ scopes' \in Seq([Ids -> Kinds]) /\ Len(scopes') = Len(scopes)
      /\ \A l \in 1 .. Len(scopes), id \in Ids :
             scopes'[l][id] = IF l = Len(scopes) /\ id \in S THEN "typedef" ELSE scopes[l][id]
  BY InScopeFacts DEF Typedef, Kinds
<1>3. ASSUME NEW id \in Ids
      PROVE  /\ id \notin S => TypedefNames'[id] = TypedefNames[id]
             /\ id \in S => TypedefNames'[id] \in Entry
             /\ id \in S /\ TypedefNames[id] = NULL =>
                    TypedefNames'[id].level = Level /\ ~TypedefNames'[id].overload
             /\ id \in S /\ TypedefNames[id] # NULL =>
                    /\ TypedefNames'[id].level = NewLevel(TypedefNames[id])
                    /\ TypedefNames'[id].overload = TypedefNames[id].overload
                    /\ TypedefNames'[id].overloadLevel = TypedefNames[id].overloadLevel
  <2>1. Level \in Nat
    BY TypeFacts
  <2>2. CASE id \notin S
    BY <1>1, <2>2
  <2>3. CASE id \in S /\ TypedefNames[id] = NULL
    <3>1. TypedefNames'[id] = [level |-> Level, overload |-> FALSE, overloadLevel |-> 0]
      BY <1>1, <2>3
    <3> QED
      BY <2>1, <2>3, <3>1 DEF Entry
  <2>4. CASE id \in S /\ TypedefNames[id] # NULL
    <3>1. TypedefNames'[id] = [TypedefNames[id] EXCEPT !.level = NewLevel(TypedefNames[id])]
      BY <1>1, <2>4
    <3>2. TypedefNames[id] \in Entry /\ NewLevel(TypedefNames[id]) \in Nat
      BY <2>1, <2>4, TypeFacts DEF NewLevel
    <3> HIDE DEF NewLevel
    <3> QED
      BY <2>4, <3>1, <3>2 DEF Entry
  <2> QED
    BY <2>2, <2>3, <2>4
<1>4. /\ Level \in Nat /\ Len(scopes) = Level + 1
      /\ \A id \in Ids : TypedefNames[id] # NULL =>
             TypedefNames[id].level \in Nat /\ TypedefNames[id].overloadLevel \in Nat
      /\ NULL \notin Entry
  BY TypeFacts
<1>5. TypeOK'
  <2>1. TypedefNames' \in [Ids -> Entry \cup {NULL}]
    <3>1. \A id \in Ids : TypedefNames'[id] \in Entry \cup {NULL}
      BY <1>3 DEF IInv, TypeOK
    <3> QED
      BY <1>1, <3>1
  <2>2. OverloadNames' \in SUBSET {id \in Ids : TypedefNames'[id] # NULL}
    BY <1>1, <1>3, <1>4 DEF IInv, TypeOK
  <2> QED
    BY <1>1, <1>2, <2>1, <2>2 DEF IInv, TypeOK, Kinds
<1>6. OverloadsListed' /\ Within'
  <2>1. \A id \in Ids : TypedefNames'[id] # NULL /\ TypedefNames'[id].overload =>
            /\ TypedefNames[id] # NULL /\ TypedefNames[id].overload
            /\ TypedefNames'[id].overloadLevel = TypedefNames[id].overloadLevel
    BY <1>3
  <2> QED
    BY <1>1, <2>1 DEF IInv, OverloadsListed, Within
<1>7. FileLevel'
  <2> SUFFICES ASSUME NEW id \in Ids
               PROVE  scopes'[1][id] = "typedef" <=>
                          TypedefNames'[id] # NULL /\ TypedefNames'[id].level = 0
    BY DEF FileLevel
  <2>1. scopes[1][id] = "typedef" <=> TypedefNames[id] # NULL /\ TypedefNames[id].level = 0
    BY DEF IInv, FileLevel
  <2>2. CASE id \notin S
    BY <1>2, <1>3, <1>4, <2>1, <2>2
  <2>3. CASE id \in S /\ Level = 0
    BY <1>2, <1>3, <1>4, <2>3 DEF NewLevel
  <2>4. CASE id \in S /\ Level # 0
    <3>1. scopes'[1][id] = scopes[1][id]
      BY <1>2, <1>4, <2>4
    <3> QED
      BY <1>3, <1>4, <2>1, <2>4, <3>1 DEF NewLevel
  <2> QED
    BY <2>2, <2>3, <2>4
<1>8. CASE Level = 0
  <2>1. LocalOnly'
    <3> SUFFICES ASSUME NEW id \in Ids, id \notin local, TypedefNames'[id] # NULL
                 PROVE  TypedefNames'[id].level = 0
      BY <1>1, <1>2, <1>4, <1>8 DEF LocalOnly
    <3>1. TypedefNames[id] # NULL => TypedefNames[id].level = 0
      BY DEF IInv, LocalOnly
    <3> QED
      BY <1>3, <1>4, <1>8, <3>1 DEF NewLevel
  <2>2. OneBlock'
    <3>1. \A id \in Ids : TypedefNames'[id] # NULL => ~TypedefNames'[id].overload
      BY <1>1, <1>6, <1>8 DEF Within
    <3> QED
      BY <1>2, <1>4, <1>8, <3>1 DEF OneBlock
  <2> QED
    BY <1>5, <1>6, <1>7, <2>1, <2>2 DEF IInv
<1>9. CASE Level # 0
  <2>1. \A id \in Ids \ local' : id \in Ids \ local /\ id \notin S
    BY <1>1, <1>9
  <2>2. LocalOnly'
    <3> SUFFICES ASSUME NEW id \in Ids \ local'
                 PROVE  /\ TypedefNames'[id] # NULL => TypedefNames'[id].level = 0
                        /\ \A l \in 2 .. Len(scopes) : scopes'[l][id] # "typedef"
      BY <1>2 DEF LocalOnly
    <3>1. id \in Ids \ local /\ id \notin S /\ TypedefNames'[id] = TypedefNames[id]
      BY <1>3, <2>1
    <3>2. \A l \in 1 .. Len(scopes) : scopes'[l][id] = scopes[l][id]
      BY <1>2, <3>1
    <3> QED
      BY <1>4, <3>1, <3>2 DEF IInv, LocalOnly
  <2>3. OneBlock'
    <3> SUFFICES ASSUME NEW id \in Ids \ (local' \cup nested')
                 PROVE  /\ \A l, m \in 2 .. Len(scopes) :
                               scopes'[l][id] = "other" /\ scopes'[m][id] = "other" => l = m
                        /\ TypedefNames'[id] # NULL =>
                               /\ \A l \in 2 .. Len(scopes) :
                                      scopes'[l][id] = "other" => TypedefNames'[id].overload
                               /\ TypedefNames'[id].overload =>
                                      scopes'[TypedefNames'[id].overloadLevel + 1][id] = "other"
      BY <1>2 DEF OneBlock
    <3>1. id \in Ids \ (local \cup nested) /\ id \notin S /\ TypedefNames'[id] = TypedefNames[id]
      BY <1>1, <1>3, <2>1
    <3>2. \A l \in 1 .. Len(scopes) : scopes'[l][id] = scopes[l][id]
      BY <1>2, <3>1
    <3>3. TypedefNames[id] # NULL /\ TypedefNames[id].overload =>
              TypedefNames[id].overloadLevel + 1 \in 1 .. Len(scopes)
      BY <1>4, <3>1 DEF IInv, Within
    <3> QED
      BY <1>4, <3>1, <3>2, <3>3 DEF IInv, OneBlock
  <2> QED
    BY <1>5, <1>6, <1>7, <2>2, <2>3 DEF IInv
<1> QED
  BY <1>8, <1>9

\* What CheckTypedefName does for a declaration that is no typedef
LEMMA OverloadFacts ==
    ASSUME IInv, NEW S \in SUBSET Ids, NEW level \in Nat, Overload(S, level)
    PROVE  /\ TypedefNames' \in [Ids -> Entry \cup {NULL}]
           /\ OverloadNames' \in SUBSET {id \in Ids : TypedefNames'[id] # NULL}
           /\ OverloadNames \subseteq OverloadNames'
           /\ \A id \in Ids :
                  /\ TypedefNames'[id] = NULL <=> TypedefNames[id] = NULL
                  /\ TypedefNames[id] # NULL => TypedefNames'[id].level = TypedefNames[id].level
                  /\ id \in S /\ TypedefNames[id] # NULL /\ level > TypedefNames[id].level =>
                         /\ TypedefNames'[id].overload /\ TypedefNames'[id].overloadLevel = level
                         /\ id \in OverloadNames'
                  /\ ~(id \in S /\ TypedefNames[id] # NULL /\ level > TypedefNames[id].level) =>
                         TypedefNames'[id] = TypedefNames[id]
           /\ (\A id \in S : TypedefNames[id] # NULL => level <= TypedefNames[id].level) =>
                  OverloadNames' = OverloadNames
<1>1. /\ TypedefNames' = [id \in Ids |->
             IF id \in S /\ Overloads(id, level)
             THEN [TypedefNames[id] EXCEPT !.overload = TRUE, !.overloadLevel = level]
             ELSE TypedefNames[id]]
      /\ OverloadNames' = OverloadNames \cup {id \in S : Overloads(id, level)}
  BY DEF Overload
<1>2. /\ \A id \in Ids : TypedefNames[id] # NULL => TypedefNames[id] \in Entry
      /\ \A id \in Ids : TypedefNames[id] # NULL => TypedefNames[id].level \in Nat
      /\ NULL \notin Entry
  BY TypeFacts
<1>3. ASSUME NEW id \in Ids
      PROVE  /\ TypedefNames'[id] \in Entry \cup {NULL}
             /\ TypedefNames'[id] = NULL <=> TypedefNames[id] = NULL
             /\ TypedefNames[id] # NULL => TypedefNames'[id].level = TypedefNames[id].level
             /\ id \in S /\ TypedefNames[id] # NULL /\ level > TypedefNames[id].level =>
                    /\ TypedefNames'[id].overload /\ TypedefNames'[id].overloadLevel = level
                    /\ id \in OverloadNames'
             /\ ~(id \in S /\ TypedefNames[id] # NULL /\ level > TypedefNames[id].level) =>
                    TypedefNames'[id] = TypedefNames[id]
  <2>1. CASE id \in S /\ Overloads(id, level)
    <3>1. TypedefNames'[id] = [TypedefNames[id] EXCEPT !.overload = TRUE, !.overloadLevel = level]
      BY <1>1, <2>1
    <3>2. TypedefNames[id] # NULL /\ TypedefNames[id] \in Entry /\ level > TypedefNames[id].level
      BY <1>2, <2>1 DEF Overloads
    <3>3. /\ TypedefNames'[id] \in Entry /\ TypedefNames'[id].level = TypedefNames[id].level
          /\ TypedefNames'[id].overload /\ TypedefNames'[id].overloadLevel = level
      BY <3>1, <3>2 DEF Entry
    <3> QED
      BY <1>1, <1>2, <2>1, <3>2, <3>3
  <2>2. CASE ~(id \in S /\ Overloads(id, level))
    <3>1. TypedefNames'[id] = TypedefNames[id]
      BY <1>1, <2>2
    <3> QED
      BY <1>2, <2>2, <3>1 DEF Overloads
  <2> QED
    BY <2>1, <2>2
<1>4. TypedefNames' \in [Ids -> Entry \cup {NULL}]
  BY <1>1, <1>3
<1>5. OverloadNames' \in SUBSET {id \in Ids : TypedefNames'[id] # NULL}
  BY <1>1, <1>3 DEF IInv, TypeOK, Overloads
<1>6. (\A id \in S : TypedefNames[id] # NULL => level <= TypedefNames[id].level) =>
          OverloadNames' = OverloadNames
  <2> SUFFICES ASSUME \A id \in S : TypedefNames[id] # NULL => level <= TypedefNames[id].level
               PROVE  OverloadNames' = OverloadNames
    OBVIOUS
  <2>1. ASSUME NEW id \in S PROVE ~Overloads(id, level)
    <3>1. CASE TypedefNames[id] = NULL
      BY <3>1 DEF Overloads
    <3>2. CASE TypedefNames[id] # NULL
      <4>1. level <= TypedefNames[id].level /\ TypedefNames[id].level \in Nat
        BY <1>2, <3>2
      <4> QED
        BY <4>1 DEF Overloads
    <3> QED
      BY <3>1, <3>2
  <2> QED
    BY <1>1, <2>1
<1> QED
  BY <1>1, <1>3, <1>4, <1>5, <1>6

LEMMA DeclareIInv == ASSUME IInv, NEW S \in SUBSET Ids, Declare(S) PROVE IInv'
<1>1. /\ \A id \in S : scopes[Len(scopes)][id] \in {"none", "other"}
      /\ Overload(S, Level) /\ InScope(S, "other")
      /\ nested' = nested \cup {id \in S : Hidden(id)}
      /\ UNCHANGED <<Level, declaring, local>>
  BY DEF Declare, MayDeclare
<1>2. /\ scopes' \in Seq([Ids -> Kinds]) /\ Len(scopes') = Len(scopes)
      /\ \A l \in 1 .. Len(scopes), id \in Ids :
             scopes'[l][id] = IF l = Len(scopes) /\ id \in S THEN "other" ELSE scopes[l][id]
  BY <1>1, InScopeFacts DEF Kinds
<1>3. /\ Level \in Nat /\ Len(scopes) = Level + 1
      /\ \A id \in Ids : TypedefNames[id] # NULL =>
             TypedefNames[id].level \in Nat /\ TypedefNames[id].overloadLevel \in Nat
  BY TypeFacts
<1>4. /\ TypedefNames' \in [Ids -> Entry \cup {NULL}]
      /\ OverloadNames' \in SUBSET {id \in Ids : TypedefNames'[id] # NULL}
      /\ OverloadNames \subseteq OverloadNames'
      /\ \A id \in Ids :
             /\ TypedefNames'[id] = NULL <=> TypedefNames[id] = NULL
             /\ TypedefNames[id] # NULL => TypedefNames'[id].level = TypedefNames[id].level
             /\ id \in S /\ TypedefNames[id] # NULL /\ Level > TypedefNames[id].level =>
                    /\ TypedefNames'[id].overload /\ TypedefNames'[id].overloadLevel = Level
                    /\ id \in OverloadNames'
             /\ ~(id \in S /\ TypedefNames[id] # NULL /\ Level > TypedefNames[id].level) =>
                    TypedefNames'[id] = TypedefNames[id]
      /\ (\A id \in S : TypedefNames[id] # NULL => Level <= TypedefNames[id].level) =>
             OverloadNames' = OverloadNames
  BY <1>1, <1>3, OverloadFacts
<1>5. TypeOK'
  BY <1>1, <1>2, <1>4 DEF IInv, TypeOK, Kinds, Hidden
<1>6. OverloadsListed'
  <2>1. Level = 0 => OverloadNames' = {}
    BY <1>3, <1>4 DEF IInv, OverloadsListed
  <2> QED
    BY <1>1, <1>4, <2>1 DEF IInv, OverloadsListed
<1>7. Within'
  BY <1>1, <1>3, <1>4 DEF IInv, Within
<1>8. FileLevel'
  <2>1. \A id \in Ids : scopes'[1][id] = "typedef" <=> scopes[1][id] = "typedef"
    BY <1>1, <1>2, <1>3
  <2> QED
    BY <1>4, <2>1 DEF IInv, FileLevel
<1>9. LocalOnly'
  <2> SUFFICES ASSUME NEW id \in Ids \ local
               PROVE  /\ TypedefNames'[id] # NULL => TypedefNames'[id].level = 0
                      /\ \A l \in 2 .. Len(scopes) : scopes'[l][id] # "typedef"
    BY <1>1, <1>2 DEF LocalOnly
  <2> QED
    BY <1>2, <1>3, <1>4 DEF IInv, LocalOnly
<1>10. OneBlock'
  <2> SUFFICES ASSUME NEW id \in Ids \ (local' \cup nested')
               PROVE  /\ \A l, m \in 2 .. Len(scopes) :
                             scopes'[l][id] = "other" /\ scopes'[m][id] = "other" => l = m
                      /\ TypedefNames'[id] # NULL =>
                             /\ \A l \in 2 .. Len(scopes) :
                                    scopes'[l][id] = "other" => TypedefNames'[id].overload
                             /\ TypedefNames'[id].overload =>
                                    scopes'[TypedefNames'[id].overloadLevel + 1][id] = "other"
    BY <1>2 DEF OneBlock
  <2>1. id \in Ids \ (local \cup nested)
    BY <1>1
  <2>2. CASE Level = 0
    <3>1. TypedefNames'[id] # NULL => ~TypedefNames'[id].overload
      BY <1>1, <1>7, <2>2 DEF Within
    <3> QED
      BY <1>3, <2>2, <3>1
  <2>3. CASE Level # 0 /\ id \in S
    <3>1. \A l \in 2 .. Len(scopes) - 1 : scopes[l][id] # "other"
      BY <1>1, <2>1, <2>3 DEF Hidden
    <3>2. \A l \in 2 .. Len(scopes) : scopes'[l][id] = "other" => l = Len(scopes)
      BY <1>2, <1>3, <3>1
    <3>3. TypedefNames[id] # NULL => TypedefNames[id].level = 0
      BY <2>1 DEF IInv, LocalOnly
    <3>4. TypedefNames'[id] # NULL =>
              TypedefNames'[id].overload /\ TypedefNames'[id].overloadLevel = Level
      BY <1>3, <1>4, <2>1, <2>3, <3>3
    <3>5. scopes'[Level + 1][id] = "other"
      BY <1>2, <1>3, <2>1, <2>3
    <3> QED
      BY <1>3, <3>2, <3>4, <3>5
  <2>4. CASE id \notin S
    <3>1. TypedefNames'[id] = TypedefNames[id]
      BY <1>4, <2>1, <2>4
    <3>2. \A l \in 1 .. Len(scopes) : scopes'[l][id] = scopes[l][id]
      BY <1>2, <2>1, <2>4
    <3>3. TypedefNames[id] # NULL /\ TypedefNames[id].overload =>
              TypedefNames[id].overloadLevel + 1 \in 1 .. Len(scopes)
      BY <1>3, <2>1 DEF IInv, Within
    <3> QED
      BY <1>3, <2>1, <3>1, <3>2, <3>3 DEF IInv, OneBlock
  <2> QED
    BY <2>2, <2>3, <2>4
<1> QED
  BY <1>5, <1>6, <1>7, <1>8, <1>9, <1>10 DEF IInv

\* What opening a scope does to the stack
LEMMA AppendFacts ==
    ASSUME IInv, NEW S \in SUBSET Ids, NEW kind \in Kinds,
           scopes' = Append(scopes, Declared(S, kind))
    PROVE  /\ scopes' \in Seq([Ids -> Kinds]) /\ Len(scopes') = Len(scopes) + 1
           /\ \A l \in 1 .. Len(scopes) : scopes'[l] = scopes[l]
           /\ \A id \in Ids : scopes'[Len(scopes) + 1][id] = IF id \in S THEN kind ELSE "none"
<1> DEFINE top == Declared(S, kind)
<1>1. top \in [Ids -> Kinds] /\ \A id \in Ids : top[id] = IF id \in S THEN kind ELSE "none"
  BY DEF Declared, Kinds
<1>2. scopes \in Seq([Ids -> Kinds]) /\ scopes' = Append(scopes, top)
  BY TypeFacts
<1> HIDE DEF top
<1>3. /\ scopes' \in Seq([Ids -> Kinds]) /\ Len(scopes') = Len(scopes) + 1
      /\ \A l \in 1 .. Len(scopes) : scopes'[l] = scopes[l]
      /\ scopes'[Len(scopes) + 1] = top
  BY <1>1, <1>2
<1> QED
  BY <1>1, <1>3

LEMMA FunctionIInv == ASSUME IInv, NEW S \in SUBSET Ids, Function(S) PROVE IInv'
<1>1. /\ Level = 0 /\ Overload(S, 1) /\ Level' = 1
      /\ scopes' = Append(scopes, Declared(S, "other"))
      /\ UNCHANGED <<declaring, local, nested>>
  BY DEF Function
<1>2. /\ scopes' \in Seq([Ids -> Kinds]) /\ Len(scopes') = Len(scopes) + 1
      /\ \A l \in 1 .. Len(scopes) : scopes'[l] = scopes[l]
      /\ \A id \in Ids : scopes'[Len(scopes) + 1][id] = IF id \in S THEN "other" ELSE "none"
  BY <1>1, AppendFacts DEF Kinds
<1>3. /\ Len(scopes) = 1
      /\ \A id \in Ids : TypedefNames[id] # NULL =>
             TypedefNames[id].level \in Nat /\ TypedefNames[id].overloadLevel \in Nat
  BY <1>1, TypeFacts
<1>4. /\ TypedefNames' \in [Ids -> Entry \cup {NULL}]
      /\ OverloadNames' \in SUBSET {id \in Ids : TypedefNames'[id] # NULL}
      /\ OverloadNames \subseteq OverloadNames'
      /\ \A id \in Ids :
             /\ TypedefNames'[id] = NULL <=> TypedefNames[id] = NULL
             /\ TypedefNames[id] # NULL => TypedefNames'[id].level = TypedefNames[id].level
             /\ id \in S /\ TypedefNames[id] # NULL /\ 1 > TypedefNames[id].level =>
                    /\ TypedefNames'[id].overload /\ TypedefNames'[id].overloadLevel = 1
                    /\ id \in OverloadNames'
             /\ ~(id \in S /\ TypedefNames[id] # NULL /\ 1 > TypedefNames[id].level) =>
                    TypedefNames'[id] = TypedefNames[id]
  BY <1>1, OverloadFacts
<1>5. \A id \in Ids : TypedefNames[id] # NULL => ~TypedefNames[id].overload
  BY <1>1 DEF IInv, Within
<1>6. TypeOK'
  BY <1>1, <1>2, <1>3, <1>4, TypedefsAssumption DEF IInv, TypeOK, Kinds
<1>7. OverloadsListed' /\ Within'
  BY <1>1, <1>3, <1>4, <1>5 DEF OverloadsListed, Within
<1>8. FileLevel'
  BY <1>2, <1>3, <1>4 DEF IInv, FileLevel
<1>9. LocalOnly'
  BY <1>1, <1>2, <1>3, <1>4 DEF IInv, LocalOnly
<1>10. OneBlock'
  <2> SUFFICES ASSUME NEW id \in Ids \ (local \cup nested)
               PROVE  TypedefNames'[id] # NULL =>
                          /\ id \in S => TypedefNames'[id].overload
                          /\ TypedefNames'[id].overload =>
                                 id \in S /\ TypedefNames'[id].overloadLevel = 1
    <3>1. 2 .. Len(scopes') = {2} /\ local' = local /\ nested' = nested
      BY <1>1, <1>2, <1>3
    <3>2. \A n \in Ids : scopes'[2][n] = "other" <=> n \in S
      BY <1>2, <1>3
    <3>3. ASSUME NEW n \in Ids \ (local' \cup nested')
          PROVE  /\ \A l, m \in 2 .. Len(scopes') :
                        scopes'[l][n] = "other" /\ scopes'[m][n] = "other" => l = m
                 /\ TypedefNames'[n] # NULL =>
                        /\ \A l \in 2 .. Len(scopes') :
                               scopes'[l][n] = "other" => TypedefNames'[n].overload
                        /\ TypedefNames'[n].overload =>
                               scopes'[TypedefNames'[n].overloadLevel + 1][n] = "other"
      <4>1. n \in Ids \ (local \cup nested)
        BY <3>1, <3>3
      <4>2. TypedefNames'[n] # NULL =>
                /\ n \in S => TypedefNames'[n].overload
                /\ TypedefNames'[n].overload => n \in S /\ TypedefNames'[n].overloadLevel + 1 = 2
        BY <4>1
      <4>3. \A l, m \in 2 .. Len(scopes') : l = m
        BY <3>1
      <4>4. TypedefNames'[n] # NULL => \A l \in 2 .. Len(scopes') :
                scopes'[l][n] = "other" => TypedefNames'[n].overload
        BY <3>1, <3>2, <4>1, <4>2
      <4>5. TypedefNames'[n] # NULL /\ TypedefNames'[n].overload =>
                scopes'[TypedefNames'[n].overloadLevel + 1][n] = "other"
        BY <3>2, <4>1, <4>2
      <4> QED
        BY <4>3, <4>4, <4>5
    <3> QED
      BY <3>3 DEF OneBlock
  <2>1. TypedefNames[id] # NULL => TypedefNames[id].level = 0
    BY DEF IInv, LocalOnly
  <2> QED
    BY <1>4, <1>5, <2>1
<1> QED
  BY <1>6, <1>7, <1>8, <1>9, <1>10 DEF IInv

LEMMA OpenBlockIInv == ASSUME IInv, OpenBlock PROVE IInv'
<1>1. /\ Level \in 1 .. MaxLevel - 1 /\ Level' = Level + 1 /\ declaring' = TRUE
      /\ scopes' = Append(scopes, Declared({}, "none"))
      /\ UNCHANGED <<TypedefNames, OverloadNames, local, nested>>
  BY DEF OpenBlock
<1>2. /\ scopes' \in Seq([Ids -> Kinds]) /\ Len(scopes') = Len(scopes) + 1
      /\ \A l \in 1 .. Len(scopes) : scopes'[l] = scopes[l]
      /\ \A id \in Ids : scopes'[Len(scopes) + 1][id] = "none"
  BY <1>1, AppendFacts DEF Kinds
<1>3. /\ Level \in Nat /\ Len(scopes) = Level + 1 /\ Level # 0
      /\ \A id \in Ids : TypedefNames[id] # NULL =>
             TypedefNames[id].level \in Nat /\ TypedefNames[id].overloadLevel \in Nat
  BY <1>1, TypeFacts
<1>4. TypeOK'
  BY <1>1, <1>2, <1>3, TypedefsAssumption DEF IInv, TypeOK, Kinds
<1>5. OverloadsListed' /\ Within'
  BY <1>1, <1>3 DEF IInv, OverloadsListed, Within
<1>6. FileLevel' /\ LocalOnly'
  BY <1>1, <1>2, <1>3 DEF IInv, FileLevel, LocalOnly
<1>7. OneBlock'
  <2> SUFFICES ASSUME NEW id \in Ids \ (local \cup nested)
               PROVE  /\ \A l, m \in 2 .. Len(scopes) + 1 :
                             scopes'[l][id] = "other" /\ scopes'[m][id] = "other" => l = m
                      /\ TypedefNames[id] # NULL =>
                             /\ \A l \in 2 .. Len(scopes) + 1 :
                                    scopes'[l][id] = "other" => TypedefNames[id].overload
                             /\ TypedefNames[id].overload =>
                                    scopes'[TypedefNames[id].overloadLevel + 1][id] = "other"
    <3>1. local' = local /\ nested' = nested /\ TypedefNames' = TypedefNames
          /\ Len(scopes') = Len(scopes) + 1
      BY <1>1, <1>2
    <3> QED
      BY <3>1 DEF OneBlock
  <2>1. \A l \in 2 .. Len(scopes) + 1 :
            scopes'[l][id] = "other" => l \in 2 .. Len(scopes) /\ scopes[l][id] = "other"
    BY <1>2, <1>3
  <2>2. TypedefNames[id] # NULL /\ TypedefNames[id].overload =>
            TypedefNames[id].overloadLevel + 1 \in 1 .. Len(scopes)
    BY <1>3 DEF IInv, Within
  <2> QED
    BY <1>2, <2>1, <2>2 DEF IInv, OneBlock
<1> QED
  BY <1>4, <1>5, <1>6, <1>7 DEF IInv

LEMMA CloseBlockIInv == ASSUME IInv, CloseBlock PROVE IInv'
<1>1. /\ Level > 0 /\ Level' = Level - 1 /\ declaring' = (Level = 1)
      /\ TypedefNames' = [id \in Ids |->
             IF id \in OverloadNames /\ Ended(id)
             THEN [TypedefNames[id] EXCEPT !.overload = FALSE]
             ELSE TypedefNames[id]]
      /\ OverloadNames' = IF StillOverloaded = {} THEN {} ELSE OverloadNames
      /\ scopes' = SubSeq(scopes, 1, Level)
      /\ nested' = IF Level = 1 THEN {} ELSE nested
      /\ local' = local
  BY DEF CloseBlock, LeaveBlock
<1>2. /\ Level \in Nat /\ Len(scopes) = Level + 1 /\ scopes \in Seq([Ids -> Kinds])
      /\ \A id \in Ids : TypedefNames[id] # NULL =>
             /\ TypedefNames[id] \in Entry /\ TypedefNames[id].level \in Nat
             /\ TypedefNames[id].overload \in BOOLEAN
             /\ TypedefNames[id].overloadLevel \in Nat
      /\ NULL \notin Entry
  BY TypeFacts
<1>3. /\ scopes' \in Seq([Ids -> Kinds]) /\ Len(scopes') = Level
      /\ \A l \in 1 .. Level : scopes'[l] = scopes[l]
  BY <1>1, <1>2
\* An entry is overloaded after the step when its block is further out.
<1>4. ASSUME NEW id \in Ids
      PROVE  /\ TypedefNames'[id] \in Entry \cup {NULL}
             /\ TypedefNames'[id] = NULL <=> TypedefNames[id] = NULL
             /\ TypedefNames[id] # NULL =>
                    /\ TypedefNames'[id].level = TypedefNames[id].level
                    /\ TypedefNames'[id].overloadLevel = TypedefNames[id].overloadLevel
                    /\ TypedefNames'[id].overload <=>
                           TypedefNames[id].overload /\ TypedefNames[id].overloadLevel < Level
  <2>1. TypedefNames[id] # NULL /\ TypedefNames[id].overload => id \in OverloadNames
    BY DEF IInv, OverloadsListed
  <2>2. id \in OverloadNames => TypedefNames[id] # NULL
    BY DEF IInv, TypeOK
  <2>3. CASE id \in OverloadNames /\ Ended(id)
    <3>1. TypedefNames'[id] = [TypedefNames[id] EXCEPT !.overload = FALSE]
          /\ TypedefNames[id] \in Entry
      BY <1>1, <1>2, <2>2, <2>3
    <3>2. /\ TypedefNames'[id] \in Entry /\ ~TypedefNames'[id].overload
          /\ TypedefNames'[id].level = TypedefNames[id].level
          /\ TypedefNames'[id].overloadLevel = TypedefNames[id].overloadLevel
      BY <3>1 DEF Entry
    <3>3. ~(TypedefNames[id].overloadLevel < Level)
      BY <1>2, <2>2, <2>3 DEF Ended
    <3> QED
      BY <1>2, <2>2, <2>3, <3>2, <3>3
  <2>4. CASE ~(id \in OverloadNames /\ Ended(id))
    <3>1. TypedefNames'[id] = TypedefNames[id]
      BY <1>1, <2>4
    <3>2. TypedefNames[id] # NULL /\ TypedefNames[id].overload =>
              TypedefNames[id].overloadLevel < Level
      BY <1>2, <2>1, <2>4 DEF Ended
    <3> QED
      BY <1>2, <3>1, <3>2
  <2> QED
    BY <2>3, <2>4
<1>5. TypeOK'
  <2>1. TypedefNames' \in [Ids -> Entry \cup {NULL}]
    BY <1>1, <1>4
  <2>2. OverloadNames' \in SUBSET {id \in Ids : TypedefNames'[id] # NULL}
    BY <1>1, <1>4 DEF IInv, TypeOK
  <2>3. Level \in 0 .. MaxLevel /\ local \in SUBSET Ids /\ nested \in SUBSET Ids
    BY DEF IInv, TypeOK
  <2>4. Level' \in 0 .. MaxLevel /\ Len(scopes') = Level' + 1
    BY <1>1, <1>2, <1>3, <2>3, TypedefsAssumption
  <2>5. declaring' \in BOOLEAN /\ local' \in SUBSET Ids /\ nested' \in SUBSET Ids
    BY <1>1, <2>3
  <2> QED
    BY <1>3, <2>1, <2>2, <2>4, <2>5 DEF TypeOK, Kinds
<1>6. Within'
  <2> SUFFICES ASSUME NEW id \in Ids, TypedefNames'[id] # NULL, TypedefNames'[id].overload
               PROVE  TypedefNames'[id].overloadLevel \in 1 .. Level'
    BY DEF Within
  <2>1. /\ TypedefNames[id] # NULL /\ TypedefNames[id].overload
        /\ TypedefNames[id].overloadLevel < Level
        /\ TypedefNames'[id].overloadLevel = TypedefNames[id].overloadLevel
    BY <1>4
  <2>2. TypedefNames[id].overloadLevel \in 1 .. Level
    BY <2>1 DEF IInv, Within
  <2> QED
    BY <1>1, <1>2, <2>1, <2>2
<1>7. OverloadsListed'
  <2>1. ASSUME NEW id \in Ids, TypedefNames'[id] # NULL, TypedefNames'[id].overload
        PROVE  id \in OverloadNames'
    <3>1. TypedefNames[id] # NULL /\ TypedefNames[id].overload
          /\ TypedefNames[id].overloadLevel < Level
      BY <1>4, <2>1
    <3>2. id \in OverloadNames
      BY <3>1 DEF IInv, OverloadsListed
    <3>3. id \in StillOverloaded
      BY <1>2, <3>1, <3>2 DEF StillOverloaded, Ended
    <3> QED
      BY <1>1, <3>2, <3>3
  <2>2. ASSUME Level' = 0 PROVE OverloadNames' = {}
    <3>1. Level = 1
      BY <1>1, <1>2, <2>2
    <3>2. StillOverloaded = {}
      <4> SUFFICES ASSUME NEW id \in StillOverloaded PROVE FALSE
        OBVIOUS
      <4>1. id \in Ids /\ TypedefNames[id] # NULL /\ TypedefNames[id].overload /\ ~Ended(id)
        BY DEF StillOverloaded, IInv, TypeOK
      <4>2. TypedefNames[id].overloadLevel \in 1 .. 1
        BY <3>1, <4>1 DEF IInv, Within
      <4> QED
        BY <3>1, <4>1, <4>2 DEF Ended
    <3> QED
      BY <1>1, <3>2
  <2> QED
    BY <2>1, <2>2 DEF OverloadsListed
<1>8. FileLevel'
  BY <1>1, <1>2, <1>3, <1>4 DEF IInv, FileLevel
<1>9. LocalOnly'
  <2> SUFFICES ASSUME NEW id \in Ids \ local
               PROVE  /\ TypedefNames'[id] # NULL => TypedefNames'[id].level = 0
                      /\ \A l \in 2 .. Level : scopes'[l][id] # "typedef"
    BY <1>1, <1>3 DEF LocalOnly
  <2> QED
    BY <1>2, <1>3, <1>4 DEF IInv, LocalOnly
<1>10. OneBlock'
  <2> SUFFICES ASSUME NEW id \in Ids \ (local \cup nested')
               PROVE  /\ \A l, m \in 2 .. Level :
                             scopes'[l][id] = "other" /\ scopes'[m][id] = "other" => l = m
                      /\ TypedefNames'[id] # NULL =>
                             /\ \A l \in 2 .. Level :
                                    scopes'[l][id] = "other" => TypedefNames'[id].overload
                             /\ TypedefNames'[id].overload =>
                                    scopes'[TypedefNames'[id].overloadLevel + 1][id] = "other"
    <3>1. local' = local /\ Len(scopes') = Level
      BY <1>1, <1>3
    <3> QED
      BY <3>1 DEF OneBlock
  <2>1. CASE Level = 1
    <3>1. TypedefNames'[id] # NULL => ~TypedefNames'[id].overload
      BY <1>2, <1>4, <2>1 DEF IInv, Within
    <3> QED
      BY <2>1, <3>1
  <2>2. CASE Level # 1
    <3>1. id \in Ids \ (local \cup nested)
      BY <1>1, <2>2
    <3>2. /\ \A l, m \in 2 .. Len(scopes) :
                 scopes[l][id] = "other" /\ scopes[m][id] = "other" => l = m
          /\ TypedefNames[id] # NULL =>
                 /\ \A l \in 2 .. Len(scopes) : scopes[l][id] = "other" => TypedefNames[id].overload
                 /\ TypedefNames[id].overload =>
                        scopes[TypedefNames[id].overloadLevel + 1][id] = "other"
      BY <3>1 DEF IInv, OneBlock
    <3>3. TypedefNames[id] # NULL /\ TypedefNames[id].overload =>
              TypedefNames[id].overloadLevel \in 1 .. Level
      BY <3>1 DEF IInv, Within
    <3>4. ASSUME TypedefNames'[id] # NULL, NEW l \in 2 .. Level, scopes'[l][id] = "other"
          PROVE  TypedefNames'[id].overload
      <4>1. TypedefNames[id] # NULL /\ l \in 2 .. Len(scopes) /\ scopes[l][id] = "other"
        BY <1>2, <1>3, <1>4, <3>1, <3>4
      <4>2. TypedefNames[id].overload /\ TypedefNames[id].overloadLevel \in 1 .. Level
            /\ scopes[TypedefNames[id].overloadLevel + 1][id] = "other"
        BY <3>2, <3>3, <4>1
      <4>3. TypedefNames[id].overloadLevel + 1 = l
        BY <1>2, <3>2, <4>1, <4>2
      <4>4. TypedefNames[id].overloadLevel < Level
        BY <1>2, <4>2, <4>3
      <4> QED
        BY <1>4, <3>1, <4>1, <4>2, <4>4
    <3>5. ASSUME TypedefNames'[id] # NULL, TypedefNames'[id].overload
          PROVE  scopes'[TypedefNames'[id].overloadLevel + 1][id] = "other"
      BY <1>2, <1>3, <1>4, <3>1, <3>2, <3>3, <3>5
    <3>6. \A l, m \in 2 .. Level :
              scopes'[l][id] = "other" /\ scopes'[m][id] = "other" => l = m
      BY <1>2, <1>3, <3>2
    <3> QED
      BY <3>4, <3>5, <3>6
  <2> QED
    BY <2>1, <2>2
<1> QED
  BY <1>5, <1>6, <1>7, <1>8, <1>9, <1>10 DEF IInv

LEMMA StutterIInv == ASSUME IInv, UNCHANGED vars PROVE IInv'
<1>1. UNCHANGED <<Level, TypedefNames, OverloadNames, declaring, scopes, local, nested>>
  BY DEF vars
<1> QED
  BY <1>1 DEF IInv, TypeOK, OverloadsListed, Within, FileLevel, LocalOnly, OneBlock

-----------------------------------------------------------------------------
(* The theorems                                                             *)

\* An entry is overloaded by an open block, its level is 0 exactly for a typedef at
\* file scope, and a name that is not nested has one block that overloads it
\* (decl.c:28-86, stmt.c:139-172).
THEOREM TypedefsInvariance == Spec => []IInv
<1>1. Init => IInv
  BY InitIInv
<1>2. IInv /\ [Next]_vars => IInv'
  <2> SUFFICES ASSUME IInv, [Next]_vars PROVE IInv'
    OBVIOUS
  <2>1. ASSUME NEW S \in SUBSET Ids, Typedef(S) PROVE IInv'
    BY <2>1, TypedefIInv
  <2>2. ASSUME NEW S \in SUBSET Ids, Declare(S) PROVE IInv'
    BY <2>2, DeclareIInv
  <2>3. ASSUME NEW S \in SUBSET Ids, Function(S) PROVE IInv'
    BY <2>3, FunctionIInv
  <2>4. CASE OpenBlock
    BY <2>4, OpenBlockIInv
  <2>5. CASE CloseBlock
    BY <2>5, CloseBlockIInv
  <2>6. CASE UNCHANGED vars
    BY <2>6, StutterIInv
  <2> QED
    BY <2>1, <2>2, <2>3, <2>4, <2>5, <2>6 DEF Next
<1> QED
  BY <1>1, <1>2, PTL DEF Spec

\* The state of the parser has its type (decl.c:5).
THEOREM TypeCorrect == Spec => []TypeOK
<1>1. IInv => TypeOK
  BY DEF IInv
<1> QED
  BY <1>1, TypedefsInvariance, PTL

\* PostCheckTypedef misses no overloaded entry, and leaves none behind at the end of a
\* function (decl.c:72-86).
THEOREM ListedOverloads == Spec => []OverloadsListed
<1>1. IInv => OverloadsListed
  BY DEF IInv
<1> QED
  BY <1>1, TypedefsInvariance, PTL

\* Between functions a name is a typedef name exactly if the file declared it as one
\* (decl.c:18-27).
THEOREM FileScopeCorrect == Spec => []FileScopeRight
<1>1. IInv => FileScopeRight
  <2> SUFFICES ASSUME IInv, Level = 0, NEW id \in Ids
               PROVE  IsTypedefName(id) <=> Means(id, "typedef")
    BY DEF FileScopeRight
  <2>1. Len(scopes) = 1
    BY TypeFacts
  <2>2. Means(id, "typedef") <=> scopes[1][id] = "typedef"
    BY <2>1 DEF Means
  <2>3. TypedefNames[id] # NULL => ~TypedefNames[id].overload /\ TypedefNames[id].level \in Nat
    BY TypeFacts DEF IInv, Within
  <2>4. scopes[1][id] = "typedef" <=> TypedefNames[id] # NULL /\ TypedefNames[id].level = 0
    BY DEF IInv, FileLevel
  <2> QED
    BY <2>2, <2>3, <2>4 DEF IsTypedefName
<1> QED
  BY <1>1, TypedefsInvariance, PTL

\* In a function it is right about the names that are typedefs at file scope only and
\* that no block redeclares within a block that redeclares them (decl.c:18-58, 72-86).
THEOREM BlockScopeCorrect == Spec => []BlockScopeRight
<1>1. IInv => BlockScopeRight
  <2> SUFFICES ASSUME IInv, NEW id \in Ids \ (local \cup nested)
               PROVE  IsTypedefName(id) <=> Means(id, "typedef")
    BY DEF BlockScopeRight
  <2>1. Len(scopes) = Level + 1 /\ Level \in Nat
        /\ \A l \in 1 .. Len(scopes) : scopes[l][id] \in Kinds
    BY TypeFacts
  <2>2. \A l \in 2 .. Len(scopes) : scopes[l][id] \in {"none", "other"}
    BY <2>1 DEF IInv, LocalOnly, Kinds
  <2>3. Means(id, "typedef") <=>
            scopes[1][id] = "typedef" /\ \A l \in 2 .. Len(scopes) : scopes[l][id] # "other"
    <3>1. ASSUME Means(id, "typedef")
          PROVE  scopes[1][id] = "typedef" /\ \A l \in 2 .. Len(scopes) : scopes[l][id] # "other"
      <4>1. PICK l \in 1 .. Len(scopes) :
                /\ scopes[l][id] = "typedef"
                /\ \A m \in l + 1 .. Len(scopes) : scopes[m][id] = "none"
        BY <3>1 DEF Means
      <4>2. l = 1
        BY <2>1, <2>2, <4>1
      <4> QED
        BY <2>1, <4>1, <4>2
    <3>2. ASSUME scopes[1][id] = "typedef", \A l \in 2 .. Len(scopes) : scopes[l][id] # "other"
          PROVE  Means(id, "typedef")
      <4>1. 1 \in 1 .. Len(scopes) /\ \A m \in 1 + 1 .. Len(scopes) : scopes[m][id] = "none"
        BY <2>1, <2>2, <3>2
      <4> QED
        BY <3>2, <4>1 DEF Means
    <3> QED
      BY <3>1, <3>2
  <2>4. scopes[1][id] = "typedef" <=> TypedefNames[id] # NULL /\ TypedefNames[id].level = 0
    BY DEF IInv, FileLevel
  <2>5. TypedefNames[id] # NULL => TypedefNames[id].level = 0
    BY DEF IInv, LocalOnly
  <2>6. TypedefNames[id] # NULL =>
            (TypedefNames[id].overload <=> \E l \in 2 .. Len(scopes) : scopes[l][id] = "other")
    <3> SUFFICES ASSUME TypedefNames[id] # NULL
                 PROVE  TypedefNames[id].overload <=>
                            \E l \in 2 .. Len(scopes) : scopes[l][id] = "other"
      OBVIOUS
    <3>1. /\ \A l \in 2 .. Len(scopes) : scopes[l][id] = "other" => TypedefNames[id].overload
          /\ TypedefNames[id].overload => scopes[TypedefNames[id].overloadLevel + 1][id] = "other"
      BY DEF IInv, OneBlock
    <3>2. TypedefNames[id].overload => TypedefNames[id].overloadLevel \in 1 .. Level
      BY DEF IInv, Within
    <3>3. TypedefNames[id].overload => TypedefNames[id].overloadLevel + 1 \in 2 .. Len(scopes)
      BY <2>1, <3>2
    <3> QED
      BY <3>1, <3>3
  <2> QED
    BY <2>1, <2>3, <2>4, <2>5, <2>6 DEF IsTypedefName
<1> QED
  BY <1>1, TypedefsInvariance, PTL
=============================================================================
