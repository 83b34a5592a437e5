------------------------------ MODULE Scoping ------------------------------
(***************************************************************************)
(* What C says about names: the reference the symbol table is measured     *)
(* against.  An environment is a stack of scopes, innermost last; a scope  *)
(* binds ordinary identifiers and tags to entities.  An entity with        *)
(* linkage is one thing however often it is declared, so its id is 0; any  *)
(* other has an id of its own, given when it is declared.                  *)
(***************************************************************************)
EXTENDS Naturals, Sequences, SequencesExt

CONSTANTS Names, TagNames   \* ordinary identifiers and tags

Unbound == [kind |-> "unbound", link |-> "none", id |-> 0]
Entity(kind, link, id) == [kind |-> kind, link |-> link, id |-> id]
Bound(e) == e # Unbound
HasLinkage(e) == e.link # "none"

EmptyScope == [ids |-> [n \in Names |-> Unbound], tags |-> [n \in TagNames |-> Unbound]]

(* The entity a name denotes here: that of the innermost scope binding it. *)
Visible(env, ns, n) ==
  LET binding == {i \in 1..Len(env) : Bound(env[i][ns][n])}
  IN  IF binding = {} THEN Unbound
      ELSE env[CHOOSE i \in binding : \A j \in binding : j <= i][ns][n]

Here(env, ns, n) == Last(env)[ns][n]

Bind(env, ns, n, e) == [env EXCEPT ![Len(env)][ns][n] = e]
Open(env)  == Append(env, EmptyScope)
Close(env) == Front(env)

(* An identifier without linkage may be declared once in a scope.           *)
MayDeclare(env, n) == ~Bound(Here(env, "ids", n))

(* The linkage a declaration with storage class "extern" gives: that of the *)
(* visible declaration that has one, external otherwise.                    *)
ExternLink(env, n) ==
  LET e == Visible(env, "ids", n) IN IF HasLinkage(e) THEN e.link ELSE "external"
=============================================================================
