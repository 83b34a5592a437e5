--------------------------- MODULE MCSymbolTable ---------------------------
(* Names of identifiers are interchangeable, and the parameter table that   *)
(* is saved matters only until the body that restores it.                   *)
EXTENDS SymbolTable

NameSymmetry == Permutations(Names)
Live == <<IF AtFile \/ InBody THEN [tab EXCEPT !.saved = NewTable(0), !.FSYM = 0] ELSE tab,
          ctx, head, env, envSaved, linked>>

\* Tags live in a table of their own: beside them one identifier is enough.
FewBesideTags == tab.tags # <<>> => Len(tab.symbols) <= 1
=============================================================================
