SPECIFICATION Spec
CONSTANTS
  x = x
  y = y
  T = T
  Names = {x, y}
  TagNames = {T}
  MaxSymbols = 3
  MaxDepth = 3
  AnyExtern = TRUE
VIEW Live
CONSTRAINT FewBesideTags
SYMMETRY NameSymmetry
CHECK_DEADLOCK FALSE
INVARIANTS ExternsNotEmitted
