------------------------------- MODULE CMemory -------------------------------
(***************************************************************************)
(* The memory of a program: the scalars its variables are made of, each at *)
(* its address.  A scalar is read and written as a whole, with an access   *)
(* of its own size.                                                        *)
(***************************************************************************)
EXTENDS Expressions

CONSTANT VarBase        \* the address of every variable

RECURSIVE Cells(_, _)
Cells(ty, addr) ==
    CASE ty.categ = "ARRAY" ->
           UNION {Cells(Base(ty), addr + i * SizeOf(Base(ty))) : i \in 0 .. ty.len - 1}
      [] ty.categ = "STRUCT" ->
           UNION {Cells(ty.of[i], addr + FieldOffset(ty, i)) : i \in DOMAIN ty.of}
      [] OTHER -> {<< addr, TypeCode(ty) >>}

AllCells == UNION {Cells(VarType[x], VarBase[x]) : x \in DOMAIN VarBase}
CellCode == [a \in {c[1] : c \in AllCells} |-> CHOOSE code \in 0 .. 5 : << a, code >> \in AllCells]
Addresses == DOMAIN CellCode

\* The layout leaves every scalar its own place.
LayoutAssumption == \A c, d \in AllCells : c = d \/ c[1] + CodeSize(c[2]) <= d[1]
                                                 \/ d[1] + CodeSize(d[2]) <= c[1]
ASSUME LayoutAssumption

Accessible(code, a) == a \in Addresses /\ CodeSize(CellCode[a]) = CodeSize(code)
Load(mem, code, a) == Wrap(code, mem[a])
\* Mutant of Store: the value keeps the bits its place has no room for.
StoreWhole(mem, code, a, v) == [mem EXCEPT ![a] = v]
Store(mem, code, a, v) == [mem EXCEPT ![a] = Wrap(CellCode[a], v)]

\* Every scalar of a type at one address copied from another.
Copy(mem, ty, to, from) ==
    [a \in DOMAIN mem |-> IF a \in to .. to + SizeOf(ty) - 1 THEN mem[a - to + from] ELSE mem[a]]
Copyable(ty, to, from) == \A c \in Cells(ty, 0) : {to + c[1], from + c[1]} \subseteq Addresses
=============================================================================
