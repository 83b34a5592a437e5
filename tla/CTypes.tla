------------------------------- MODULE CTypes -------------------------------
(***************************************************************************)
(* The types of type.c and the arithmetic of their machine codes.  A type  *)
(* is a record: its category, its length (of an array), the types it is    *)
(* made of (what a pointer points to, the element of an array, the fields  *)
(* of a structure), its size and alignment, and the offsets of its fields. *)
(* Qualifiers are left out.  Words are narrower than the machine's, so     *)
(* that every value of one can be enumerated: Bits gives the width of an   *)
(* object of 1, 2 and 4 bytes; sizes in bytes are the real ones.           *)
(***************************************************************************)
EXTENDS Layout

CONSTANT Bits

ASSUME BitsAssumption == \A size \in {1, 2, 4} : Bits[size] \in Nat \ {0}

Categories == << "CHAR", "UCHAR", "SHORT", "USHORT", "INT", "UINT", "ENUM",
                 "POINTER", "VOID", "STRUCT", "ARRAY", "FUNCTION" >>
CategRank == [c \in {Categories[i] : i \in 1 .. 12} |->
                 CHOOSE i \in 1 .. 12 : Categories[i] = c]

Derived(categ, len, of, size, align, offsets) ==
    [categ |-> categ, len |-> len, of |-> of, size |-> size, align |-> align, offsets |-> offsets]

\* A machine of 4 byte words aligns a number to its size.
Basic(categ, size) == Derived(categ, 0, << >>, size, size, << >>)
TChar == Basic("CHAR", 1)
TUChar == Basic("UCHAR", 1)
TShort == Basic("SHORT", 2)
TUShort == Basic("USHORT", 2)
TInt == Basic("INT", 4)
TUInt == Basic("UINT", 4)
TEnum == Basic("ENUM", 4)
TVoid == Basic("VOID", 0)
Illegal == Basic("ILLEGAL", 0)
PointerTo(ty) == Derived("POINTER", 0, << ty >>, 4, 4, << >>)
ArrayOf(len, ty) == Derived("ARRAY", len, << ty >>, len * ty.size, ty.align, << >>)
\* A function's type has its parameters behind its result, and 1 if it takes more.
FunctionType(result, params, more) ==
    Derived("FUNCTION", IF more THEN 1 ELSE 0, << result >> \o params, 4, 4, << >>)
FunctionReturn(ty) == FunctionType(ty, << >>, FALSE)
\* EndRecord: the largest alignment of a field is that of the structure.  The offsets are kept
\* as a sequence, which TLC does not compute again.
Struct(fields) ==
    LET sizes == [i \in DOMAIN fields |-> fields[i].size]
        aligns == [i \in DOMAIN fields |-> fields[i].align]
        align == CHOOSE a \in {0} \cup {aligns[i] : i \in DOMAIN fields} :
                     \A i \in DOMAIN fields : aligns[i] <= a
    IN  Derived("STRUCT", 0, fields, RecordSize(sizes, aligns, align), align,
                SubSeq(FieldOffsets(sizes, aligns), 1, Len(fields)))
Base(ty) == ty.of[1]

IsPtr(ty) == ty.categ = "POINTER"
IsRecord(ty) == ty.categ = "STRUCT"
IsInteg(ty) == CategRank[ty.categ] <= CategRank["ENUM"]
IsScalar(ty) == CategRank[ty.categ] <= CategRank["POINTER"]
IsUnsigned(ty) == CategRank[ty.categ] % 2 = 0
IsObjectPtr(ty) == IsPtr(ty) /\ Base(ty).categ # "FUNCTION"
IsVoidPtr(ty) == IsPtr(ty) /\ Base(ty) = TVoid
LessThanInt(ty) == CategRank[ty.categ] < CategRank["INT"]

\* The machine codes I1, U1, I2, U2, I4, U4, V and B, numbered as in the code.
Code == [I1 |-> 0, U1 |-> 1, I2 |-> 2, U2 |-> 3, I4 |-> 4, U4 |-> 5, V |-> 6, B |-> 7]
CategCode == [CHAR |-> 0, UCHAR |-> 1, SHORT |-> 2, USHORT |-> 3, INT |-> 4, ENUM |-> 4,
              UINT |-> 5, POINTER |-> 5, VOID |-> 6, STRUCT |-> 7, ARRAY |-> 7, FUNCTION |-> 7]
TypeCode(ty) == CategCode[ty.categ]

SizeOf(ty) == ty.size
AlignOf(ty) == ty.align
FieldOffset(ty, i) == ty.offsets[i]
IsIncomplete(ty) == ty.categ = "ARRAY" /\ ty.len = 0

\* Mutant of Promote: the unsigned types narrower than int are not promoted.
PromoteSigned(ty) == IF ty.categ \in {"CHAR", "SHORT"} THEN TInt ELSE ty
Promote(ty) == IF LessThanInt(ty) THEN TInt ELSE ty

\* Of two promoted types, the second of which is the unsigned one if they differ in that.
CommonOfPromoted(x, y) ==
    CASE x = y -> x
      [] x # y /\ IsUnsigned(x) = IsUnsigned(y) ->
           IF CategRank[x.categ] > CategRank[y.categ] THEN x ELSE y
      [] OTHER -> IF CategRank[y.categ] >= CategRank[x.categ] THEN y
                  ELSE PointerTo(TInt)            \* T(ENUM + 1)
CommonRealType(a, b) ==
    IF IsUnsigned(Promote(a)) THEN CommonOfPromoted(Promote(b), Promote(a))
    ELSE CommonOfPromoted(Promote(a), Promote(b))

\* An unsigned number and one of a code, each held in a word of the code's size.
CodeSize(code) == IF code \div 2 = 0 THEN 1 ELSE IF code \div 2 = 1 THEN 2 ELSE 4
Modulus(code) == 2 ^ Bits[CodeSize(code)]
Signed(code) == code % 2 = 0
Wrap(code, n) ==
    LET half == IF Signed(code) THEN Modulus(code) \div 2 ELSE 0
    IN  ((n + half) % Modulus(code)) - half
InRange(code, n) == Wrap(code, n) = n

\* Division and remainder truncate toward zero.
Quotient(a, b) ==
    LET q == (IF a < 0 THEN -a ELSE a) \div (IF b < 0 THEN -b ELSE b)
    IN  IF (a < 0) = (b < 0) THEN q ELSE -q
Remainder(a, b) == a - b * Quotient(a, b)
=============================================================================
