-------------------------------- MODULE Layout --------------------------------
(***************************************************************************)
(* Places in memory: of the fields in a structure (type.c), of the         *)
(* arguments on the stack, and of the parameters and the locals in the     *)
(* frame of the function that is called (x86.c).  Each is a walk along a   *)
(* list that adds up sizes; the list is given by the sizes, and where they *)
(* matter by the alignments, of its members.                               *)
(***************************************************************************)
EXTENDS Integers, Sequences

Aligned(n, align) == IF align = 0 THEN n ELSE ((n + align - 1) \div align) * align

-----------------------------------------------------------------------------
(* Structures. *)

\* EndRecord: the size that the structure has with its first i fields.
SizeWith(sizes, aligns) ==
    LET size[i \in 0 .. Len(sizes)] ==
            IF i = 0 THEN 0 ELSE Aligned(size[i - 1], aligns[i]) + sizes[i]
    IN  size
FieldOffsets(sizes, aligns) ==
    [i \in 1 .. Len(sizes) |-> Aligned(SizeWith(sizes, aligns)[i - 1], aligns[i])]
RecordSize(sizes, aligns, align) == Aligned(SizeWith(sizes, aligns)[Len(sizes)], align)

-----------------------------------------------------------------------------
(* Calls.  Offsets of the frame count from what %ebp has after the prologue *)
(* pushed it and the registers that a call preserves.                      *)

STACK_ALIGN_SIZE == 4
EMPTY_OBJECT_SIZE == 1
PRESERVE_REGS == 4

\* What the first i members of a list take together.
Total(rooms) ==
    LET sum[i \in 0 .. Len(rooms)] == IF i = 0 THEN 0 ELSE sum[i - 1] + rooms[i]
    IN  sum

\* LayoutFrame leaves room for an object that has no size, EmitCall pushes nothing for it.
Slot(size) == Aligned(IF size = 0 THEN EMPTY_OBJECT_SIZE ELSE size, STACK_ALIGN_SIZE)
Slots(sizes) == [i \in 1 .. Len(sizes) |-> Slot(sizes[i])]
Pushes(sizes) == [i \in 1 .. Len(sizes) |-> Aligned(sizes[i], STACK_ALIGN_SIZE)]

\* The parameters stand behind the preserved registers and the return address.
FirstParameter == (PRESERVE_REGS + 1) * STACK_ALIGN_SIZE
ParameterOffsets(sizes) == [i \in 1 .. Len(sizes) |-> FirstParameter + Total(Slots(sizes))[i - 1]]
LocalOffsets(sizes) == [i \in 1 .. Len(sizes) |-> -Total(Slots(sizes))[i]]
\* What LayoutFrame returns: the room that the prologue leaves for the locals.
FrameSize(sizes) == Total(Slots(sizes))[Len(sizes)]

\* The last argument is pushed first: where each stands from the last of the pushes.
ArgumentOffsets(sizes) == [i \in 1 .. Len(sizes) |-> Total(Pushes(sizes))[i - 1]]
=============================================================================
