--------------------------- MODULE PlacementProofs ---------------------------
(***************************************************************************)
(* For every compilation, whatever the checks find: the data of a file     *)
(* stand where the labels say, as they were found, apart from one another  *)
(* and, in the first file, aligned.  And for all lists of sizes: the       *)
(* fields of a structure are apart and aligned, parameters and locals have *)
(* places of their own in a frame, and an argument is pushed to where its  *)
(* parameter is.                                                           *)
(*                                                                         *)
(* The walks along a list are recursive functions.  That one exists, and   *)
(* what it is, is shown by induction on sets of numbers (SetInduction).    *)
(***************************************************************************)
EXTENDS DataEmission, TLAPS, WellFoundedInduction, SequenceTheorems

-----------------------------------------------------------------------------
(* Numbers.                                                                 *)

LEMMA SetInduction ==
  ASSUME NEW S, 0 \in S, \A n \in Nat : n \in S => n + 1 \in S
  PROVE  Nat \subseteq S
<1> DEFINE T == Nat \ S
<1>1. SUFFICES ASSUME T # {} PROVE FALSE
  OBVIOUS
<1>2. \E x \in T : \A y \in T : ~(<<y, x>> \in OpToRel(<, Nat))
  <2>1. T \subseteq Nat
    OBVIOUS
  <2> HIDE DEF T
  <2> QED BY <1>1, <2>1, NatLessThanWellFounded, WFMin
<1>3. PICK x \in T : \A y \in T : ~(<<y, x>> \in OpToRel(<, Nat))
  BY <1>2
<1>4. \A y \in T : ~(y < x)
  BY <1>3 DEF OpToRel
<1>5. x \in Nat /\ x \notin S /\ x # 0
  OBVIOUS
<1>6. x - 1 \in Nat /\ x - 1 < x
  BY <1>5
<1>7. x - 1 \in S
  BY <1>4, <1>6
<1> QED BY <1>5, <1>6, <1>7

\* The alignments of the types that there are; 0 is that of a structure without fields.
Alignments == {1, 2, 4}

LEMMA AlignedUp ==
  ASSUME NEW n \in Nat, NEW a \in Alignments \cup {0}
  PROVE  /\ Aligned(n, a) \in Nat /\ n <= Aligned(n, a)
         /\ a # 0 => Aligned(n, a) % a = 0
         /\ a # 0 /\ n % a = 0 => Aligned(n, a) = n
         /\ a = 0 => Aligned(n, a) = n
<1>1. CASE a = 0
  BY <1>1 DEF Aligned
<1>2. CASE a = 1
  BY <1>2 DEF Aligned
<1>3. CASE a = 2
  BY <1>3 DEF Aligned
<1>4. CASE a = 4
  BY <1>4 DEF Aligned
<1> QED BY <1>1, <1>2, <1>3, <1>4 DEF Alignments

LEMMA ChainUp ==
  ASSUME NEW a \in Nat, NEW b \in Nat, NEW c \in Nat, NEW d \in Nat, a + b <= c, c <= d
  PROVE  (20 + a) + b <= 20 + d
OBVIOUS

LEMMA ChainDown ==
  ASSUME NEW a \in Nat, NEW b \in Nat, NEW c \in Nat, NEW d \in Nat, a <= c, c + b <= d
  PROVE  (-d) + b <= -a
OBVIOUS

LEMMA BelowAndAbove ==
  ASSUME NEW a \in Nat, NEW b \in Nat, NEW c \in Nat, NEW d \in Nat, a + b <= c, c <= d
  PROVE  (-c) + b <= 0 /\ -c >= -d
OBVIOUS

LEMMA FourAndFour ==
  ASSUME NEW m \in Nat, NEW n \in Nat, m % 4 = 0, n % 4 = 0
  PROVE  (m + n) % 4 = 0
OBVIOUS

LEMMA MinusFour ==
  ASSUME NEW m \in Nat, m % 4 = 0
  PROVE  (-m) % 4 = 0
<1>1. PICK k \in Nat : m = 4 * k
  OBVIOUS
<1>2. -m = 4 * (-k)
  BY <1>1
<1>3. (4 * (-k)) % 4 = 0
  OBVIOUS
<1> QED BY <1>2, <1>3

-----------------------------------------------------------------------------
(* Totals.                                                                  *)

IsTotal(f, rooms) ==
    f = [i \in 0 .. Len(rooms) |-> IF i = 0 THEN 0 ELSE f[i - 1] + rooms[i]]

LEMMA TotalExists ==
  ASSUME NEW rooms, Len(rooms) \in Nat
  PROVE  \E f : IsTotal(f, rooms)
<1> DEFINE Up(f, n) == f = [i \in 0 .. n |-> IF i = 0 THEN 0 ELSE f[i - 1] + rooms[i]]
           S == {n \in Nat : \E f : Up(f, n)}
<1>1. 0 \in S
  <2> DEFINE f == [i \in 0 .. 0 |-> 0]
  <2>1. f = [i \in 0 .. 0 |-> IF i = 0 THEN 0 ELSE f[i - 1] + rooms[i]]
    OBVIOUS
  <2> QED BY <2>1
<1>2. ASSUME NEW n \in Nat, n \in S PROVE n + 1 \in S
  <2>1. PICK f : Up(f, n)
    BY <1>2
  <2> DEFINE g == [i \in 0 .. n + 1 |-> IF i = 0 THEN 0 ELSE f[i - 1] + rooms[i]]
  <2>2. ASSUME NEW i \in 0 .. n PROVE g[i] = f[i]
    <3>1. f[i] = IF i = 0 THEN 0 ELSE f[i - 1] + rooms[i]
      BY <2>1
    <3> QED BY <3>1
  <2>3. ASSUME NEW i \in 0 .. n + 1 PROVE g[i] = IF i = 0 THEN 0 ELSE g[i - 1] + rooms[i]
    <3>1. CASE i = 0
      BY <3>1
    <3>2. CASE i # 0
      <4>1. i - 1 \in 0 .. n
        BY <3>2
      <4>2. g[i] = f[i - 1] + rooms[i]
        BY <3>2
      <4> HIDE DEF g
      <4> QED BY <3>2, <4>1, <4>2, <2>2
    <3> QED BY <3>1, <3>2
  <2>4. g = [i \in 0 .. n + 1 |-> g[i]]
    OBVIOUS
  <2> HIDE DEF g
  <2>5. g = [i \in 0 .. n + 1 |-> IF i = 0 THEN 0 ELSE g[i - 1] + rooms[i]]
    BY <2>3, <2>4
  <2> QED BY <2>5
<1> HIDE DEF S
<1>3. Len(rooms) \in S
  BY <1>1, <1>2, SetInduction
<1> QED BY <1>3 DEF S, IsTotal

LEMMA TotalIs == ASSUME NEW rooms, Len(rooms) \in Nat PROVE IsTotal(Total(rooms), rooms)
<1> DEFINE Is(f) == f = [i \in 0 .. Len(rooms) |-> IF i = 0 THEN 0 ELSE f[i - 1] + rooms[i]]
<1>1. \E f : Is(f)
  BY TotalExists DEF IsTotal
<1>2. Is(CHOOSE f : Is(f))
  BY <1>1
<1> QED BY <1>2 DEF Total, IsTotal

LEMMA TotalGrows ==
  ASSUME NEW rooms, Len(rooms) \in Nat, \A i \in 1 .. Len(rooms) : rooms[i] \in Nat
  PROVE  /\ \A i \in 0 .. Len(rooms) : Total(rooms)[i] \in Nat
         /\ Total(rooms)[0] = 0
         /\ \A i \in 1 .. Len(rooms) : Total(rooms)[i] = Total(rooms)[i - 1] + rooms[i]
         /\ \A i, j \in 0 .. Len(rooms) : i <= j => Total(rooms)[i] <= Total(rooms)[j]
         /\ (\A i \in 1 .. Len(rooms) : rooms[i] % STACK_ALIGN_SIZE = 0) =>
               \A i \in 0 .. Len(rooms) : Total(rooms)[i] % STACK_ALIGN_SIZE = 0
<1> DEFINE t == Total(rooms)
           slots == \A i \in 1 .. Len(rooms) : rooms[i] % STACK_ALIGN_SIZE = 0
           S == {j \in Nat : j \in 0 .. Len(rooms) =>
                    t[j] \in Nat /\ (\A i \in 0 .. j : t[i] <= t[j]) /\ (slots => t[j] % STACK_ALIGN_SIZE = 0)}
<1>1. \A i \in 0 .. Len(rooms) : t[i] = IF i = 0 THEN 0 ELSE t[i - 1] + rooms[i]
  BY TotalIs DEF IsTotal
<1> HIDE DEF t
<1>2. t[0] = 0
  BY <1>1
<1>3. 0 \in S
  BY <1>2 DEF STACK_ALIGN_SIZE
<1>4. ASSUME NEW n \in Nat, n \in S PROVE n + 1 \in S
  <2>1. SUFFICES ASSUME n + 1 \in 0 .. Len(rooms)
                 PROVE  /\ t[n + 1] \in Nat /\ \A i \in 0 .. n + 1 : t[i] <= t[n + 1]
                        /\ slots => t[n + 1] % STACK_ALIGN_SIZE = 0
    OBVIOUS
  <2>2. t[n] \in Nat /\ (\A i \in 0 .. n : t[i] <= t[n]) /\ (slots => t[n] % STACK_ALIGN_SIZE = 0)
    BY <1>4, <2>1
  <2>3. n + 1 \in 1 .. Len(rooms) /\ t[n + 1] = t[n] + rooms[n + 1] /\ rooms[n + 1] \in Nat
    BY <1>1, <2>1
  <2>4. slots => rooms[n + 1] % STACK_ALIGN_SIZE = 0
    BY <2>3
  <2> HIDE DEF slots, S
  <2>5. t[n + 1] \in Nat /\ t[n] <= t[n + 1]
    BY <2>2, <2>3
  <2>6. ASSUME NEW i \in 0 .. n + 1 PROVE t[i] <= t[n + 1]
    <3>1. CASE i = n + 1
      BY <2>5, <3>1
    <3>2. CASE i \in 0 .. n
      <4>1. t[i] <= t[n] /\ t[i] \in Int
        <5>1. \A k \in 0 .. Len(rooms) : t[k] \in Int
          <6>1. \A k \in Nat : k + 1 \in 1 .. Len(rooms) => t[k + 1] = t[k] + rooms[k + 1]
            BY <1>1
          <6> DEFINE I == {k \in Nat : k \in 0 .. Len(rooms) => t[k] \in Int}
          <6>2. 0 \in I
            BY <1>2
          <6>3. \A k \in Nat : k \in I => k + 1 \in I
            BY <6>1
          <6> HIDE DEF I
          <6>4. Nat \subseteq I
            BY <6>2, <6>3, SetInduction
          <6> QED BY <6>4 DEF I
        <5> QED BY <2>1, <2>2, <3>2, <5>1
      <4> QED BY <2>2, <2>5, <4>1
    <3> QED BY <3>1, <3>2
  <2>7. slots => t[n + 1] % STACK_ALIGN_SIZE = 0
    BY <2>2, <2>3, <2>4, FourAndFour DEF STACK_ALIGN_SIZE
  <2> QED BY <2>5, <2>6, <2>7
<1> HIDE DEF S
<1>5. Nat \subseteq S
  BY <1>3, <1>4, SetInduction
<1>6. \A j \in 0 .. Len(rooms) :
        t[j] \in Nat /\ (\A i \in 0 .. j : t[i] <= t[j]) /\ (slots => t[j] % STACK_ALIGN_SIZE = 0)
  BY <1>5 DEF S
<1> HIDE DEF slots
<1>7. \A i, j \in 0 .. Len(rooms) : i <= j => t[i] <= t[j]
  BY <1>6
<1>8. \A i \in 1 .. Len(rooms) : t[i] = t[i - 1] + rooms[i]
  BY <1>1
<1> QED BY <1>2, <1>6, <1>7, <1>8 DEF t, slots

-----------------------------------------------------------------------------
(* Frames.                                                                  *)

LEMMA SlotHolds ==
  ASSUME NEW size \in Nat
  PROVE  /\ Slot(size) \in Nat \ {0} /\ size <= Slot(size) /\ Slot(size) % STACK_ALIGN_SIZE = 0
         /\ Aligned(size, STACK_ALIGN_SIZE) \in Nat
         /\ size # 0 => Slot(size) = Aligned(size, STACK_ALIGN_SIZE)
<1>1. CASE size = 0
  BY <1>1, AlignedUp DEF Slot, Alignments, EMPTY_OBJECT_SIZE, STACK_ALIGN_SIZE
<1>2. CASE size # 0
  BY <1>2, AlignedUp DEF Slot, Alignments, EMPTY_OBJECT_SIZE, STACK_ALIGN_SIZE
<1> QED BY <1>1, <1>2

\* The places between the slots.
LEMMA FrameTotals ==
  ASSUME NEW sizes \in Seq(Nat)
  PROVE  /\ Len(sizes) \in Nat
         /\ \A i \in 0 .. Len(sizes) : Total(Slots(sizes))[i] \in Nat /\ Total(Slots(sizes))[i] % 4 = 0
         /\ \A i \in 1 .. Len(sizes) :
              sizes[i] \in Nat /\ Total(Slots(sizes))[i - 1] + sizes[i] <= Total(Slots(sizes))[i]
         /\ \A i, j \in 0 .. Len(sizes) : i <= j => Total(Slots(sizes))[i] <= Total(Slots(sizes))[j]
<1> DEFINE rooms == Slots(sizes)
           t == Total(rooms)
<1>1. Len(sizes) \in Nat /\ Len(rooms) = Len(sizes)
  BY DEF Slots
<1>2. ASSUME NEW i \in 1 .. Len(sizes)
      PROVE  /\ sizes[i] \in Nat /\ rooms[i] \in Nat /\ sizes[i] <= rooms[i]
             /\ rooms[i] % STACK_ALIGN_SIZE = 0
  <2>1. sizes[i] \in Nat
    OBVIOUS
  <2>2. rooms[i] = Slot(sizes[i])
    BY DEF Slots
  <2> HIDE DEF rooms
  <2> QED BY <2>1, <2>2, SlotHolds
<1> HIDE DEF rooms
<1>3. /\ \A i \in 0 .. Len(rooms) : t[i] \in Nat /\ t[i] % STACK_ALIGN_SIZE = 0
      /\ \A i \in 1 .. Len(rooms) : t[i] = t[i - 1] + rooms[i]
      /\ \A i, j \in 0 .. Len(rooms) : i <= j => t[i] <= t[j]
  BY <1>1, <1>2, TotalGrows
<1> HIDE DEF t
<1>5. ASSUME NEW i \in 1 .. Len(sizes) PROVE t[i - 1] + sizes[i] <= t[i]
  <2>1. i - 1 \in 0 .. Len(rooms) /\ i \in 1 .. Len(rooms)
    BY <1>1
  <2>2. t[i - 1] \in Nat /\ t[i] = t[i - 1] + rooms[i]
    BY <1>3, <2>1
  <2>3. sizes[i] \in Nat /\ rooms[i] \in Nat /\ sizes[i] <= rooms[i]
    BY <1>2
  <2> QED BY <2>2, <2>3
<1> QED BY <1>1, <1>2, <1>3, <1>5 DEF t, rooms, STACK_ALIGN_SIZE

(* The parameters of a function stand behind the registers a call preserves *)
(* and the return address, each in a slot of its own that holds it         *)
(* (LayoutFrame, x86.c:630).                                                *)
THEOREM ParametersApart ==
  ASSUME NEW sizes \in Seq(Nat)
  PROVE  \A i \in 1 .. Len(sizes) :
           /\ ParameterOffsets(sizes)[i] >= FirstParameter
           /\ ParameterOffsets(sizes)[i] % STACK_ALIGN_SIZE = 0
           /\ \A j \in 1 .. Len(sizes) :
                i < j => ParameterOffsets(sizes)[i] + sizes[i] <= ParameterOffsets(sizes)[j]
<1> DEFINE t == Total(Slots(sizes))
<1>1. \A i \in 1 .. Len(sizes) : ParameterOffsets(sizes)[i] = 20 + t[i - 1]
  BY DEF ParameterOffsets, FirstParameter, PRESERVE_REGS, STACK_ALIGN_SIZE
<1>2. /\ Len(sizes) \in Nat
      /\ \A i \in 0 .. Len(sizes) : t[i] \in Nat /\ t[i] % 4 = 0
      /\ \A i \in 1 .. Len(sizes) : sizes[i] \in Nat /\ t[i - 1] + sizes[i] <= t[i]
      /\ \A i, j \in 0 .. Len(sizes) : i <= j => t[i] <= t[j]
  BY FrameTotals
<1> HIDE DEF t
<1> TAKE i \in 1 .. Len(sizes)
<1>3. t[i - 1] \in Nat /\ t[i - 1] % 4 = 0 /\ t[i] \in Nat /\ t[i - 1] + sizes[i] <= t[i] /\ sizes[i] \in Nat
  BY <1>2
<1>4. (20 + t[i - 1]) % 4 = 0
  BY <1>3
<1>5. ASSUME NEW j \in 1 .. Len(sizes), i < j
      PROVE  ParameterOffsets(sizes)[i] + sizes[i] <= ParameterOffsets(sizes)[j]
  <2>1. t[i] <= t[j - 1] /\ t[j - 1] \in Nat
    BY <1>2, <1>5
  <2>2. ParameterOffsets(sizes)[i] = 20 + t[i - 1] /\ ParameterOffsets(sizes)[j] = 20 + t[j - 1]
    BY <1>1
  <2>3. (20 + t[i - 1]) + sizes[i] <= 20 + t[j - 1]
    BY <1>3, <2>1, ChainUp
  <2> QED BY <2>2, <2>3
<1> QED BY <1>1, <1>3, <1>4, <1>5 DEF FirstParameter, PRESERVE_REGS, STACK_ALIGN_SIZE

(* The locals stand below the frame's base, each in a slot of its own, and *)
(* none below what the prologue leaves room for (LayoutFrame, x86.c:645).   *)
THEOREM LocalsApart ==
  ASSUME NEW sizes \in Seq(Nat)
  PROVE  \A i \in 1 .. Len(sizes) :
           /\ LocalOffsets(sizes)[i] + sizes[i] <= 0 /\ LocalOffsets(sizes)[i] >= -FrameSize(sizes)
           /\ LocalOffsets(sizes)[i] % STACK_ALIGN_SIZE = 0
           /\ \A j \in 1 .. Len(sizes) :
                i < j => LocalOffsets(sizes)[j] + sizes[j] <= LocalOffsets(sizes)[i]
<1> DEFINE t == Total(Slots(sizes))
<1>1. \A i \in 1 .. Len(sizes) : LocalOffsets(sizes)[i] = -t[i]
  BY DEF LocalOffsets
<1>2. /\ Len(sizes) \in Nat
      /\ \A i \in 0 .. Len(sizes) : t[i] \in Nat /\ t[i] % 4 = 0
      /\ \A i \in 1 .. Len(sizes) : sizes[i] \in Nat /\ t[i - 1] + sizes[i] <= t[i]
      /\ \A i, j \in 0 .. Len(sizes) : i <= j => t[i] <= t[j]
  BY FrameTotals
<1>3. FrameSize(sizes) = t[Len(sizes)]
  BY DEF FrameSize
<1> HIDE DEF t
<1> TAKE i \in 1 .. Len(sizes)
<1>4. t[i - 1] \in Nat /\ t[i] \in Nat /\ t[i] % 4 = 0 /\ t[i - 1] + sizes[i] <= t[i] /\ sizes[i] \in Nat
  BY <1>2
<1>5. t[i] <= t[Len(sizes)] /\ t[Len(sizes)] \in Nat
  BY <1>2
<1>6. (-t[i]) % 4 = 0
  BY <1>4, MinusFour
<1>7. ASSUME NEW j \in 1 .. Len(sizes), i < j
      PROVE  LocalOffsets(sizes)[j] + sizes[j] <= LocalOffsets(sizes)[i]
  <2>1. t[i] <= t[j - 1] /\ t[j - 1] \in Nat /\ t[j] \in Nat /\ t[j - 1] + sizes[j] <= t[j] /\ sizes[j] \in Nat
    BY <1>2, <1>7
  <2>2. LocalOffsets(sizes)[i] = -t[i] /\ LocalOffsets(sizes)[j] = -t[j]
    BY <1>1
  <2>3. (-t[j]) + sizes[j] <= -t[i]
    BY <1>4, <2>1, ChainDown
  <2> QED BY <2>2, <2>3
<1>8. LocalOffsets(sizes)[i] = -t[i]
  BY <1>1
<1>9. LocalOffsets(sizes)[i] + sizes[i] <= 0 /\ LocalOffsets(sizes)[i] >= -FrameSize(sizes)
  <2>1. (-t[i]) + sizes[i] <= 0 /\ -t[i] >= -t[Len(sizes)]
    BY <1>4, <1>5, BelowAndAbove
  <2> QED BY <1>3, <1>8, <2>1
<1> QED BY <1>6, <1>7, <1>8, <1>9 DEF STACK_ALIGN_SIZE

(* A call pushes its arguments to where the function has its parameters,   *)
(* if all of them have a size (EmitCall, x86.c:217; LayoutFrame): it pushes *)
(* nothing for one that has none, and the function leaves it a slot.        *)
THEOREM ArgumentsAtParameters ==
  ASSUME NEW sizes \in Seq(Nat \ {0})
  PROVE  ParameterOffsets(sizes) = [i \in 1 .. Len(sizes) |-> FirstParameter + ArgumentOffsets(sizes)[i]]
<1>1. sizes \in Seq(Nat) /\ \A i \in 1 .. Len(sizes) : sizes[i] \in Nat /\ sizes[i] # 0
  OBVIOUS
<1>2. \A i \in 1 .. Len(sizes) : Slot(sizes[i]) = Aligned(sizes[i], STACK_ALIGN_SIZE)
  BY <1>1, SlotHolds
<1>3. Slots(sizes) = Pushes(sizes)
  BY <1>2 DEF Slots, Pushes
<1>4. \A i \in 1 .. Len(sizes) : ArgumentOffsets(sizes)[i] = Total(Slots(sizes))[i - 1]
  BY <1>3 DEF ArgumentOffsets
<1> QED BY <1>4 DEF ParameterOffsets

-----------------------------------------------------------------------------
(* Structures.                                                              *)

IsSizeWith(f, sizes, aligns) ==
    f = [i \in 0 .. Len(sizes) |-> IF i = 0 THEN 0 ELSE Aligned(f[i - 1], aligns[i]) + sizes[i]]

LEMMA SizeWithExists ==
  ASSUME NEW sizes, NEW aligns, Len(sizes) \in Nat
  PROVE  \E f : IsSizeWith(f, sizes, aligns)
<1> DEFINE Next1(m, i) == Aligned(m, aligns[i]) + sizes[i]
           Up(f, n) == f = [i \in 0 .. n |-> IF i = 0 THEN 0 ELSE Next1(f[i - 1], i)]
           S == {n \in Nat : \E f : Up(f, n)}
<1>1. 0 \in S
  <2> DEFINE f == [i \in 0 .. 0 |-> 0]
  <2>1. f = [i \in 0 .. 0 |-> IF i = 0 THEN 0 ELSE Next1(f[i - 1], i)]
    OBVIOUS
  <2> QED BY <2>1
<1> HIDE DEF Next1
<1>2. ASSUME NEW n \in Nat, n \in S PROVE n + 1 \in S
  <2>1. PICK f : Up(f, n)
    BY <1>2
  <2> DEFINE g == [i \in 0 .. n + 1 |-> IF i = 0 THEN 0 ELSE Next1(f[i - 1], i)]
  <2>2. ASSUME NEW i \in 0 .. n PROVE g[i] = f[i]
    <3>1. f[i] = IF i = 0 THEN 0 ELSE Next1(f[i - 1], i)
      BY <2>1
    <3> QED BY <3>1
  <2>3. ASSUME NEW i \in 0 .. n + 1 PROVE g[i] = IF i = 0 THEN 0 ELSE Next1(g[i - 1], i)
    <3>1. CASE i = 0
      BY <3>1
    <3>2. CASE i # 0
      <4>1. i - 1 \in 0 .. n
        BY <3>2
      <4>2. g[i] = Next1(f[i - 1], i)
        BY <3>2
      <4>3. g[i - 1] = f[i - 1]
        BY <2>2, <4>1
      <4> HIDE DEF g
      <4> QED BY <3>2, <4>2, <4>3
    <3> QED BY <3>1, <3>2
  <2>4. g = [i \in 0 .. n + 1 |-> g[i]]
    OBVIOUS
  <2> HIDE DEF g
  <2>5. g = [i \in 0 .. n + 1 |-> IF i = 0 THEN 0 ELSE Next1(g[i - 1], i)]
    BY <2>3, <2>4
  <2> QED BY <2>5
<1> HIDE DEF S
<1>3. Len(sizes) \in S
  BY <1>1, <1>2, SetInduction
<1>4. PICK f : Up(f, Len(sizes))
  BY <1>3 DEF S
<1>5. IsSizeWith(f, sizes, aligns)
  BY <1>4 DEF IsSizeWith, Next1
<1> QED BY <1>5

LEMMA SizeWithIs ==
  ASSUME NEW sizes, NEW aligns, Len(sizes) \in Nat
  PROVE  IsSizeWith(SizeWith(sizes, aligns), sizes, aligns)
<1> DEFINE Is(f) ==
      f = [i \in 0 .. Len(sizes) |-> IF i = 0 THEN 0 ELSE Aligned(f[i - 1], aligns[i]) + sizes[i]]
<1>1. \E f : Is(f)
  BY SizeWithExists DEF IsSizeWith
<1>2. Is(CHOOSE f : Is(f))
  BY <1>1
<1> QED BY <1>2 DEF SizeWith, IsSizeWith

LEMMA SizeWithGrows ==
  ASSUME NEW sizes \in Seq(Nat), NEW aligns,
         \A i \in 1 .. Len(sizes) : aligns[i] \in Alignments \cup {0}
  PROVE  /\ Len(sizes) \in Nat
         /\ \A i \in 0 .. Len(sizes) : SizeWith(sizes, aligns)[i] \in Nat
         /\ \A i \in 1 .. Len(sizes) :
              SizeWith(sizes, aligns)[i] = Aligned(SizeWith(sizes, aligns)[i - 1], aligns[i]) + sizes[i]
         /\ \A i, j \in 0 .. Len(sizes) :
              i <= j => SizeWith(sizes, aligns)[i] <= SizeWith(sizes, aligns)[j]
<1> DEFINE t == SizeWith(sizes, aligns)
           S == {j \in Nat : j \in 0 .. Len(sizes) => t[j] \in Nat /\ (\A i \in 0 .. j : t[i] \in Nat /\ t[i] <= t[j])}
<1>1. Len(sizes) \in Nat
  OBVIOUS
<1>2. \A i \in 0 .. Len(sizes) : t[i] = IF i = 0 THEN 0 ELSE Aligned(t[i - 1], aligns[i]) + sizes[i]
  BY <1>1, SizeWithIs DEF IsSizeWith
<1> HIDE DEF t
<1>3. 0 \in S
  <2>1. t[0] = 0
    BY <1>2, <1>1
  <2> QED BY <2>1
<1>4. ASSUME NEW n \in Nat, n \in S PROVE n + 1 \in S
  <2>1. SUFFICES ASSUME n + 1 \in 0 .. Len(sizes)
                 PROVE  t[n + 1] \in Nat /\ \A i \in 0 .. n + 1 : t[i] \in Nat /\ t[i] <= t[n + 1]
    OBVIOUS
  <2>2. t[n] \in Nat /\ \A i \in 0 .. n : t[i] \in Nat /\ t[i] <= t[n]
    BY <1>4, <2>1
  <2>3. n + 1 \in 1 .. Len(sizes)
    BY <2>1
  <2>4. sizes[n + 1] \in Nat /\ aligns[n + 1] \in Alignments \cup {0}
    BY <2>3
  <2>5. t[n + 1] = Aligned(t[n], aligns[n + 1]) + sizes[n + 1]
    BY <1>2, <2>1
  <2>6. Aligned(t[n], aligns[n + 1]) \in Nat /\ t[n] <= Aligned(t[n], aligns[n + 1])
    BY <2>2, <2>4, AlignedUp
  <2> HIDE DEF S
  <2>7. t[n + 1] \in Nat /\ t[n] <= t[n + 1]
    BY <2>2, <2>4, <2>5, <2>6
  <2>8. ASSUME NEW i \in 0 .. n + 1 PROVE t[i] \in Nat /\ t[i] <= t[n + 1]
    <3>1. CASE i = n + 1
      BY <2>7, <3>1
    <3>2. CASE i \in 0 .. n
      BY <2>2, <2>7, <3>2
    <3> QED BY <3>1, <3>2
  <2> QED BY <2>7, <2>8
<1> HIDE DEF S
<1>5. Nat \subseteq S
  BY <1>3, <1>4, SetInduction
<1>6. \A j \in 0 .. Len(sizes) : t[j] \in Nat /\ \A i \in 0 .. j : t[i] <= t[j]
  BY <1>5 DEF S
<1>7. \A i, j \in 0 .. Len(sizes) : i <= j => t[i] <= t[j]
  BY <1>6
<1>8. \A i \in 1 .. Len(sizes) : t[i] = Aligned(t[i - 1], aligns[i]) + sizes[i]
  BY <1>2
<1> QED BY <1>1, <1>6, <1>7, <1>8 DEF t

\* The types a field may have, as far as layout goes.
HasLayout(ty) == ty.size \in Nat /\ ty.align \in Alignments \cup {0}

LEMMA LargestAlignment ==
  ASSUME NEW A, A \subseteq Alignments \cup {0}
  PROVE  \E a \in {0} \cup A : \A b \in A : b <= a
<1>1. CASE 4 \in A
  BY <1>1 DEF Alignments
<1>2. CASE 4 \notin A /\ 2 \in A
  BY <1>2 DEF Alignments
<1>3. CASE 4 \notin A /\ 2 \notin A /\ 1 \in A
  BY <1>3 DEF Alignments
<1>4. CASE 4 \notin A /\ 2 \notin A /\ 1 \notin A
  BY <1>4 DEF Alignments
<1> QED BY <1>1, <1>2, <1>3, <1>4

\* What is aligned for a structure is aligned for what has an alignment no larger.
LEMMA AlignmentsDivide ==
  ASSUME NEW p \in Nat, NEW m \in Nat, NEW a \in Alignments, NEW b \in Alignments, a <= b,
         p % b = 0, m % a = 0
  PROVE  (p + m) % a = 0
<1>1. CASE a = 1
  BY <1>1
<1>2. CASE a = 2 /\ b = 2
  BY <1>2
<1>3. CASE a = 2 /\ b = 4
  BY <1>3
<1>4. CASE a = 4 /\ b = 4
  BY <1>4
<1> QED BY <1>1, <1>2, <1>3, <1>4 DEF Alignments

SizesOf(fields) == [i \in DOMAIN fields |-> fields[i].size]
AlignsOf(fields) == [i \in DOMAIN fields |-> fields[i].align]
LEMMA StructIs ==
  ASSUME NEW fields, Len(fields) \in Nat, DOMAIN fields = 1 .. Len(fields),
         \A i \in 1 .. Len(fields) : HasLayout(fields[i])
  PROVE  /\ SizesOf(fields) \in Seq(Nat) /\ Len(SizesOf(fields)) = Len(fields)
         /\ \A i \in 1 .. Len(fields) :
              /\ SizesOf(fields)[i] = fields[i].size /\ AlignsOf(fields)[i] = fields[i].align
              /\ AlignsOf(fields)[i] \in Alignments \cup {0}
         /\ AlignOf(Struct(fields)) \in Alignments \cup {0}
         /\ \A i \in 1 .. Len(fields) : AlignsOf(fields)[i] <= AlignOf(Struct(fields))
         /\ SizeOf(Struct(fields)) = RecordSize(SizesOf(fields), AlignsOf(fields), AlignOf(Struct(fields)))
         /\ \A i \in 1 .. Len(fields) :
              FieldOffset(Struct(fields), i) = FieldOffsets(SizesOf(fields), AlignsOf(fields))[i]
<1> DEFINE sizes == [i \in DOMAIN fields |-> fields[i].size]
           aligns == [i \in DOMAIN fields |-> fields[i].align]
<1>1. sizes \in Seq(Nat) /\ Len(sizes) = Len(fields)
  BY DEF HasLayout
<1>2. \A i \in 1 .. Len(fields) : /\ sizes[i] = fields[i].size /\ aligns[i] = fields[i].align
                                  /\ aligns[i] \in Alignments \cup {0}
  BY DEF HasLayout
<1>0. SizesOf(fields) = sizes /\ AlignsOf(fields) = aligns
  BY DEF SizesOf, AlignsOf
<1> DEFINE A == {aligns[i] : i \in DOMAIN fields}
           align == CHOOSE a \in {0} \cup A : \A i \in DOMAIN fields : aligns[i] <= a
<1>3. \E a \in {0} \cup A : \A i \in DOMAIN fields : aligns[i] <= a
  <2>1. A \subseteq Alignments \cup {0}
    BY <1>2
  <2>2. \A i \in DOMAIN fields : aligns[i] \in A
    OBVIOUS
  <2> HIDE DEF A
  <2>3. PICK a \in {0} \cup A : \A b \in A : b <= a
    BY <2>1, LargestAlignment
  <2> QED BY <2>2, <2>3
<1>4. align \in {0} \cup A /\ \A i \in DOMAIN fields : aligns[i] <= align
  <2> HIDE DEF A
  <2> QED BY <1>3
<1>5. Struct(fields) = Derived("STRUCT", 0, fields, RecordSize(sizes, aligns, align), align,
                               SubSeq(FieldOffsets(sizes, aligns), 1, Len(fields)))
  <2> HIDE DEF align
  <2>1. align = CHOOSE a \in {0} \cup {aligns[i] : i \in DOMAIN fields} : \A i \in DOMAIN fields : aligns[i] <= a
    BY DEF align
  <2> QED BY <2>1 DEF Struct
<1> HIDE DEF align, sizes, aligns
<1>6. AlignOf(Struct(fields)) = align /\ SizeOf(Struct(fields)) = RecordSize(sizes, aligns, align)
  BY <1>5 DEF Derived, AlignOf, SizeOf
<1>7. align \in Alignments \cup {0}
  BY <1>4, <1>2
<1>8. ASSUME NEW i \in 1 .. Len(fields) PROVE FieldOffset(Struct(fields), i) = FieldOffsets(sizes, aligns)[i]
  <2> DEFINE offsets == FieldOffsets(sizes, aligns)
             range == {offsets[k] : k \in 1 .. Len(fields)}
  <2>1. \A k \in 1 .. Len(fields) : offsets[k] \in range
    OBVIOUS
  <2> HIDE DEF offsets, range
  <2>2. \A k \in 1 .. Len(fields) - 1 + 1 : SubSeq(offsets, 1, Len(fields))[k] = offsets[1 + k - 1]
    BY <2>1, SubSeqProperties
  <2>3. SubSeq(offsets, 1, Len(fields))[i] = offsets[i]
    BY <2>2
  <2> QED BY <1>5, <2>3 DEF Derived, FieldOffset, offsets
<1>9. \A i \in 1 .. Len(fields) : aligns[i] <= align
  BY <1>4
<1> QED BY <1>0, <1>1, <1>2, <1>6, <1>7, <1>8, <1>9

(* The fields of a structure are apart, in their order, and within its     *)
(* size; and wherever a structure stands aligned, so do its fields, and     *)
(* what stands behind it in an array (EndRecord, type.c:280).               *)
THEOREM FieldsApart ==
  ASSUME NEW fields, Len(fields) \in Nat, DOMAIN fields = 1 .. Len(fields),
         \A i \in 1 .. Len(fields) : HasLayout(fields[i]),
         NEW ty, ty = Struct(fields)
  PROVE  /\ HasLayout(ty)
         /\ \A i \in 1 .. Len(fields) :
              /\ FieldOffset(ty, i) \in Nat
              /\ FieldOffset(ty, i) + SizeOf(fields[i]) <= SizeOf(ty)
              /\ \A j \in 1 .. Len(fields) : i < j => FieldOffset(ty, i) + SizeOf(fields[i]) <= FieldOffset(ty, j)
         /\ \A p \in Nat : AlignOf(ty) # 0 /\ p % AlignOf(ty) = 0 =>
              /\ (p + SizeOf(ty)) % AlignOf(ty) = 0
              /\ \A i \in 1 .. Len(fields) :
                   AlignOf(fields[i]) # 0 => (p + FieldOffset(ty, i)) % AlignOf(fields[i]) = 0
<1> DEFINE sizes == SizesOf(fields)
           aligns == AlignsOf(fields)
           n == Len(fields)
           t == SizeWith(sizes, aligns)
           align == AlignOf(ty)
<1>1. /\ sizes \in Seq(Nat) /\ Len(sizes) = n
      /\ \A i \in 1 .. n : sizes[i] = fields[i].size /\ aligns[i] = fields[i].align /\ aligns[i] \in Alignments \cup {0}
      /\ align \in Alignments \cup {0}
      /\ \A i \in 1 .. n : aligns[i] <= align
      /\ SizeOf(ty) = RecordSize(sizes, aligns, align)
      /\ \A i \in 1 .. n : FieldOffset(ty, i) = FieldOffsets(sizes, aligns)[i]
  BY StructIs
<1>2. \A i \in 1 .. n : SizeOf(fields[i]) = fields[i].size /\ AlignOf(fields[i]) = fields[i].align
  BY DEF SizeOf, AlignOf
<1> HIDE DEF sizes, aligns
<1>3. /\ \A i \in 0 .. n : t[i] \in Nat
      /\ \A i \in 1 .. n : t[i] = Aligned(t[i - 1], aligns[i]) + sizes[i]
      /\ \A i, j \in 0 .. n : i <= j => t[i] <= t[j]
  <2>1. \A i \in 1 .. Len(sizes) : aligns[i] \in Alignments \cup {0}
    BY <1>1
  <2> QED BY <1>1, <2>1, SizeWithGrows
<1>4. \A i \in 1 .. n : FieldOffset(ty, i) = Aligned(t[i - 1], aligns[i])
  BY <1>1 DEF FieldOffsets
<1>5. SizeOf(ty) = Aligned(t[n], align) /\ t[n] \in Nat
  BY <1>1, <1>3 DEF RecordSize
<1> HIDE DEF t, align
<1>6. SizeOf(ty) \in Nat /\ t[n] <= SizeOf(ty) /\ (align # 0 => SizeOf(ty) % align = 0)
  BY <1>1, <1>5, AlignedUp
<1>7. HasLayout(ty)
  BY <1>1, <1>6 DEF HasLayout, SizeOf, AlignOf, align
<1>8. ASSUME NEW i \in 1 .. n
      PROVE  /\ FieldOffset(ty, i) \in Nat /\ sizes[i] \in Nat
             /\ t[i] = FieldOffset(ty, i) + sizes[i]
             /\ t[i - 1] <= FieldOffset(ty, i)
             /\ aligns[i] # 0 => FieldOffset(ty, i) % aligns[i] = 0
  <2>1. i - 1 \in 0 .. n
    OBVIOUS
  <2>2. t[i - 1] \in Nat /\ aligns[i] \in Alignments \cup {0} /\ sizes[i] \in Nat
    BY <1>1, <1>3, <2>1
  <2>3. t[i] = Aligned(t[i - 1], aligns[i]) + sizes[i] /\ FieldOffset(ty, i) = Aligned(t[i - 1], aligns[i])
    BY <1>3, <1>4
  <2> QED BY <2>2, <2>3, AlignedUp
<1>9. ASSUME NEW i \in 1 .. n PROVE FieldOffset(ty, i) + SizeOf(fields[i]) <= SizeOf(ty)
  <2>1. t[i] <= t[n] /\ t[i] \in Nat
    BY <1>3
  <2>2. SizeOf(fields[i]) = sizes[i]
    BY <1>1, <1>2
  <2> QED BY <1>5, <1>6, <1>8, <2>1, <2>2
<1>10. ASSUME NEW i \in 1 .. n, NEW j \in 1 .. n, i < j
       PROVE  FieldOffset(ty, i) + SizeOf(fields[i]) <= FieldOffset(ty, j)
  <2>1. t[i] <= t[j - 1] /\ t[i] \in Nat /\ t[j - 1] \in Nat
    BY <1>3, <1>10
  <2>2. t[i] = FieldOffset(ty, i) + SizeOf(fields[i])
    BY <1>1, <1>2, <1>8
  <2>3. t[j - 1] <= FieldOffset(ty, j) /\ FieldOffset(ty, j) \in Nat
    BY <1>8
  <2>4. t[i] <= FieldOffset(ty, j)
    BY <2>1, <2>3
  <2> QED BY <2>2, <2>4
<1>11. ASSUME NEW p \in Nat, align # 0, p % align = 0
       PROVE  /\ (p + SizeOf(ty)) % align = 0
              /\ \A i \in 1 .. n : AlignOf(fields[i]) # 0 => (p + FieldOffset(ty, i)) % AlignOf(fields[i]) = 0
  <2>1. align \in Alignments
    BY <1>1, <1>11
  <2>2. (p + SizeOf(ty)) % align = 0
    BY <1>6, <1>11, <2>1, AlignmentsDivide DEF Alignments
  <2>3. ASSUME NEW i \in 1 .. n, AlignOf(fields[i]) # 0
        PROVE  (p + FieldOffset(ty, i)) % AlignOf(fields[i]) = 0
    <3>1. AlignOf(fields[i]) = aligns[i] /\ aligns[i] \in Alignments /\ aligns[i] <= align
      BY <1>1, <1>2, <2>3
    <3>2. FieldOffset(ty, i) \in Nat /\ FieldOffset(ty, i) % aligns[i] = 0
      BY <1>8, <2>3, <3>1
    <3> QED BY <1>11, <2>1, <3>1, <3>2, AlignmentsDivide
  <2> QED BY <2>2, <2>3
<1> QED BY <1>7, <1>8, <1>9, <1>10, <1>11 DEF align

-----------------------------------------------------------------------------
(* The data in the image.                                                   *)

\* The places of a name, the values between two places, and the room at a place, for labels,
\* values and an end of the data that need not be those of one state.
PlacesIn(L, name) == {l[2] : l \in {k \in L : k[1] = name}}
BetweenIn(I, p, q) == Moved({v \in I : p <= v.at /\ v.at < q}, -p)
RoomIn(L, e, p, size) == p + size <= e /\ \A l \in L : l[2] <= p \/ p + size <= l[2]
StandsIn(L, I, e, fst, name, ty, values) ==
    \E p \in PlacesIn(L, name) :
        /\ PlacesIn(L, name) = {p}
        /\ RoomIn(L, e, p, SizeOf(ty)) /\ BetweenIn(I, p, p + SizeOf(ty)) = values
        /\ fst = TRUE => p % AlignOf(ty) = 0

\* Where ORG is the end of the data.
Follows(fst, o, e) == fst = TRUE => o = e

\* Labels and values stand before the end of the data.
IsValue(v) == v.at \in Nat /\ v = Value(v.at, v.size, v.sym, v.n)
Books(L, I, e) ==
    /\ e \in Nat
    /\ \A l \in L : l[2] \in Nat /\ l[2] <= e
    /\ \A v \in I : IsValue(v) /\ v.at < e

\* The variables are a sequence without repetitions.
GlobalsApart ==
    /\ globals \in Seq({globals[g] : g \in DOMAIN globals})
    /\ \A g, h \in DOMAIN globals : globals[g].id = globals[h].id => g = h

\* The strings and the variables that are written.
DoneStrings == IF phase = "strings" THEN 1 .. emitted ELSE 1 .. Len(strings)
DoneGlobals == CASE phase \in {"check", "strings"} -> {}
                 [] phase = "globals" -> 1 .. emitted
                 [] phase = "end" -> DOMAIN globals
StringValues(str) == DefineString(0, str.id, SizeOf(str.ty))

\* What is written of a variable.
Emission(data) == UNION {Emitted(data[i].offset, data[i].expr) : i \in 1 .. Len(data)}

\* What has been written stands, and what has not has no place; in the first file ORG is where
\* the data end.
WrittenIn(L, I, e, o, fst, doneStrings, doneGlobals) ==
    /\ Books(L, I, e) /\ Follows(fst, o, e)
    /\ \A k \in 1 .. Len(strings) :
         IF k \in doneStrings THEN StandsIn(L, I, e, fst, NameOfString(k - 1), strings[k].ty, StringValues(strings[k]))
         ELSE PlacesIn(L, NameOfString(k - 1)) = {}
    /\ \A g \in DOMAIN globals : globals[g].data # NoData =>
         IF g \in doneGlobals THEN StandsIn(L, I, e, fst, globals[g].id, globals[g].ty, Emission(globals[g].data))
         ELSE PlacesIn(L, globals[g].id) = {}
Written == WrittenIn(labels, image, loc, org, first, DoneStrings, DoneGlobals)

IInv ==
    /\ phase \in {"check", "strings", "globals", "end"} /\ emitted \in Nat
    /\ GlobalsApart /\ first \in BOOLEAN
    /\ phase = "check" => emitted = 0 /\ loc = 0 /\ labels = {} /\ image = {} /\ (first => org = 0)
    /\ phase \in {"strings", "globals"} => ok
    /\ phase # "check" /\ ok /\ DataInOrder => Written

-----------------------------------------------------------------------------
(* The values of a variable.                                                *)

\* Every value is in the room of what it belongs to.
LEMMA EmittedHolds ==
  ASSUME NEW at \in Nat, NEW e, SizeOf(e.ty) \in Nat, Width(e) = SizeOf(e.ty), NEW v \in Emitted(at, e)
  PROVE  IsValue(v) /\ v.at < at + SizeOf(e.ty)
<1>1. CASE e.op = "+"
  <2>1. v \in DefineAddress(at, e)
    BY <1>1 DEF Emitted
  <2> DEFINE n == IF e.kids[2].val < 0 THEN -e.kids[2].val ELSE e.kids[2].val
  <2>2. v = Value(at, 4, e.kids[1].id, n) /\ SizeOf(e.ty) = 4
    BY <1>1, <2>1 DEF DefineAddress, Width
  <2> HIDE DEF n
  <2> QED BY <2>2 DEF IsValue, Value
<1>2. CASE e.op = "str"
  <2>1. v \in DefineString(at, e.id, SizeOf(e.ty))
    BY <1>2 DEF Emitted
  <2>2. PICK i \in 1 .. SizeOf(e.ty) : v = Value(at + i - 1, 1, "", Text[e.id][i])
    BY <2>1 DEF DefineString
  <2>3. v.at = at + i - 1 /\ v = Value(v.at, v.size, v.sym, v.n)
    BY <2>2 DEF Value
  <2>4. at + i - 1 \in Nat /\ at + i - 1 < at + SizeOf(e.ty)
    OBVIOUS
  <2> QED BY <2>3, <2>4 DEF IsValue
<1>3. CASE e.op \notin {"+", "str"}
  <2>1. v \in DefineValue(at, e)
    BY <1>3 DEF Emitted
  <2>2. v = Value(at, Width(e), "", e.val % Modulus(TypeCode(e.ty))) /\ v.size # 0
    BY <2>1 DEF DefineValue
  <2>3. v.at = at /\ v.size = SizeOf(e.ty)
    BY <2>2 DEF Value
  <2>4. IsValue(v)
    BY <2>2 DEF IsValue, Value
  <2>5. SizeOf(e.ty) # 0
    BY <2>2, <2>3
  <2>6. at < at + SizeOf(e.ty)
    BY <2>5
  <2> QED BY <2>3, <2>4, <2>6
<1> QED BY <1>1, <1>2, <1>3

\* Where the first i values end, and what they are.
DataEnd(data, i) == IF i = 0 THEN 0 ELSE data[i].offset + SizeOf(data[i].expr.ty)
FirstContents(data, i) == UNION {Emitted(data[j].offset, data[j].expr) : j \in 1 .. i}
WrittenTo(data, i) ==
    [size |-> DataEnd(data, i), at |-> DataEnd(data, i), values |-> FirstContents(data, i)]

LEMMA EmitDatumIs ==
  ASSUME NEW data, NEW total \in Nat, InOrder(data, total), NEW i \in 1 .. Len(data)
  PROVE  EmitDatum(WrittenTo(data, i - 1), data[i]) = WrittenTo(data, i)
<1>1. data[i].offset \in Nat /\ SizeOf(data[i].expr.ty) \in Nat /\ Width(data[i].expr) = SizeOf(data[i].expr.ty)
  BY DEF InOrder
<1>2. DataEnd(data, i - 1) \in Nat
  <2>1. CASE i = 1
    BY <2>1 DEF DataEnd
  <2>2. CASE i # 1
    <3>1. i - 1 \in 1 .. Len(data)
      BY <2>2 DEF InOrder
    <3>2. data[i - 1].offset \in Nat /\ SizeOf(data[i - 1].expr.ty) \in Nat
      BY <3>1 DEF InOrder
    <3> QED BY <3>1, <3>2 DEF DataEnd
  <2> QED BY <2>1, <2>2
<1>3. FirstContents(data, i - 1) \cup Emitted(data[i].offset, data[i].expr) = FirstContents(data, i)
  <2>1. 1 .. i = (1 .. i - 1) \cup {i}
    BY DEF InOrder
  <2> QED BY <2>1 DEF FirstContents
<1>4. DataEnd(data, i - 1) + (data[i].offset - DataEnd(data, i - 1)) = data[i].offset
  BY <1>1, <1>2
<1>5. DataEnd(data, i) = data[i].offset + SizeOf(data[i].expr.ty)
  BY DEF DataEnd
<1> DEFINE w == WrittenTo(data, i - 1)
<1>6. w.size = DataEnd(data, i - 1) /\ w.at = DataEnd(data, i - 1) /\ w.values = FirstContents(data, i - 1)
  BY DEF WrittenTo
<1> HIDE DEF w
<1>7. EmitDatum(w, data[i]) =
        [size |-> data[i].offset + SizeOf(data[i].expr.ty), at |-> data[i].offset + Width(data[i].expr),
         values |-> FirstContents(data, i - 1) \cup Emitted(data[i].offset, data[i].expr)]
  BY <1>4, <1>6 DEF EmitDatum
<1> QED BY <1>1, <1>3, <1>5, <1>7 DEF w, WrittenTo

\* The values are written as the checks found them, and the size counted is what is written.
LEMMA EmitDataIs ==
  ASSUME NEW data, NEW total \in Nat, InOrder(data, total)
  PROVE  EmitData(data) = WrittenTo(data, Len(data))
<1> DEFINE Zero == [size |-> 0, at |-> 0, values |-> {}]
           Is(f) == f = [i \in 0 .. Len(data) |-> IF i = 0 THEN Zero ELSE EmitDatum(f[i - 1], data[i])]
           w == [i \in 0 .. Len(data) |-> WrittenTo(data, i)]
<1>1. Len(data) \in Nat
  BY DEF InOrder
<1>2. WrittenTo(data, 0) = Zero
  BY DEF WrittenTo, DataEnd, FirstContents
<1> HIDE DEF Zero
<1>3. \A i \in 0 .. Len(data) : w[i] = IF i = 0 THEN Zero ELSE EmitDatum(w[i - 1], data[i])
  <2> TAKE i \in 0 .. Len(data)
  <2>1. w[i] = WrittenTo(data, i)
    OBVIOUS
  <2>2. CASE i = 0
    BY <1>2, <2>1, <2>2
  <2>3. CASE i # 0
    <3>1. i \in 1 .. Len(data) /\ i - 1 \in 0 .. Len(data)
      BY <1>1, <2>3
    <3>2. w[i - 1] = WrittenTo(data, i - 1)
      BY <3>1
    <3> QED BY <2>1, <2>3, <3>1, <3>2, EmitDatumIs
  <2> QED BY <2>2, <2>3
<1>4. w = [i \in 0 .. Len(data) |-> w[i]]
  OBVIOUS
<1> HIDE DEF w
<1>5. Is(w)
  BY <1>3, <1>4
<1> DEFINE f == CHOOSE g : Is(g)
<1>6. Is(f)
  BY <1>5
<1>7. EmitData(data) = f[Len(data)]
  BY DEF EmitData, Zero
<1> HIDE DEF f
<1>8. \A i \in 0 .. Len(data) : f[i] = IF i = 0 THEN Zero ELSE EmitDatum(f[i - 1], data[i])
  BY <1>6
<1> HIDE DEF Is
<1> DEFINE S == {n \in Nat : n \in 0 .. Len(data) => f[n] = w[n]}
<1>9. 0 \in S
  BY <1>3, <1>8
<1>10. ASSUME NEW n \in Nat, n \in S PROVE n + 1 \in S
  <2>1. SUFFICES ASSUME n + 1 \in 0 .. Len(data) PROVE f[n + 1] = w[n + 1]
    OBVIOUS
  <2>2. f[n] = w[n]
    BY <1>1, <1>10, <2>1
  <2>3. f[n + 1] = EmitDatum(f[n], data[n + 1]) /\ w[n + 1] = EmitDatum(w[n], data[n + 1])
    <3>1. (n + 1) - 1 = n /\ n + 1 # 0
      OBVIOUS
    <3> HIDE DEF S
    <3> QED BY <1>3, <1>8, <2>1, <3>1
  <2> QED BY <2>2, <2>3
<1> HIDE DEF S
<1>11. Len(data) \in S
  BY <1>1, <1>9, <1>10, SetInduction
<1>12. f[Len(data)] = w[Len(data)]
  BY <1>1, <1>11 DEF S
<1> QED BY <1>1, <1>7, <1>12 DEF w

LEMMA EmissionHolds ==
  ASSUME NEW data, NEW total \in Nat, InOrder(data, total)
  PROVE  /\ EmitData(data).values = Emission(data)
         /\ EmitData(data).at = EmitData(data).size
         /\ EmitData(data).size \in Nat /\ EmitData(data).size <= total
         /\ \A v \in Emission(data) : IsValue(v) /\ v.at < total
<1>1. EmitData(data) = WrittenTo(data, Len(data)) /\ Len(data) \in Nat
  BY EmitDataIs DEF InOrder
<1>2. EmitData(data).values = Emission(data)
  BY <1>1 DEF WrittenTo, FirstContents, Emission
<1>3. EmitData(data).at = DataEnd(data, Len(data)) /\ EmitData(data).size = DataEnd(data, Len(data))
  BY <1>1 DEF WrittenTo
<1>4. DataEnd(data, Len(data)) \in Nat /\ DataEnd(data, Len(data)) <= total
  <2>1. CASE Len(data) = 0
    BY <2>1 DEF DataEnd
  <2>2. CASE Len(data) # 0
    <3>1. Len(data) \in 1 .. Len(data)
      BY <1>1, <2>2
    <3> QED BY <2>2, <3>1 DEF DataEnd, InOrder
  <2> QED BY <2>1, <2>2
<1>5. ASSUME NEW v \in Emission(data) PROVE IsValue(v) /\ v.at < total
  <2>1. PICK i \in 1 .. Len(data) : v \in Emitted(data[i].offset, data[i].expr)
    BY DEF Emission
  <2>2. /\ data[i].offset \in Nat /\ SizeOf(data[i].expr.ty) \in Nat
        /\ Width(data[i].expr) = SizeOf(data[i].expr.ty)
        /\ data[i].offset + SizeOf(data[i].expr.ty) <= total
    BY DEF InOrder
  <2>3. IsValue(v) /\ v.at < data[i].offset + SizeOf(data[i].expr.ty)
    BY <2>1, <2>2, EmittedHolds
  <2>4. v.at \in Nat
    BY <2>3 DEF IsValue
  <2> QED BY <2>2, <2>3, <2>4
<1> QED BY <1>2, <1>3, <1>4, <1>5

-----------------------------------------------------------------------------
(* A label and values behind the end of what there is.                      *)

LEMMA MovedBack ==
  ASSUME NEW at \in Nat, NEW values, \A v \in values : IsValue(v)
  PROVE  Moved(Moved(values, at), -at) = values
<1>1. ASSUME NEW v \in values
      PROVE  LET w == Value(v.at + at, v.size, v.sym, v.n)
             IN  Value(w.at + (-at), w.size, w.sym, w.n) = v
  <2>1. v.at \in Nat /\ v = Value(v.at, v.size, v.sym, v.n)
    BY DEF IsValue
  <2>2. (v.at + at) + (-at) = v.at
    BY <2>1
  <2> QED BY <2>1, <2>2 DEF Value
<1> DEFINE Up(v) == Value(v.at + at, v.size, v.sym, v.n)
           Down(w) == Value(w.at + (-at), w.size, w.sym, w.n)
<1>2. Moved(values, at) = {Up(v) : v \in values}
  BY DEF Moved
<1>3. Moved({Up(v) : v \in values}, -at) = {Down(w) : w \in {Up(v) : v \in values}}
  BY DEF Moved
<1>4. \A v \in values : Down(Up(v)) = v
  BY <1>1
<1> HIDE DEF Up, Down
<1>5. {Down(w) : w \in {Up(v) : v \in values}} = values
  BY <1>4
<1> QED BY <1>2, <1>3, <1>5

\* A label and its values, in some room from a place on.
Adds(L, I, e, name, at, size, values, L2, I2, e2) ==
    /\ Books(L, I, e)
    /\ at \in Nat /\ size \in Nat /\ e <= at
    /\ \A v \in values : IsValue(v) /\ v.at < size
    /\ L2 = L \cup {<< name, at >>} /\ I2 = I \cup Moved(values, at) /\ e2 = at + size

LEMMA Adding ==
  ASSUME NEW L, NEW I, NEW e, NEW name, NEW at, NEW size, NEW values, NEW L2, NEW I2, NEW e2,
         Adds(L, I, e, name, at, size, values, L2, I2, e2)
  PROVE  /\ Books(L2, I2, e2)
         /\ PlacesIn(L, name) = {} => PlacesIn(L2, name) = {at}
         /\ \A n : n # name => PlacesIn(L2, n) = PlacesIn(L, n)
         /\ RoomIn(L2, e2, at, size) /\ BetweenIn(I2, at, at + size) = values
         /\ \A p, s \in Nat : RoomIn(L, e, p, s) =>
              RoomIn(L2, e2, p, s) /\ BetweenIn(I2, p, p + s) = BetweenIn(I, p, p + s)
<1>0. /\ Books(L, I, e) /\ at \in Nat /\ size \in Nat /\ e <= at
      /\ \A v \in values : IsValue(v) /\ v.at < size
      /\ L2 = L \cup {<< name, at >>} /\ I2 = I \cup Moved(values, at) /\ e2 = at + size
  BY DEF Adds
<1>1. /\ e \in Nat /\ e2 \in Nat /\ e <= e2 /\ at <= e2
      /\ \A l \in L : l[2] \in Nat /\ l[2] <= e
      /\ \A v \in I : IsValue(v) /\ v.at \in Nat /\ v.at < e
  BY <1>0 DEF Books, IsValue
<1> DEFINE N == Moved(values, at)
<1>2. ASSUME NEW w \in N
      PROVE  IsValue(w) /\ w.at \in Nat /\ at <= w.at /\ w.at < at + size
  <2>1. PICK v \in values : w = Value(v.at + at, v.size, v.sym, v.n)
    BY DEF Moved
  <2>2. v.at \in Nat /\ v.at < size
    BY <1>0 DEF IsValue
  <2>3. w.at = v.at + at /\ w = Value(w.at, w.size, w.sym, w.n)
    BY <2>1 DEF Value
  <2>4. w.at \in Nat /\ at <= w.at /\ w.at < at + size
    BY <1>0, <2>2, <2>3
  <2> QED BY <2>3, <2>4 DEF IsValue
<1>3. Moved(N, -at) = values
  BY <1>0, MovedBack
<1> HIDE DEF N
<1>4. I2 = I \cup N
  BY <1>0 DEF N
<1>5. Books(L2, I2, e2)
  <2>1. ASSUME NEW l \in L2 PROVE l[2] \in Nat /\ l[2] <= e2
    <3>1. CASE l \in L
      BY <1>1, <3>1
    <3>2. CASE l = << name, at >>
      BY <1>0, <1>1, <3>2
    <3> QED BY <1>0, <3>1, <3>2
  <2>2. ASSUME NEW v \in I2 PROVE IsValue(v) /\ v.at < e2
    <3>1. CASE v \in I
      BY <1>1, <3>1
    <3>2. CASE v \in N
      <4>1. IsValue(v) /\ v.at < at + size
        BY <1>2, <3>2
      <4> QED BY <1>0, <4>1
    <3> QED BY <1>4, <3>1, <3>2
  <2> QED BY <1>1, <2>1, <2>2 DEF Books
<1>6. ASSUME PlacesIn(L, name) = {} PROVE PlacesIn(L2, name) = {at}
  <2>1. \A k \in L : k[1] # name
    BY <1>6 DEF PlacesIn
  <2>2. {k \in L2 : k[1] = name} = {<< name, at >>}
    BY <1>0, <2>1
  <2>3. PlacesIn(L2, name) = {l[2] : l \in {<< name, at >>}}
    BY <2>2 DEF PlacesIn
  <2> QED BY <2>3
<1>7. \A n : n # name => PlacesIn(L2, n) = PlacesIn(L, n)
  BY <1>0 DEF PlacesIn
<1>8. RoomIn(L2, e2, at, size)
  BY <1>0, <1>1 DEF RoomIn
<1>9. BetweenIn(I2, at, at + size) = values
  <2>1. {v \in I2 : at <= v.at /\ v.at < at + size} = N
    <3>1. \A v \in I : ~(at <= v.at)
      BY <1>0, <1>1
    <3>2. \A v \in N : at <= v.at /\ v.at < at + size
      BY <1>2
    <3> QED BY <1>4, <3>1, <3>2
  <2> QED BY <1>3, <2>1 DEF BetweenIn
<1>10. ASSUME NEW p \in Nat, NEW s \in Nat, RoomIn(L, e, p, s)
       PROVE  RoomIn(L2, e2, p, s) /\ BetweenIn(I2, p, p + s) = BetweenIn(I, p, p + s)
  <2>1. p + s <= e /\ \A l \in L : l[2] <= p \/ p + s <= l[2]
    BY <1>10 DEF RoomIn
  <2>2. p + s <= at /\ p + s <= e2
    BY <1>0, <1>1, <2>1
  <2>3. RoomIn(L2, e2, p, s)
    BY <1>0, <2>1, <2>2 DEF RoomIn
  <2>4. \A v \in N : ~(v.at < p + s)
    BY <1>0, <1>2, <2>2
  <2>5. {v \in I2 : p <= v.at /\ v.at < p + s} = {v \in I : p <= v.at /\ v.at < p + s}
    BY <1>4, <2>4
  <2> QED BY <2>3, <2>5 DEF BetweenIn
<1> QED BY <1>5, <1>6, <1>7, <1>8, <1>9, <1>10

\* What DefineGlobal makes of labels, values, the end and ORG.
Defines(L, I, e, o, fst, name, ty, values, L2, I2, e2, o2) ==
    LET align == AlignOf(ty)
        at == IF o % align # 0 THEN Aligned(e, align) ELSE e
    IN  /\ o2 = Aligned(o, align) + SizeOf(ty)
        /\ L2 = L \cup {<< name, at >>}
        /\ I2 = I \cup Moved(values, at)
        /\ e2 = at + SizeOf(ty)

\* Other names than one have the places they had, and what stands under them still does.
Kept(L, I, e, fst, name, L2, I2, e2) ==
    /\ \A n : n # name => PlacesIn(L2, n) = PlacesIn(L, n)
    /\ \A n, ty, values : n # name /\ Sized(ty) /\ StandsIn(L, I, e, fst, n, ty, values) =>
         StandsIn(L2, I2, e2, fst, n, ty, values)

LEMMA Defining ==
  ASSUME NEW L, NEW I, NEW e, NEW o, NEW fst, Books(L, I, e), Follows(fst, o, e),
         NEW name, NEW ty, Sized(ty),
         NEW values, \A v \in values : IsValue(v) /\ v.at < SizeOf(ty),
         NEW L2, NEW I2, NEW e2, NEW o2, Defines(L, I, e, o, fst, name, ty, values, L2, I2, e2, o2)
  PROVE  /\ Books(L2, I2, e2) /\ Follows(fst, o2, e2)
         /\ PlacesIn(L, name) = {} => StandsIn(L2, I2, e2, fst, name, ty, values)
         /\ Kept(L, I, e, fst, name, L2, I2, e2)
<1> DEFINE align == AlignOf(ty)
           at == IF o % align # 0 THEN Aligned(e, align) ELSE e
           size == SizeOf(ty)
<1>1. size \in Nat /\ align \in Alignments /\ e \in Nat /\ align # 0
  BY DEF Sized, Alignments, Books
<1>2. /\ L2 = L \cup {<< name, at >>} /\ I2 = I \cup Moved(values, at) /\ e2 = at + size
      /\ o2 = Aligned(o, align) + size
  BY DEF Defines
<1>3. Aligned(e, align) \in Nat /\ e <= Aligned(e, align) /\ Aligned(e, align) % align = 0
      /\ (e % align = 0 => Aligned(e, align) = e)
  BY <1>1, AlignedUp
<1>4. at \in Nat /\ e <= at /\ (fst = TRUE => at = Aligned(e, align))
  BY <1>1, <1>3 DEF Follows
<1>5. \A v \in values : IsValue(v) /\ v.at < size
  OBVIOUS
<1> HIDE DEF at, align, size
<1>6. Adds(L, I, e, name, at, size, values, L2, I2, e2)
  BY <1>1, <1>2, <1>4, <1>5 DEF Adds
<1>7. /\ Books(L2, I2, e2)
      /\ PlacesIn(L, name) = {} => PlacesIn(L2, name) = {at}
      /\ \A n : n # name => PlacesIn(L2, n) = PlacesIn(L, n)
      /\ RoomIn(L2, e2, at, size) /\ BetweenIn(I2, at, at + size) = values
      /\ \A p, s \in Nat : RoomIn(L, e, p, s) =>
           RoomIn(L2, e2, p, s) /\ BetweenIn(I2, p, p + s) = BetweenIn(I, p, p + s)
  BY <1>6, Adding
<1>8. Follows(fst, o2, e2)
  BY <1>2, <1>4 DEF Follows
<1>9. ASSUME PlacesIn(L, name) = {} PROVE StandsIn(L2, I2, e2, fst, name, ty, values)
  BY <1>3, <1>4, <1>7, <1>9 DEF StandsIn, size, align
<1>10. ASSUME NEW n, NEW t, NEW vs, n # name, Sized(t), StandsIn(L, I, e, fst, n, t, vs)
      PROVE  StandsIn(L2, I2, e2, fst, n, t, vs)
  <2>1. PICK p \in PlacesIn(L, n) :
          /\ PlacesIn(L, n) = {p}
          /\ RoomIn(L, e, p, SizeOf(t)) /\ BetweenIn(I, p, p + SizeOf(t)) = vs
          /\ fst = TRUE => p % AlignOf(t) = 0
    BY <1>10 DEF StandsIn
  <2>2. p \in Nat /\ SizeOf(t) \in Nat
    BY <1>10, <2>1 DEF Books, PlacesIn, Sized
  <2>3. PlacesIn(L2, n) = {p}
    BY <1>7, <1>10, <2>1
  <2>4. RoomIn(L2, e2, p, SizeOf(t)) /\ BetweenIn(I2, p, p + SizeOf(t)) = vs
    BY <1>7, <2>1, <2>2
  <2> QED BY <2>1, <2>3, <2>4 DEF StandsIn
<1> QED BY <1>7, <1>8, <1>9, <1>10 DEF Kept

-----------------------------------------------------------------------------
(* Files.                                                                   *)

LEMMA DefineGlobalDefines ==
  ASSUME NEW name, NEW ty, NEW values, DefineGlobal(name, ty, SizeOf(ty), values)
  PROVE  Defines(labels, image, loc, org, first, name, ty, values, labels', image', loc', org')
BY DEF DefineGlobal, Defines

\* The next string.
LEMMA StringWrites ==
  ASSUME DataInOrder, NEW L, NEW I, NEW e, NEW o, NEW fst, NEW m \in Nat, m < Len(strings),
         WrittenIn(L, I, e, o, fst, 1 .. m, {}),
         NEW L2, NEW I2, NEW e2, NEW o2,
         Defines(L, I, e, o, fst, NameOfString(m), strings[m + 1].ty, StringValues(strings[m + 1]), L2, I2, e2, o2)
  PROVE  WrittenIn(L2, I2, e2, o2, fst, 1 .. (m + 1), {})
<1> DEFINE str == strings[m + 1]
           name == NameOfString(m)
           vs == StringValues(str)
<1>1. /\ Len(strings) \in Nat /\ m + 1 \in 1 .. Len(strings)
      /\ \A k \in 1 .. Len(strings) : Sized(strings[k].ty)
      /\ \A k \in 1 .. Len(strings) : NameOfString(k - 1) = name => k = m + 1
      /\ \A g \in DOMAIN globals : globals[g].id # name
  <2>1. Len(strings) \in Nat /\ m + 1 \in 1 .. Len(strings)
    BY DEF DataInOrder
  <2>2. (m + 1) - 1 = m
    OBVIOUS
  <2> QED BY <2>1, <2>2 DEF DataInOrder
<1>2. Sized(str.ty)
  BY <1>1
<1>3. \A v \in vs : IsValue(v) /\ v.at < SizeOf(str.ty)
  <2> TAKE v \in vs
  <2>1. PICK i \in 1 .. SizeOf(str.ty) : v = Value(0 + i - 1, 1, "", Text[str.id][i])
    BY DEF StringValues, DefineString
  <2>2. 0 + i - 1 \in Nat /\ 0 + i - 1 < SizeOf(str.ty)
    BY <1>2 DEF Sized
  <2>3. v.at = 0 + i - 1 /\ v = Value(v.at, v.size, v.sym, v.n)
    BY <2>1 DEF Value
  <2> QED BY <2>2, <2>3 DEF IsValue
<1>4. /\ Books(L, I, e) /\ Follows(fst, o, e) /\ PlacesIn(L, name) = {}
  <2>1. (m + 1) - 1 = m /\ m + 1 \notin 1 .. m
    OBVIOUS
  <2> QED BY <1>1, <2>1 DEF WrittenIn
<1>5. Defines(L, I, e, o, fst, name, str.ty, vs, L2, I2, e2, o2)
  OBVIOUS
<1> HIDE DEF str, name, vs
<1>6. /\ Books(L2, I2, e2) /\ Follows(fst, o2, e2)
      /\ StandsIn(L2, I2, e2, fst, name, str.ty, vs)
      /\ Kept(L, I, e, fst, name, L2, I2, e2)
  BY ONLY <1>2, <1>3, <1>4, <1>5, Defining, Zenon
<1>7. ASSUME NEW k \in 1 .. Len(strings)
      PROVE  IF k \in 1 .. (m + 1)
             THEN StandsIn(L2, I2, e2, fst, NameOfString(k - 1), strings[k].ty, StringValues(strings[k]))
             ELSE PlacesIn(L2, NameOfString(k - 1)) = {}
  <2>1. CASE k = m + 1
    <3>1. k - 1 = m /\ k \in 1 .. (m + 1)
      BY <2>1
    <3> QED BY <1>6, <2>1, <3>1 DEF str, name, vs
  <2>2. CASE k # m + 1
    <3>1. NameOfString(k - 1) # name /\ Sized(strings[k].ty)
      BY <1>1, <2>2
    <3>2. k \in 1 .. (m + 1) <=> k \in 1 .. m
      BY <2>2
    <3>3. IF k \in 1 .. m
          THEN StandsIn(L, I, e, fst, NameOfString(k - 1), strings[k].ty, StringValues(strings[k]))
          ELSE PlacesIn(L, NameOfString(k - 1)) = {}
      BY DEF WrittenIn
    <3> QED BY <1>6, <3>1, <3>2, <3>3 DEF Kept
  <2> QED BY <2>1, <2>2
<1>8. ASSUME NEW g \in DOMAIN globals, globals[g].data # NoData PROVE PlacesIn(L2, globals[g].id) = {}
  BY <1>1, <1>6, <1>8 DEF WrittenIn, Kept
<1> QED BY <1>6, <1>7, <1>8 DEF WrittenIn

\* The next variable that has data.
LEMMA GlobalWrites ==
  ASSUME GlobalsApart, DataInOrder, NEW L, NEW I, NEW e, NEW o, NEW fst, NEW m \in Nat, m < Len(globals),
         globals[m + 1].data # NoData,
         WrittenIn(L, I, e, o, fst, 1 .. Len(strings), 1 .. m),
         NEW L2, NEW I2, NEW e2, NEW o2,
         Defines(L, I, e, o, fst, globals[m + 1].id, globals[m + 1].ty, Emission(globals[m + 1].data), L2, I2, e2, o2)
  PROVE  WrittenIn(L2, I2, e2, o2, fst, 1 .. Len(strings), 1 .. (m + 1))
<1> DEFINE var == globals[m + 1]
           name == var.id
           vs == Emission(var.data)
<1>1. /\ m + 1 \in DOMAIN globals
      /\ \A g \in DOMAIN globals : globals[g].id = name => g = m + 1
      /\ \A k \in 1 .. Len(strings) : NameOfString(k - 1) # name /\ Sized(strings[k].ty)
      /\ \A g \in DOMAIN globals : globals[g].data # NoData => Sized(globals[g].ty)
  <2>1. m + 1 \in DOMAIN globals
    BY DEF GlobalsApart
  <2> QED BY <2>1 DEF GlobalsApart, DataInOrder
<1>2. Sized(var.ty) /\ InOrder(var.data, SizeOf(var.ty)) /\ SizeOf(var.ty) \in Nat
  BY <1>1 DEF DataInOrder, Sized
<1>3. \A v \in vs : IsValue(v) /\ v.at < SizeOf(var.ty)
  BY <1>2, EmissionHolds
<1>4. /\ Books(L, I, e) /\ Follows(fst, o, e) /\ PlacesIn(L, name) = {}
  <2>1. m + 1 \notin 1 .. m
    OBVIOUS
  <2> QED BY <1>1, <2>1 DEF WrittenIn
<1>5. Defines(L, I, e, o, fst, name, var.ty, vs, L2, I2, e2, o2)
  OBVIOUS
<1> HIDE DEF var, name, vs
<1>6. /\ Books(L2, I2, e2) /\ Follows(fst, o2, e2)
      /\ StandsIn(L2, I2, e2, fst, name, var.ty, vs)
      /\ Kept(L, I, e, fst, name, L2, I2, e2)
  BY ONLY <1>2, <1>3, <1>4, <1>5, Defining, Zenon
<1>7. ASSUME NEW k \in 1 .. Len(strings)
      PROVE  StandsIn(L2, I2, e2, fst, NameOfString(k - 1), strings[k].ty, StringValues(strings[k]))
  BY <1>1, <1>6 DEF WrittenIn, Kept
<1>8. ASSUME NEW g \in DOMAIN globals, globals[g].data # NoData
      PROVE  IF g \in 1 .. (m + 1)
             THEN StandsIn(L2, I2, e2, fst, globals[g].id, globals[g].ty, Emission(globals[g].data))
             ELSE PlacesIn(L2, globals[g].id) = {}
  <2>1. CASE g = m + 1
    BY <1>6, <2>1 DEF var, name, vs
  <2>2. CASE g # m + 1
    <3>1. globals[g].id # name /\ Sized(globals[g].ty)
      BY <1>1, <1>8, <2>2
    <3>2. g \in 1 .. (m + 1) <=> g \in 1 .. m
      BY <2>2 DEF GlobalsApart
    <3>3. IF g \in 1 .. m
          THEN StandsIn(L, I, e, fst, globals[g].id, globals[g].ty, Emission(globals[g].data))
          ELSE PlacesIn(L, globals[g].id) = {}
      BY <1>8 DEF WrittenIn
    <3> QED BY <1>6, <3>1, <3>2, <3>3 DEF Kept
  <2> QED BY <2>1, <2>2
<1> QED BY <1>6, <1>7, <1>8 DEF WrittenIn

LEMMA InitIInv == Init => IInv
<1> SUFFICES ASSUME Init PROVE IInv
  OBVIOUS
<1>1. globals = << >> /\ phase = "check" /\ emitted = 0 /\ loc = 0 /\ labels = {} /\ image = {}
      /\ org = 0 /\ first = TRUE
  BY DEF Init
<1>2. GlobalsApart
  BY <1>1 DEF GlobalsApart
<1> QED BY <1>1, <1>2 DEF IInv

\* A declaration adds a variable, or changes one under its name.
LEMMA DeclaredApart ==
  ASSUME GlobalsApart, NEW d, NEW ty, Declare(d, ty)
  PROVE  GlobalsApart'
<1>1. CASE DeclareFunction(d, ty)
  <2>1. globals' = globals
    BY <1>1 DEF DeclareFunction
  <2> QED BY <2>1 DEF GlobalsApart
<1>2. CASE DeclareVariable(d, ty)
  <2>1. \E c : DeclareWith(d, c)
    BY <1>2 DEF DeclareVariable
  <2>2. PICK c : DeclareWith(d, c)
    BY <2>1
  <2> DEFINE same == LookupID(d.id)
             old == IF same = {} THEN Global(d.id, c.ty, d.sclass) ELSE globals[CHOOSE g \in same : TRUE]
             new == Renewed(d, old, c)
  <2>3. globals' = IF same = {} THEN Append(globals, new)
                   ELSE [g \in DOMAIN globals |-> IF g \in same THEN new ELSE globals[g]]
    BY <2>2 DEF DeclareWith, DeclareAs
  <2>4. same = {g \in DOMAIN globals : globals[g].id = d.id}
    BY DEF LookupID
  <2>5. new.id = d.id
    <3>1. old.id = d.id
      <4>1. CASE same = {}
        BY <4>1 DEF Global
      <4>2. CASE same # {}
        <5>1. (CHOOSE g \in same : TRUE) \in same
          BY <4>2
        <5> QED BY <2>4, <4>2, <5>1
      <4> QED BY <4>1, <4>2
    <3> HIDE DEF old
    <3> QED BY <3>1 DEF Renewed
  <2> HIDE DEF same, old, new
  <2>6. /\ Len(globals) \in Nat /\ DOMAIN globals = 1 .. Len(globals)
        /\ \A g, h \in DOMAIN globals : globals[g].id = globals[h].id => g = h
    BY DEF GlobalsApart
  <2> DEFINE S == {globals[g] : g \in DOMAIN globals} \cup {new}
  <2>9. globals \in Seq(S)
    BY DEF GlobalsApart
  <2> HIDE DEF S
  <2>10. ASSUME globals' \in Seq(S) PROVE globals' \in Seq({globals'[g] : g \in DOMAIN globals'})
    BY <2>10
  <2>7. CASE same = {}
    <3>1. globals' = Append(globals, new)
      BY <2>3, <2>7
    <3>2. globals' \in Seq(S)
      BY <2>9, <3>1 DEF S
    <3>3. /\ Len(globals') = Len(globals) + 1 /\ DOMAIN globals' = 1 .. Len(globals')
          /\ \A i \in 1 .. Len(globals) + 1 :
               globals'[i] = IF i = Len(globals) + 1 THEN new ELSE globals[i]
      BY <2>9, <3>1
    <3>4. ASSUME NEW g \in DOMAIN globals', NEW h \in DOMAIN globals', globals'[g].id = globals'[h].id PROVE g = h
      BY <2>4, <2>5, <2>6, <2>7, <3>3, <3>4
    <3> QED BY <2>10, <3>2, <3>4 DEF GlobalsApart
  <2>8. CASE same # {}
    <3>1. globals' = [g \in DOMAIN globals |-> IF g \in same THEN new ELSE globals[g]]
      BY <2>3, <2>8
    <3>2. DOMAIN globals' = 1 .. Len(globals) /\ Len(globals') = Len(globals)
      BY <2>6, <3>1
    <3>3. ASSUME NEW g \in DOMAIN globals PROVE globals'[g].id = globals[g].id
      BY <2>4, <2>5, <3>1
    <3>4. globals' \in Seq(S)
      BY <2>6, <2>9, <3>1 DEF S
    <3> QED BY <2>6, <2>10, <3>2, <3>3, <3>4 DEF GlobalsApart
  <2> QED BY <2>7, <2>8
<1> QED BY <1>1, <1>2 DEF Declare

\* A step that changes neither the variables nor the strings.
LEMMA SameFile ==
  ASSUME UNCHANGED << globals, strings >>
  PROVE  /\ DataInOrder' <=> DataInOrder
         /\ GlobalsApart => GlobalsApart'
BY DEF DataInOrder, GlobalsApart

LEMMA WrittenNext ==
  ASSUME UNCHANGED << globals, strings, first >>,
         WrittenIn(labels', image', loc', org', first, DoneStrings', DoneGlobals')
  PROVE  Written'
BY DEF Written, WrittenIn

LEMMA IInvStep == IInv /\ [Next]_vars => IInv'
<1> SUFFICES ASSUME IInv, [Next]_vars PROVE IInv'
  OBVIOUS
<1> USE DEF IInv
<1>1. CASE CheckGlobalDeclaration
  <2>1. PICK d, ty : Declare(d, ty)
    BY <1>1 DEF CheckGlobalDeclaration
  <2>2. GlobalsApart'
    BY <2>1, DeclaredApart
  <2> QED BY <1>1, <2>2 DEF CheckGlobalDeclaration
<1>2. CASE EndOfChecks
  <2>1. GlobalsApart' /\ (DataInOrder' <=> DataInOrder)
    BY <1>2, SameFile DEF EndOfChecks
  <2>2. ASSUME ok PROVE Written'
    <3>1. /\ phase' = "strings" /\ emitted' = 0 /\ labels' = {} /\ image' = {} /\ loc' = 0
          /\ UNCHANGED << globals, strings, first, org >> /\ (first = TRUE => org = 0)
      BY <1>2, <2>2 DEF EndOfChecks
    <3>2. DoneStrings' = {} /\ DoneGlobals' = {}
      BY <3>1 DEF DoneStrings, DoneGlobals
    <3>3. \A n : PlacesIn({}, n) = {}
      BY DEF PlacesIn
    <3>4. WrittenIn(labels', image', loc', org', first, DoneStrings', DoneGlobals')
      BY <3>1, <3>2, <3>3 DEF WrittenIn, Books, Follows
    <3> QED BY <3>1, <3>4, WrittenNext
  <2> QED BY <1>2, <2>1, <2>2 DEF EndOfChecks
<1>3. CASE EmitString
  <2>1. GlobalsApart' /\ (DataInOrder' <=> DataInOrder)
    BY <1>3, SameFile DEF EmitString
  <2>2. ASSUME DataInOrder PROVE Written'
    <3>1. /\ phase = "strings" /\ phase' = "strings" /\ emitted' = emitted + 1
          /\ UNCHANGED << globals, strings, first >> /\ ok
      BY <1>3 DEF EmitString
    <3>2. DoneStrings = 1 .. emitted /\ DoneStrings' = 1 .. (emitted + 1) /\ DoneGlobals = {} /\ DoneGlobals' = {}
      BY <3>1 DEF DoneStrings, DoneGlobals
    <3>3. WrittenIn(labels, image, loc, org, first, 1 .. emitted, {})
      BY <2>2, <3>1, <3>2 DEF Written
    <3>4. Defines(labels, image, loc, org, first, NameOfString(emitted), strings[emitted + 1].ty,
                  StringValues(strings[emitted + 1]), labels', image', loc', org')
      BY <1>3, DefineGlobalDefines DEF EmitString, StringValues
    <3>5. WrittenIn(labels', image', loc', org', first, 1 .. (emitted + 1), {})
      BY <1>3, <2>2, <3>3, <3>4, StringWrites DEF EmitString
    <3> QED BY <3>1, <3>2, <3>5, WrittenNext
  <2> QED BY <1>3, <2>1, <2>2 DEF EmitString
<1>4. CASE EndOfStrings
  <2>1. GlobalsApart' /\ (DataInOrder' <=> DataInOrder)
    BY <1>4, SameFile DEF EndOfStrings
  <2>2. ASSUME DataInOrder PROVE Written'
    <3>1. /\ phase = "strings" /\ phase' = "globals" /\ emitted = Len(strings) /\ emitted' = 0
          /\ UNCHANGED << globals, strings, first, labels, image, loc, org >> /\ ok
      BY <1>4 DEF EndOfStrings
    <3>2. DoneStrings' = DoneStrings /\ DoneGlobals' = DoneGlobals
      BY <3>1 DEF DoneStrings, DoneGlobals
    <3>3. WrittenIn(labels, image, loc, org, first, DoneStrings, DoneGlobals)
      BY <2>2, <3>1 DEF Written
    <3> QED BY <3>1, <3>2, <3>3, WrittenNext
  <2> QED BY <1>4, <2>1, <2>2 DEF EndOfStrings
<1>5. CASE EmitGlobal
  <2>1. GlobalsApart' /\ (DataInOrder' <=> DataInOrder)
    BY <1>5, SameFile DEF EmitGlobal
  <2>2. ASSUME DataInOrder PROVE Written'
    <3> DEFINE g == globals[emitted + 1]
    <3>1. /\ phase = "globals" /\ phase' = "globals" /\ emitted' = emitted + 1 /\ emitted < Len(globals)
          /\ UNCHANGED << globals, strings, first >> /\ ok
      BY <1>5 DEF EmitGlobal
    <3>2. /\ DoneStrings = 1 .. Len(strings) /\ DoneStrings' = 1 .. Len(strings)
          /\ DoneGlobals = 1 .. emitted /\ DoneGlobals' = 1 .. (emitted + 1)
      BY <3>1 DEF DoneStrings, DoneGlobals
    <3>3. WrittenIn(labels, image, loc, org, first, 1 .. Len(strings), 1 .. emitted)
      BY <2>2, <3>1, <3>2 DEF Written
    <3>4. CASE g.data = NoData
      <4>1. UNCHANGED << labels, image, loc, org >>
        BY <1>5, <3>4 DEF EmitGlobal, SkipGlobal, DefineCommData, EmitDataGlobal
      <4>2. WrittenIn(labels', image', loc', org', first, 1 .. Len(strings), 1 .. (emitted + 1))
        <5>1. ASSUME NEW h \in DOMAIN globals, globals[h].data # NoData
              PROVE  h \in 1 .. (emitted + 1) <=> h \in 1 .. emitted
          BY <3>4, <5>1 DEF GlobalsApart
        <5> QED BY <3>3, <4>1, <5>1 DEF WrittenIn
      <4> QED BY <3>1, <3>2, <4>2, WrittenNext
    <3>5. CASE g.data # NoData
      <4>1. EmitDataGlobal(g)
        BY <1>5, <3>5 DEF EmitGlobal, SkipGlobal, DefineCommData
      <4>2. Sized(g.ty) /\ InOrder(g.data, SizeOf(g.ty)) /\ SizeOf(g.ty) \in Nat
        <5>1. emitted + 1 \in DOMAIN globals
          BY <3>1 DEF GlobalsApart
        <5> QED BY <2>2, <3>5, <5>1 DEF DataInOrder, Sized
      <4>3. /\ EmitData(g.data).values = Emission(g.data) /\ EmitData(g.data).at = EmitData(g.data).size
            /\ EmitData(g.data).size \in Nat /\ EmitData(g.data).size <= SizeOf(g.ty)
        BY <4>2, EmissionHolds
      <4>4. DefineGlobal(g.id, g.ty, SizeOf(g.ty), Emission(g.data))
        <5> DEFINE written == EmitData(g.data)
                   rest == IF written.size < SizeOf(g.ty) THEN SizeOf(g.ty) - written.size ELSE 0
        <5>1. DefineGlobal(g.id, g.ty, written.at + rest, written.values)
          BY <4>1 DEF EmitDataGlobal
        <5>2. written.at + rest = SizeOf(g.ty) /\ written.values = Emission(g.data)
          BY <4>2, <4>3
        <5> HIDE DEF written, rest, g
        <5> QED BY <5>1, <5>2
      <4>5. Defines(labels, image, loc, org, first, g.id, g.ty, Emission(g.data), labels', image', loc', org')
        BY <4>4, DefineGlobalDefines
      <4>6. WrittenIn(labels', image', loc', org', first, 1 .. Len(strings), 1 .. (emitted + 1))
        BY <2>2, <3>1, <3>3, <3>5, <4>5, GlobalWrites
      <4> QED BY <3>1, <3>2, <4>6, WrittenNext
    <3> QED BY <3>4, <3>5
  <2> QED BY <1>5, <2>1, <2>2 DEF EmitGlobal
<1>6. CASE EndOfGlobals
  <2>1. GlobalsApart' /\ (DataInOrder' <=> DataInOrder)
    BY <1>6, SameFile DEF EndOfGlobals
  <2>2. ASSUME DataInOrder PROVE Written'
    <3>1. /\ phase = "globals" /\ phase' = "end" /\ emitted = Len(globals)
          /\ UNCHANGED << globals, strings, first, labels, image, loc, org >> /\ ok
      BY <1>6 DEF EndOfGlobals
    <3>2. DoneStrings' = DoneStrings /\ DoneGlobals' = DoneGlobals
      BY <3>1 DEF DoneStrings, DoneGlobals, GlobalsApart
    <3>3. WrittenIn(labels, image, loc, org, first, DoneStrings, DoneGlobals)
      BY <2>2, <3>1 DEF Written
    <3> QED BY <3>1, <3>2, <3>3, WrittenNext
  <2> QED BY <1>6, <2>1, <2>2 DEF EndOfGlobals
<1>7. CASE NextFile
  <2>1. globals' = << >>
    BY <1>7 DEF NextFile, NewFile
  <2>2. GlobalsApart'
    BY <2>1 DEF GlobalsApart
  <2> QED BY <1>7, <2>2 DEF NextFile, NewFile
<1>8. CASE UNCHANGED vars
  <2>1. GlobalsApart' /\ (DataInOrder' <=> DataInOrder)
    BY <1>8, SameFile DEF vars
  <2>2. Written => Written'
    BY <1>8 DEF vars, Written, WrittenIn, DoneStrings, DoneGlobals
  <2> QED BY <1>8, <2>1, <2>2 DEF vars
<1> QED BY <1>1, <1>2, <1>3, <1>4, <1>5, <1>6, <1>7, <1>8 DEF Next

\* At the end all of the strings and of the variables are written.
LEMMA StandsIs ==
  ASSUME first \in BOOLEAN, NEW name, NEW ty, NEW values, StandsIn(labels, image, loc, first, name, ty, values)
  PROVE  Stands(name, ty, values)
BY DEF StandsIn, PlacesIn, BetweenIn, RoomIn, Stands, Places, StandsAt, Between, Room

\* What is written is what the checks found, where no address lies before its symbol.
LEMMA EmissionIs == ASSUME NEW data, NoneBefore(data) PROVE Emission(data) = Contents(data)
<1>1. ASSUME NEW i \in 1 .. Len(data)
      PROVE  Emitted(data[i].offset, data[i].expr) = Found(data[i].offset, data[i].expr)
  <2> DEFINE e == data[i].expr
  <2>1. CASE e.op = "+"
    <3>1. ~(e.kids[2].val < 0)
      BY <2>1 DEF NoneBefore
    <3> QED BY <2>1, <3>1 DEF Emitted, Found, DefineAddress
  <2>2. CASE e.op # "+"
    BY <2>2 DEF Found
  <2> QED BY <2>1, <2>2
<1> QED BY <1>1 DEF Emission, Contents

LEMMA IInvImpliesPlacement == IInv => PlacementRight
<1> SUFFICES ASSUME IInv, phase = "end", ok, DataInOrder
             PROVE  /\ \A g \in DOMAIN globals : globals[g].data # NoData /\ NoneBefore(globals[g].data) =>
                         Stands(globals[g].id, globals[g].ty, Contents(globals[g].data))
                    /\ \A k \in 1 .. Len(strings) :
                         Stands(NameOfString(k - 1), strings[k].ty,
                                DefineString(0, strings[k].id, SizeOf(strings[k].ty)))
  BY DEF PlacementRight
<1>1. first \in BOOLEAN /\ Written
  BY DEF IInv
<1>2. DoneStrings = 1 .. Len(strings) /\ DoneGlobals = DOMAIN globals
  BY DEF DoneStrings, DoneGlobals
<1>3. ASSUME NEW g \in DOMAIN globals, globals[g].data # NoData, NoneBefore(globals[g].data)
      PROVE  Stands(globals[g].id, globals[g].ty, Contents(globals[g].data))
  <2>1. StandsIn(labels, image, loc, first, globals[g].id, globals[g].ty, Emission(globals[g].data))
    BY <1>1, <1>2, <1>3 DEF Written, WrittenIn
  <2>2. Emission(globals[g].data) = Contents(globals[g].data)
    BY <1>3, EmissionIs
  <2> QED BY <1>1, <2>1, <2>2, StandsIs
<1>4. ASSUME NEW k \in 1 .. Len(strings)
      PROVE  Stands(NameOfString(k - 1), strings[k].ty, StringValues(strings[k]))
  <2>1. StandsIn(labels, image, loc, first, NameOfString(k - 1), strings[k].ty, StringValues(strings[k]))
    BY <1>1, <1>2 DEF Written, WrittenIn
  <2> QED BY <1>1, <2>1, StandsIs
<1> QED BY <1>3, <1>4 DEF StringValues

(* When a file is written, every variable that has data and every string   *)
(* stands under its name and nowhere else, with the values the checks      *)
(* found and zeros between them, and nothing else in its room; in the      *)
(* first file on the alignment of its type, because there ORG has followed *)
(* the location counter (emit.c, x86linux.c:87).  Whatever the files are,  *)
(* and whatever the checks make of them, if they leave the data in order   *)
(* (DataInOrder); for the variables without an address before its symbol   *)
(* (NoneBefore), which emit.c:42 writes wrong.                             *)
THEOREM DataPlaced == Spec => []PlacementRight
<1>1. Init => IInv
  BY InitIInv
<1>2. IInv /\ [Next]_vars => IInv'
  BY IInvStep
<1>3. IInv => PlacementRight
  BY IInvImpliesPlacement
<1> QED BY <1>1, <1>2, <1>3, PTL DEF Spec
=============================================================================
