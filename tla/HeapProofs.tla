----------------------------- MODULE HeapProofs -----------------------------
(***************************************************************************)
(* For any heaps, blocks, sizes and alignment: the pointer surgery of      *)
(* HeapAllocate and FreeHeap hands out memory as Arena allows.             *)
(*                                                                         *)
(* The argument needs no induction along the lists.  Every pointer stays   *)
(* among the blocks of one owner, no two pointers have the same target,    *)
(* and the blocks of an owner are in every set that holds the first of its *)
(* list and is closed under next.                                          *)
(***************************************************************************)
EXTENDS Heap, TLAPS

-----------------------------------------------------------------------------
(* Sizes                                                                    *)

LEMMA DivMonotone ==
    ASSUME NEW a \in Nat, NEW b \in Nat, a <= b, NEW d \in Nat \ {0}
    PROVE  a \div d \in Nat /\ a \div d <= b \div d
<1> QED
  OBVIOUS

LEMMA TimesMonotone ==
    ASSUME NEW a \in Nat, NEW b \in Nat, a <= b, NEW d \in Nat
    PROVE  a * d \in Nat /\ a * d <= b * d
<1> QED
  OBVIOUS

LEMMA SumOfMultiples ==
    ASSUME NEW a \in Nat, NEW b \in Nat, NEW d \in Nat \ {0}, a % d = 0, b % d = 0
    PROVE  (a + b) % d = 0
<1> DEFINE p == a \div d
           q == b \div d
<1>1. p \in Nat /\ q \in Nat /\ a = p * d /\ b = q * d
  OBVIOUS
<1> HIDE DEF p, q
<1>2. a + b = (p + q) * d
  BY <1>1
<1>3. ((p + q) * d) % d = 0
  BY <1>1
<1> QED
  BY <1>2, <1>3

\* ALIGN gives a multiple of the alignment that is at most that of the largest size.
LEMMA AlignFacts ==
    ASSUME NEW s \in 0 .. MaxSize
    PROVE  /\ ALIGN(s) \in Nat /\ ALIGN(s) <= ALIGN(MaxSize)
           /\ ALIGN(s) % Alignment = 0
<1>1. Alignment \in Nat \ {0} /\ MaxSize \in Nat
  BY HeapAssumption
<1> DEFINE a == s + Alignment - 1
           b == MaxSize + Alignment - 1
<1>2. a \in Nat /\ b \in Nat /\ a <= b
  BY <1>1
<1> HIDE DEF a, b
<1>3. a \div Alignment \in Nat /\ b \div Alignment \in Nat /\ a \div Alignment <= b \div Alignment
  BY <1>1, <1>2, DivMonotone
<1>4. /\ (a \div Alignment) * Alignment \in Nat
      /\ (a \div Alignment) * Alignment <= (b \div Alignment) * Alignment
  BY <1>1, <1>3, TimesMonotone
<1>5. ((a \div Alignment) * Alignment) % Alignment = 0
  BY <1>1, <1>3
<1> QED
  BY <1>4, <1>5 DEF ALIGN, a, b

-----------------------------------------------------------------------------
(* The inductive invariant                                                  *)

\* A pointer from a list of owner o leads to a block of o, or nowhere
LeadsTo(o, p) == p # NULL => owner[p] = o

PointersStay ==
    /\ \A h \in Heaps : LeadsTo(h, next[h])
    /\ \A b \in Blocks : owner[b] # NULL => LeadsTo(owner[b], next[b])
    /\ LeadsTo(FREE, FreeBlocks)

\* No block is the target of two pointers
OnePointer ==
    /\ \A n, m \in Nodes : n # m /\ next[n] # NULL => next[n] # next[m]
    /\ FreeBlocks # NULL => \A n \in Nodes : next[n] # FreeBlocks

Unmapped == \A b \in Blocks : owner[b] = NULL => next[b] = NULL

\* Whatever is closed under next and holds p has all blocks of owner o
Of(o) == {b \in Blocks : owner[b] = o}
Covers(p, o) ==
    \A S \in SUBSET Blocks : Closed(S) /\ p \in S \cup {NULL} => Of(o) \subseteq S

AllReached ==
    /\ \A h \in Heaps : Covers(next[h], h)
    /\ Covers(FreeBlocks, FREE)

Ends ==
    \A h \in Heaps :
        /\ last[h] = h \/ (last[h] \in Blocks /\ owner[last[h]] = h)
        /\ next[last[h]] = NULL

\* A node never gives out more than it has
Filled ==
    /\ \A h \in Heaps : avail[h] = 0 /\ end[h] = 0
    /\ \A b \in Blocks : owner[b] \in Heaps => avail[b] <= end[b]
    /\ \A n \in Nodes : avail[n] % Alignment = 0
    /\ request # NULL => request.size % Alignment = 0

\* Two regions handed out do not overlap
Disjoint ==
    \A g, h \in Heaps : \A i \in 1 .. Len(live[g]), j \in 1 .. Len(live[h]) :
        g # h \/ i # j => Abstract!Apart(live[g][i], live[h][j])

IInv ==
    /\ TypeOK
    /\ PointersStay /\ OnePointer /\ Unmapped /\ Ends
    /\ AllReached
    /\ Filled
    /\ LiveIsOwned
    /\ Aligned
    /\ Disjoint

LEMMA Constants ==
    /\ Heaps \subseteq Nodes /\ Blocks \subseteq Nodes
    /\ \A h \in Heaps : h \notin Blocks /\ h # NULL /\ h # FREE
    /\ \A b \in Blocks : b # NULL /\ b # FREE
    /\ FREE # NULL
<1> QED
  BY HeapAssumption DEF Nodes

LEMMA InitIInv == Init => IInv
<1> SUFFICES ASSUME Init PROVE IInv
  OBVIOUS
<1>1. MaxSize \in 0 .. MaxSize /\ ALIGN(MaxSize) + MblockSize \in Nat /\ Alignment \in Nat \ {0}
  BY HeapAssumption, AlignFacts
<1>2. TypeOK
  <2>1. live \in [Heaps -> Seq(Region)]
    BY DEF Init
  <2>2. last \in [Heaps -> Nodes] /\ next \in [Nodes -> Blocks \cup {NULL}]
    BY Constants DEF Init
  <2>3. avail \in [Nodes -> Nat] /\ end \in [Nodes -> 0 .. ALIGN(MaxSize) + MblockSize]
    BY <1>1 DEF Init
  <2> QED
    BY <2>1, <2>2, <2>3 DEF Init, TypeOK
<1>3. PointersStay /\ OnePointer /\ Unmapped /\ Ends
  BY Constants DEF Init, PointersStay, LeadsTo, OnePointer, Unmapped, Ends
<1>4. Filled
  BY <1>1, Constants DEF Init, Filled
<1>5. LiveIsOwned /\ Aligned /\ Disjoint
  BY DEF Init, LiveIsOwned, Aligned, Disjoint
<1>6. AllReached
  BY Constants DEF Init, AllReached, Covers, Of
<1> QED
  BY <1>2, <1>3, <1>4, <1>5, <1>6 DEF IInv

LEMMA SameReached ==
    ASSUME AllReached, UNCHANGED <<next, FreeBlocks, owner>>
    PROVE  AllReached'
<1> QED
  BY DEF AllReached, Covers, Closed, Of

LEMMA RequestIInv ==
    ASSUME IInv, NEW h \in Heaps, NEW size \in Sizes, HeapAllocate(h, size)
    PROVE  IInv'
<1>1. /\ request' = [heap |-> h, size |-> ALIGN(size)]
      /\ UNCHANGED <<next, last, avail, end, FreeBlocks, fatal, live, owner>>
  BY DEF HeapAllocate
<1>2. ALIGN(size) \in 0 .. ALIGN(MaxSize) /\ ALIGN(size) % Alignment = 0
  BY HeapAssumption, AlignFacts
<1>3. TypeOK'
  BY <1>1, <1>2 DEF IInv, TypeOK
<1>4. PointersStay' /\ OnePointer' /\ Unmapped' /\ Ends'
  BY <1>1 DEF IInv, PointersStay, LeadsTo, OnePointer, Unmapped, Ends
<1>5. Filled'
  BY <1>1, <1>2 DEF IInv, Filled
<1>6. LiveIsOwned' /\ Aligned' /\ Disjoint'
  BY <1>1 DEF IInv, LiveIsOwned, Aligned, Disjoint, Abstract!Apart
<1>7. AllReached'
  BY <1>1, SameReached DEF IInv
<1> QED
  BY <1>3, <1>4, <1>5, <1>6, <1>7 DEF IInv

\* A block no pointer leads to, and no heap has, joins the heap of the request.
LEMMA MakeLastIInv ==
    ASSUME IInv, request # NULL, NEW b \in Blocks, owner[b] \notin Heaps, MakeLast(b),
           \A n \in Nodes : next[n] # b,
           end' \in [Nodes -> 0 .. ALIGN(MaxSize) + MblockSize],
           \A n \in Nodes : n # b => end'[n] = end[n],
           FreeBlocks' \in Blocks \cup {NULL},
           FreeBlocks' # NULL => FreeBlocks' # b /\ owner[FreeBlocks'] = FREE,
           FreeBlocks' # NULL => \A n \in Nodes : n # b => next[n] # FreeBlocks',
           \A S \in SUBSET Blocks :
               Closed(S) /\ FreeBlocks' \in S \cup {NULL} => Of(FREE) \ {b} \subseteq S
    PROVE  IInv'
<1> DEFINE g == request.heap
<1>1. g \in Heaps /\ last \in [Heaps -> Nodes] /\ last[g] \in Nodes /\ last[g] # b /\ b \in Nodes
      /\ next \in [Nodes -> Blocks \cup {NULL}] /\ avail \in [Nodes -> Nat]
      /\ owner \in [Blocks -> Heaps \cup {FREE, NULL}]
  <2>1. g \in Heaps /\ last \in [Heaps -> Nodes]
    BY DEF IInv, TypeOK
  <2>2. last[g] # b
    BY <2>1, Constants DEF IInv, Ends
  <2> QED
    BY <2>1, <2>2, Constants DEF IInv, TypeOK
<1>2. /\ next' = [next EXCEPT ![last[g]] = b, ![b] = NULL]
      /\ last' = [last EXCEPT ![g] = b]
      /\ avail' = [avail EXCEPT ![b] = 0]
      /\ owner' = [owner EXCEPT ![b] = g]
      /\ UNCHANGED <<request, fatal, live>>
  BY DEF MakeLast, Link
<1> HIDE DEF g
<1>3. /\ next' \in [Nodes -> Blocks \cup {NULL}]
      /\ \A n \in Nodes : next'[n] = IF n = b THEN NULL ELSE IF n = last[g] THEN b ELSE next[n]
      /\ \A h \in Heaps : last'[h] = IF h = g THEN b ELSE last[h]
      /\ \A n \in Nodes : avail'[n] = IF n = b THEN 0 ELSE avail[n]
      /\ \A c \in Blocks : owner'[c] = IF c = b THEN g ELSE owner[c]
  BY <1>1, <1>2
<1>4. TypeOK'
  <2>1. last' \in [Heaps -> Nodes] /\ avail' \in [Nodes -> Nat]
        /\ owner' \in [Blocks -> Heaps \cup {FREE, NULL}]
    BY <1>1, <1>2
  <2> QED
    BY <1>2, <1>3, <2>1 DEF IInv, TypeOK
<1>5. PointersStay'
  <2>1. ASSUME NEW h \in Heaps PROVE LeadsTo(h, next[h])'
    <3>1. CASE h = last[g]
      <4>1. h = g /\ next'[h] = b /\ owner'[b] = g
        BY <1>1, <1>3, <3>1, Constants DEF IInv, Ends
      <4> QED
        BY <4>1 DEF LeadsTo
    <3>2. CASE h # last[g]
      <4>1. next'[h] = next[h] /\ next[h] # b
        BY <1>3, <3>2, Constants
      <4>2. next[h] # NULL => next[h] \in Blocks /\ owner[next[h]] = h
        BY <1>1, Constants DEF IInv, PointersStay, LeadsTo
      <4> QED
        BY <1>3, <4>1, <4>2 DEF LeadsTo
    <3> QED
      BY <3>1, <3>2
  <2>2. ASSUME NEW c \in Blocks, owner'[c] # NULL PROVE LeadsTo(owner[c], next[c])'
    <3>1. CASE c = b
      BY <1>1, <1>3, <3>1 DEF LeadsTo
    <3>2. CASE c # b /\ c = last[g]
      <4>1. next'[c] = b /\ owner'[c] = g /\ owner'[b] = g
        BY <1>1, <1>3, <3>2, Constants DEF IInv, Ends
      <4> QED
        BY <4>1 DEF LeadsTo
    <3>3. CASE c # b /\ c # last[g]
      <4>1. next'[c] = next[c] /\ owner'[c] = owner[c] /\ owner[c] # NULL /\ next[c] # b
        BY <1>3, <2>2, <3>3, Constants
      <4>2. next[c] # NULL => owner[next[c]] = owner[c] /\ next[c] \in Blocks
        BY <1>1, <4>1, Constants DEF IInv, PointersStay, LeadsTo
      <4> QED
        BY <1>3, <4>1, <4>2 DEF LeadsTo
    <3> QED
      BY <3>1, <3>2, <3>3
  <2>3. LeadsTo(FREE, FreeBlocks)'
    BY <1>3 DEF LeadsTo
  <2> QED
    BY <2>1, <2>2, <2>3 DEF PointersStay, LeadsTo
<1>6. OnePointer'
  <2>1. \A n, m \in Nodes : n # m /\ next'[n] # NULL => next'[n] # next'[m]
    BY <1>1, <1>3, Constants DEF IInv, OnePointer
  <2>2. FreeBlocks' # NULL => \A n \in Nodes : next'[n] # FreeBlocks'
    BY <1>1, <1>3
  <2> QED
    BY <2>1, <2>2 DEF OnePointer
<1>7. Unmapped'
  BY <1>1, <1>3, Constants DEF IInv, Unmapped, Ends
<1>8. Ends'
  <2> SUFFICES ASSUME NEW h \in Heaps
               PROVE  /\ last'[h] = h \/ (last'[h] \in Blocks /\ owner'[last'[h]] = h)
                      /\ next'[last'[h]] = NULL
    BY DEF Ends
  <2>1. CASE h = g
    BY <1>1, <1>3, <2>1
  <2>2. CASE h # g
    <3>1. last'[h] = last[h] /\ last[h] \in Nodes /\ last[h] # b /\ last[h] # last[g]
      BY <1>1, <1>3, <2>2, Constants DEF IInv, Ends
    <3> QED
      BY <1>1, <1>3, <3>1, Constants DEF IInv, Ends
  <2> QED
    BY <2>1, <2>2
<1>9. Filled'
  <2>1. \A h \in Heaps : avail'[h] = 0 /\ end'[h] = 0
    BY <1>3, Constants DEF IInv, Filled
  <2>2. \A c \in Blocks : owner'[c] \in Heaps => avail'[c] <= end'[c]
    BY <1>1, <1>3, Constants DEF IInv, Filled
  <2>3. \A n \in Nodes : avail'[n] % Alignment = 0
    BY <1>3, HeapAssumption DEF IInv, Filled
  <2> QED
    BY <1>2, <2>1, <2>2, <2>3 DEF IInv, Filled
<1>10. LiveIsOwned'
  <2> SUFFICES ASSUME NEW h \in Heaps, NEW i \in 1 .. Len(live[h])
               PROVE  LET r == live[h][i]
                      IN  /\ r.block = h \/ (r.block \in Blocks /\ owner'[r.block] = h)
                          /\ r.at + r.size <= avail'[r.block]
                          /\ avail'[r.block] <= end'[r.block]
    BY <1>2 DEF LiveIsOwned
  <2> DEFINE r == live[h][i]
  <2>1. /\ r.block = h \/ (r.block \in Blocks /\ owner[r.block] = h)
        /\ r.at + r.size <= avail[r.block]
        /\ avail[r.block] <= end[r.block]
    BY DEF IInv, LiveIsOwned
  <2>2. r.block # b /\ r.block \in Nodes
    BY <2>1, Constants
  <2> HIDE DEF r
  <2>3. /\ r.block = h \/ (r.block \in Blocks /\ owner'[r.block] = h)
        /\ r.at + r.size <= avail'[r.block]
        /\ avail'[r.block] <= end'[r.block]
    BY <1>3, <2>1, <2>2
  <2> QED
    BY <2>3 DEF r
<1>11. Aligned' /\ Disjoint'
  BY <1>2 DEF IInv, Aligned, Disjoint, Abstract!Apart
<1>12. AllReached'
  <2>1. ASSUME NEW h \in Heaps, h # g, NEW S \in SUBSET Blocks, Closed(S)', next'[h] \in S \cup {NULL}
        PROVE  Of(h)' \subseteq S
    <3> DEFINE T == S \cap Of(h)
    <3>1. next'[h] = next[h] /\ (next[h] # NULL => owner[next[h]] = h /\ next[h] \in Blocks)
      BY <1>1, <1>3, <2>1, Constants DEF IInv, PointersStay, LeadsTo, Ends
    <3>2. Closed(T)
      <4> SUFFICES ASSUME NEW c \in S, owner[c] = h PROVE next[c] \in T \cup {NULL}
        BY DEF Closed, Of
      <4>1. c # b /\ c # last[g] /\ c \in Blocks
        BY <1>1, <2>1, Constants DEF IInv, Ends
      <4>2. next'[c] = next[c] /\ next[c] \in Blocks \cup {NULL}
        BY <1>1, <1>3, <4>1, Constants
      <4>3. next[c] # NULL => owner[next[c]] = h
        BY <4>1, Constants DEF IInv, PointersStay, LeadsTo
      <4> QED
        BY <2>1, <4>2, <4>3 DEF Closed, Of
    <3>3. Of(h) \subseteq T
      BY <2>1, <3>1, <3>2 DEF IInv, AllReached, Covers, Of
    <3> QED
      BY <1>3, <2>1, <3>3 DEF Of
  <2>2. ASSUME NEW h \in Heaps, h = g, NEW S \in SUBSET Blocks, Closed(S)', next'[g] \in S \cup {NULL}
        PROVE  Of(h)' \subseteq S
    <3>1. CASE last[g] = g
      <4>1. next[g] = NULL /\ next'[g] = b
        BY <1>1, <1>3, <3>1, Constants DEF IInv, Ends
      <4>2. Of(g) \subseteq {}
        <5>1. Closed({}) /\ {} \in SUBSET Blocks
          BY DEF Closed
        <5> QED
          BY <1>1, <4>1, <5>1 DEF IInv, AllReached, Covers
      <4> QED
        BY <1>3, <2>2, <4>1, <4>2, Constants DEF Of
    <3>2. CASE last[g] # g
      <4> DEFINE T == S \ {b}
      <4>1. last[g] \in Blocks /\ owner[last[g]] = g /\ next[last[g]] = NULL /\ g \in Nodes /\ g # b
        BY <1>1, <3>2, Constants DEF IInv, Ends
      <4>2. next'[g] = next[g] /\ next[g] # b
        BY <1>3, <3>2, <4>1
      <4>3. Closed(T)
        <5> SUFFICES ASSUME NEW c \in S, c # b PROVE next[c] \in T \cup {NULL}
          BY DEF Closed
        <5>1. CASE c = last[g]
          BY <4>1, <5>1
        <5>2. CASE c # last[g]
          <6>1. c \in Nodes /\ next'[c] = next[c] /\ next[c] # b
            BY <1>3, <5>2, Constants
          <6> QED
            BY <2>2, <6>1 DEF Closed
        <5> QED
          BY <5>1, <5>2
      <4>4. Of(g) \subseteq T
        BY <1>1, <2>2, <4>2, <4>3 DEF IInv, AllReached, Covers
      <4>5. last[g] \in S /\ next'[last[g]] = b
        BY <1>1, <1>3, <4>1, <4>4 DEF Of
      <4>6. b \in S
        BY <2>2, <4>5, Constants DEF Closed
      <4> QED
        BY <1>3, <2>2, <4>4, <4>6 DEF Of
    <3> QED
      BY <3>1, <3>2
  <2>3. ASSUME NEW S \in SUBSET Blocks, Closed(S)', FreeBlocks' \in S \cup {NULL}
        PROVE  Of(FREE)' \subseteq S
    <3> DEFINE T == S \cap (Of(FREE) \ {b})
    <3>1. Closed(T)
      <4> SUFFICES ASSUME NEW c \in S, owner[c] = FREE, c # b PROVE next[c] \in T \cup {NULL}
        BY DEF Closed, Of
      <4>1. c # last[g] /\ c \in Blocks /\ c \in Nodes
        BY <1>1, <2>3, Constants DEF IInv, Ends
      <4>2. next'[c] = next[c] /\ next[c] \in Blocks \cup {NULL} /\ next[c] # b
        BY <1>1, <1>3, <4>1
      <4>3. next[c] # NULL => owner[next[c]] = FREE
        BY <4>1, Constants DEF IInv, PointersStay, LeadsTo
      <4> QED
        BY <2>3, <4>2, <4>3 DEF Closed, Of
    <3>2. FreeBlocks' \in T \cup {NULL} /\ T \in SUBSET Blocks
      BY <2>3 DEF Of
    <3>3. Of(FREE) \ {b} \subseteq T
      BY <3>1, <3>2
    <3> QED
      BY <1>1, <1>3, <3>3, Constants DEF Of
  <2> QED
    BY <2>1, <2>2, <2>3 DEF AllReached, Covers
<1> QED
  BY <1>4, <1>5, <1>6, <1>7, <1>8, <1>9, <1>10, <1>11, <1>12 DEF IInv

LEMMA TakeFreeIInv == ASSUME IInv, TakeFree PROVE IInv'
<1> DEFINE b == FreeBlocks
<1>1. /\ request # NULL /\ b # NULL /\ FreeBlocks' = next[b] /\ MakeLast(b) /\ end' = end
  BY DEF TakeFree, TooSmall, Unlink
<1>2. b \in Blocks /\ owner[b] = FREE
  BY <1>1 DEF IInv, TypeOK, PointersStay, LeadsTo
<1>3. \A n \in Nodes : next[n] # b
  BY <1>1 DEF IInv, OnePointer
<1>4. FreeBlocks' \in Blocks \cup {NULL} /\ end' \in [Nodes -> 0 .. ALIGN(MaxSize) + MblockSize]
  BY <1>1, <1>2, Constants DEF IInv, TypeOK
<1>5. FreeBlocks' # NULL => FreeBlocks' # b /\ owner[FreeBlocks'] = FREE
  BY <1>1, <1>2, <1>3, Constants DEF IInv, PointersStay, LeadsTo
<1>6. FreeBlocks' # NULL => \A n \in Nodes : n # b => next[n] # FreeBlocks'
  BY <1>1, <1>2, Constants DEF IInv, OnePointer
<1>7. owner[b] \notin Heaps
  BY <1>2, Constants
<1>8. ASSUME NEW S \in SUBSET Blocks, Closed(S), FreeBlocks' \in S \cup {NULL}
      PROVE  Of(FREE) \ {b} \subseteq S
  <2>1. Closed(S \cup {b})
    BY <1>1, <1>8 DEF Closed
  <2>2. Of(FREE) \subseteq S \cup {b}
    BY <1>2, <2>1 DEF IInv, AllReached, Covers
  <2> QED
    BY <2>2
<1> HIDE DEF b
<1> QED
  BY <1>1, <1>2, <1>3, <1>4, <1>5, <1>6, <1>7, <1>8, MakeLastIInv

LEMMA MallocIInv == ASSUME IInv, NEW b \in Blocks, Malloc(b) PROVE IInv'
<1>1. /\ request # NULL /\ FreeBlocks = NULL /\ owner[b] = NULL /\ FreeBlocks' = NULL
      /\ end' = [end EXCEPT ![b] = request.size + MblockSize] /\ MakeLast(b)
  BY DEF Malloc, TooSmall, Capacity
<1>2. end' \in [Nodes -> 0 .. ALIGN(MaxSize) + MblockSize]
  <2>1. request.size \in 0 .. ALIGN(MaxSize) /\ ALIGN(MaxSize) \in Nat /\ MblockSize \in Nat
    BY <1>1, HeapAssumption, AlignFacts DEF IInv, TypeOK
  <2>2. request.size + MblockSize \in 0 .. ALIGN(MaxSize) + MblockSize
    BY <2>1
  <2> QED
    BY <1>1, <2>2 DEF IInv, TypeOK
<1>3. \A n \in Nodes : n # b => end'[n] = end[n]
  BY <1>1 DEF IInv, TypeOK
<1>4. \A n \in Nodes : next[n] # b
  <2> SUFFICES ASSUME NEW n \in Nodes, next[n] = b PROVE FALSE
    OBVIOUS
  <2>1. CASE n \in Heaps
    BY <1>1, <2>1, Constants DEF IInv, PointersStay, LeadsTo
  <2>2. CASE n \in Blocks /\ owner[n] = NULL
    BY <2>2, Constants DEF IInv, Unmapped
  <2>3. CASE n \in Blocks /\ owner[n] # NULL
    BY <1>1, <2>3, Constants DEF IInv, PointersStay, LeadsTo
  <2> QED
    BY <2>1, <2>2, <2>3 DEF Nodes
<1>5. owner[b] \notin Heaps
  BY <1>1, Constants
<1>6. Of(FREE) = {}
  <2>1. Closed({}) /\ {} \in SUBSET Blocks
    BY DEF Closed
  <2> QED
    BY <1>1, <2>1 DEF IInv, AllReached, Covers
<1> QED
  BY <1>1, <1>2, <1>3, <1>4, <1>5, <1>6, MakeLastIInv

\* next of the last block was NULL before.
LEMMA ExhaustedIInv == ASSUME IInv, Exhausted PROVE IInv'
<1>1. /\ request # NULL /\ fatal' = TRUE
      /\ next' = [next EXCEPT ![last[request.heap]] = NULL]
      /\ UNCHANGED <<last, avail, end, FreeBlocks, request, live, owner>>
  BY DEF Exhausted, TooSmall
<1>2. next' = next
  <2>1. request.heap \in Heaps
    BY <1>1 DEF IInv, TypeOK
  <2>2. next[last[request.heap]] = NULL
    BY <2>1 DEF IInv, Ends
  <2> QED
    BY <1>1, <2>2 DEF IInv, TypeOK
<1>3. TypeOK'
  BY <1>1, <1>2 DEF IInv, TypeOK
<1>4. PointersStay' /\ OnePointer' /\ Unmapped' /\ Ends' /\ Filled'
  BY <1>1, <1>2 DEF IInv, PointersStay, LeadsTo, OnePointer, Unmapped, Ends, Filled
<1>5. LiveIsOwned' /\ Aligned' /\ Disjoint'
  BY <1>1 DEF IInv, LiveIsOwned, Aligned, Disjoint, Abstract!Apart
<1>6. AllReached'
  BY <1>1, <1>2, SameReached DEF IInv
<1> QED
  BY <1>3, <1>4, <1>5, <1>6 DEF IInv

-----------------------------------------------------------------------------
(* What Grant hands out                                                     *)

\* The region granted lies past everything handed out from its block.
LEMMA GrantFacts ==
    ASSUME IInv, Grant
    PROVE  LET h == request.heap
               n == last[h]
               r == [block |-> n, at |-> avail[n], size |-> request.size]
           IN  /\ h \in Heaps /\ n \in Nodes /\ (n = h \/ (n \in Blocks /\ owner[n] = h))
               /\ request.size \in Nat /\ request.size % Alignment = 0
               /\ avail[n] \in Nat /\ avail[n] + request.size <= end[n]
               /\ r \in Region
               /\ live' = [live EXCEPT ![h] = Append(@, r)]
               /\ avail' = [avail EXCEPT ![n] = @ + request.size]
               /\ request' = NULL
               /\ UNCHANGED <<next, last, end, FreeBlocks, fatal, owner>>
               /\ \A g \in Heaps : \A i \in 1 .. Len(live[g]) :
                     /\ live[g][i].block = n => live[g][i].at + live[g][i].size <= avail[n]
                     /\ live[g][i] \in Region
<1> DEFINE h == request.heap
           n == last[h]
           r == [block |-> n, at |-> avail[n], size |-> request.size]
<1>1. /\ request # NULL /\ ~TooSmall /\ ~fatal /\ request' = NULL
      /\ avail' = [avail EXCEPT ![n] = @ + request.size]
      /\ live' = [live EXCEPT ![h] = Append(@, r)]
      /\ UNCHANGED <<next, last, end, FreeBlocks, fatal, owner>>
  BY DEF Grant, Advance, Granted
<1>2. ALIGN(MaxSize) \in Nat /\ MblockSize \in Nat
  BY HeapAssumption, AlignFacts
<1>3. h \in Heaps /\ request.size \in 0 .. ALIGN(MaxSize)
  BY <1>1 DEF IInv, TypeOK
<1>4. n \in Nodes /\ (n = h \/ (n \in Blocks /\ owner[n] = h))
  BY <1>3 DEF IInv, TypeOK, Ends
<1>5. avail[n] \in Nat /\ end[n] \in 0 .. ALIGN(MaxSize) + MblockSize
  BY <1>4 DEF IInv, TypeOK
<1>6. ~(request.size > end[n] - avail[n])
  BY <1>1 DEF TooSmall, Room
<1>7. avail[n] + request.size <= end[n]
  <2> HIDE DEF n
  <2> QED
    BY <1>2, <1>3, <1>5, <1>6
<1>8. r \in Region
  <2>1. avail[n] \in 0 .. ALIGN(MaxSize) + MblockSize
    <3> HIDE DEF n
    <3> QED
      BY <1>2, <1>3, <1>5, <1>7
  <2> QED
    BY <1>3, <1>4, <2>1 DEF Region
<1>9. request.size % Alignment = 0
  BY <1>1 DEF IInv, Filled
<1>10. \A g \in Heaps : \A i \in 1 .. Len(live[g]) :
          /\ live[g][i].block = n => live[g][i].at + live[g][i].size <= avail[n]
          /\ live[g][i] \in Region
  BY DEF IInv, LiveIsOwned, TypeOK
<1>11. request.size \in Nat
  BY <1>2, <1>3
<1> QED
  BY <1>1, <1>3, <1>4, <1>5, <1>7, <1>8, <1>9, <1>10, <1>11

LEMMA AppendFacts ==
    ASSUME NEW S, NEW s \in Seq(S), NEW e \in S
    PROVE  /\ Append(s, e) \in Seq(S)
           /\ Len(s) \in Nat /\ Len(Append(s, e)) = Len(s) + 1
           /\ \A i \in 1 .. Len(s) : Append(s, e)[i] = s[i]
           /\ Append(s, e)[Len(s) + 1] = e
<1> QED
  OBVIOUS

LEMMA GrantIInv == ASSUME IInv, Grant PROVE IInv'
<1> DEFINE h == request.heap
           n == last[h]
           size == request.size
           r == [block |-> n, at |-> avail[n], size |-> size]
<1>1. /\ h \in Heaps /\ n \in Nodes /\ (n = h \/ (n \in Blocks /\ owner[n] = h))
      /\ size \in Nat /\ size % Alignment = 0
      /\ avail[n] \in Nat /\ avail[n] + size <= end[n]
      /\ r \in Region
      /\ live' = [live EXCEPT ![h] = Append(@, r)]
      /\ avail' = [avail EXCEPT ![n] = @ + size]
      /\ request' = NULL
      /\ UNCHANGED <<next, last, end, FreeBlocks, fatal, owner>>
  BY GrantFacts
<1>2. \A g \in Heaps : \A i \in 1 .. Len(live[g]) :
         /\ live[g][i].block = n => live[g][i].at + live[g][i].size <= avail[n]
         /\ live[g][i] \in Region
  BY GrantFacts
<1>3. r.block = n /\ r.at = avail[n] /\ r.size = size
  OBVIOUS
<1> HIDE DEF h, n, size, r
<1>4. live \in [Heaps -> Seq(Region)] /\ avail \in [Nodes -> Nat]
  BY DEF IInv, TypeOK
<1>5. \A m \in Nodes : avail'[m] = IF m = n THEN avail[n] + size ELSE avail[m]
  BY <1>1, <1>4
<1>6. ASSUME NEW g \in Heaps
      PROVE  /\ Len(live'[g]) = IF g = h THEN Len(live[g]) + 1 ELSE Len(live[g])
             /\ \A i \in 1 .. Len(live[g]) : live'[g][i] = live[g][i]
             /\ g = h => live'[g][Len(live[g]) + 1] = r
             /\ Len(live[g]) \in Nat
  <2>1. live[g] \in Seq(Region) /\ live'[g] = IF g = h THEN Append(live[g], r) ELSE live[g]
    BY <1>1, <1>4
  <2>2. CASE g = h
    BY <1>1, <2>1, <2>2, AppendFacts
  <2>3. CASE g # h
    BY <2>1, <2>3
  <2> QED
    BY <2>2, <2>3
\* Every region handed out after the step is r or was handed out before it.
<1>7. ASSUME NEW g \in Heaps, NEW i \in 1 .. Len(live'[g])
      PROVE  \/ g = h /\ i = Len(live[g]) + 1 /\ live'[g][i] = r
             \/ i \in 1 .. Len(live[g]) /\ live'[g][i] = live[g][i]
  <2>1. CASE i \in 1 .. Len(live[g])
    BY <1>6, <2>1
  <2>2. CASE i \notin 1 .. Len(live[g])
    <3>1. g = h /\ i = Len(live[g]) + 1
      BY <1>6, <2>2
    <3> QED
      BY <1>6, <3>1
  <2> QED
    BY <2>1, <2>2
<1>8. TypeOK'
  <2>1. live' \in [Heaps -> Seq(Region)]
    <3>1. Append(live[h], r) \in Seq(Region)
      BY <1>1, <1>4, AppendFacts
    <3> QED
      BY <1>1, <1>4, <3>1
  <2>2. avail' \in [Nodes -> Nat]
    <3>1. avail[n] + size \in Nat
      BY <1>1
    <3> QED
      BY <1>1, <1>4, <3>1
  <2> QED
    BY <1>1, <2>1, <2>2 DEF IInv, TypeOK
<1>9. PointersStay' /\ OnePointer' /\ Unmapped' /\ Ends'
  BY <1>1 DEF IInv, PointersStay, LeadsTo, OnePointer, Unmapped, Ends
<1>10. Alignment \in Nat \ {0} /\ avail[n] % Alignment = 0
  <2>1. Filled
    BY DEF IInv
  <2> QED
    BY <1>1, <2>1, HeapAssumption DEF Filled
<1>11. Filled'
  <2>1. \A g \in Heaps : avail'[g] = 0 /\ end'[g] = 0
    <3> SUFFICES ASSUME NEW g \in Heaps PROVE avail'[g] = 0 /\ end'[g] = 0
      OBVIOUS
    <3>1. g \in Nodes /\ avail[g] = 0 /\ end[g] = 0
      BY Constants DEF IInv, Filled
    <3>2. CASE g = n
      <4>1. avail[n] = 0 /\ end[n] = 0
        BY <3>1, <3>2
      <4>2. size = 0
        BY <1>1, <4>1
      <4> QED
        BY <1>1, <1>5, <3>1, <3>2, <4>1, <4>2
    <3> QED
      BY <1>1, <1>5, <3>1, <3>2
  <2>2. \A c \in Blocks : owner'[c] \in Heaps => avail'[c] <= end'[c]
    BY <1>1, <1>5, Constants DEF IInv, Filled
  <2>3. \A m \in Nodes : avail'[m] % Alignment = 0
    <3>1. (avail[n] + size) % Alignment = 0
      BY <1>1, <1>10, SumOfMultiples
    <3> QED
      BY <1>1, <1>5, <3>1 DEF IInv, Filled
  <2> QED
    BY <1>1, <2>1, <2>2, <2>3 DEF Filled
<1>12. LiveIsOwned'
  <2> SUFFICES ASSUME NEW g \in Heaps, NEW i \in 1 .. Len(live'[g])
               PROVE  LET s == live'[g][i]
                      IN  /\ s.block = g \/ (s.block \in Blocks /\ owner[s.block] = g)
                          /\ s.at + s.size <= avail'[s.block]
                          /\ avail'[s.block] <= end[s.block]
    BY <1>1 DEF LiveIsOwned
  <2>1. CASE g = h /\ live'[g][i] = r
    <3>1. avail'[n] = avail[n] + size
      BY <1>1, <1>5
    <3> QED
      BY <1>1, <1>3, <2>1, <3>1
  <2>2. CASE i \in 1 .. Len(live[g]) /\ live'[g][i] = live[g][i]
    <3> DEFINE s == live[g][i]
    <3>1. /\ s.block = g \/ (s.block \in Blocks /\ owner[s.block] = g)
          /\ s.at + s.size <= avail[s.block]
          /\ avail[s.block] <= end[s.block]
      BY <2>2 DEF IInv, LiveIsOwned
    <3>2. s.at \in Nat /\ s.size \in Nat /\ s.block \in Nodes
      <4>1. s \in Region /\ MaxSize \in Nat /\ MblockSize \in Nat
        BY <1>2, <2>2, HeapAssumption
      <4>2. ALIGN(MaxSize) \in Nat
        BY <4>1, AlignFacts
      <4> HIDE DEF s
      <4> QED
        BY <4>1, <4>2 DEF Region
    <3> HIDE DEF s
    <3>3. avail[s.block] \in Nat /\ end[s.block] \in Nat
      <4>1. ALIGN(MaxSize) + MblockSize \in Nat
        BY HeapAssumption, AlignFacts
      <4> QED
        BY <1>4, <3>2, <4>1 DEF IInv, TypeOK
    <3>4. /\ s.at + s.size <= avail'[s.block]
          /\ avail'[s.block] <= end[s.block]
      <4>1. CASE s.block = n
        BY <1>1, <1>5, <3>1, <3>2, <3>3, <4>1
      <4>2. CASE s.block # n
        BY <1>5, <3>1, <3>2, <4>2
      <4> QED
        BY <4>1, <4>2
    <3> QED
      BY <2>2, <3>1, <3>4 DEF s
  <2> QED
    BY <1>7, <2>1, <2>2
<1>13. Aligned'
  <2>1. Aligned
    BY DEF IInv
  <2> QED
    BY <1>3, <1>7, <1>10, <2>1 DEF Aligned
<1>14. Disjoint'
  <2> SUFFICES ASSUME NEW f \in Heaps, NEW g \in Heaps,
                      NEW i \in 1 .. Len(live'[f]), NEW j \in 1 .. Len(live'[g]),
                      f # g \/ i # j
               PROVE  Abstract!Apart(live'[f][i], live'[g][j])
    BY DEF Disjoint, Abstract!Apart
  <2>1. CASE i \in 1 .. Len(live[f]) /\ live'[f][i] = live[f][i]
    <3>1. CASE j \in 1 .. Len(live[g]) /\ live'[g][j] = live[g][j]
      BY <2>1, <3>1 DEF IInv, Disjoint
    <3>2. CASE live'[g][j] = r
      BY <1>2, <1>3, <2>1, <3>2 DEF Abstract!Apart
    <3> QED
      BY <1>7, <3>1, <3>2
  <2>2. CASE f = h /\ i = Len(live[f]) + 1 /\ live'[f][i] = r
    <3>1. j \in 1 .. Len(live[g]) /\ live'[g][j] = live[g][j]
      BY <1>7, <2>2
    <3> QED
      BY <1>2, <1>3, <2>2, <3>1 DEF Abstract!Apart
  <2> QED
    BY <1>7, <2>1, <2>2
<1>15. AllReached'
  BY <1>1, SameReached DEF IInv
<1> QED
  BY <1>8, <1>9, <1>11, <1>12, <1>13, <1>14, <1>15 DEF IInv

-----------------------------------------------------------------------------
(* FreeHeap, and the theorems                                               *)

LEMMA FreeHeapIInv == ASSUME IInv, NEW h \in Heaps, FreeHeap(h) PROVE IInv'
<1> DEFINE l == last[h]
           linked == [next EXCEPT ![l] = FreeBlocks]
<1>1. /\ FreeBlocks' = linked[h] /\ next' = [linked EXCEPT ![h] = NULL]
      /\ last' = [last EXCEPT ![h] = h]
      /\ live' = [live EXCEPT ![h] = <<>>]
      /\ owner' = [b \in Blocks |-> IF owner[b] = h THEN FREE ELSE owner[b]]
      /\ UNCHANGED <<avail, end, request, fatal>>
  BY DEF FreeHeap, InitHeap
<1>2. /\ next \in [Nodes -> Blocks \cup {NULL}] /\ FreeBlocks \in Blocks \cup {NULL}
      /\ last \in [Heaps -> Nodes] /\ live \in [Heaps -> Seq(Region)]
      /\ owner \in [Blocks -> Heaps \cup {FREE, NULL}] /\ h \in Nodes /\ l \in Nodes
  BY Constants DEF IInv, TypeOK
<1>3. (l = h \/ (l \in Blocks /\ owner[l] = h)) /\ next[l] = NULL
  BY DEF IInv, Ends
<1>4. linked \in [Nodes -> Blocks \cup {NULL}]
      /\ \A n \in Nodes : linked[n] = IF n = l THEN FreeBlocks ELSE next[n]
  BY <1>2
<1> HIDE DEF l, linked
<1>5. /\ next' \in [Nodes -> Blocks \cup {NULL}]
      /\ \A n \in Nodes : next'[n] = IF n = h THEN NULL
                                     ELSE IF n = l THEN FreeBlocks ELSE next[n]
      /\ FreeBlocks' = IF l = h THEN FreeBlocks ELSE next[h]
      /\ \A g \in Heaps : last'[g] = IF g = h THEN h ELSE last[g]
      /\ \A b \in Blocks : owner'[b] = IF owner[b] = h THEN FREE ELSE owner[b]
      /\ \A g \in Heaps : live'[g] = IF g = h THEN <<>> ELSE live[g]
  BY <1>1, <1>2, <1>4
<1>6. TypeOK'
  <2>1. last' \in [Heaps -> Nodes] /\ FreeBlocks' \in Blocks \cup {NULL}
        /\ owner' \in [Blocks -> Heaps \cup {FREE, NULL}]
    BY <1>1, <1>2, <1>5
  <2>2. live' \in [Heaps -> Seq(Region)]
    BY <1>1, <1>2
  <2> QED
    BY <1>1, <1>5, <2>1, <2>2 DEF IInv, TypeOK
<1>7. PointersStay'
  <2>1. ASSUME NEW g \in Heaps PROVE LeadsTo(g, next[g])'
    <3>1. CASE g = h
      BY <1>2, <1>5, <3>1 DEF LeadsTo
    <3>2. CASE g # h
      <4>1. next'[g] = next[g]
        BY <1>3, <1>5, <3>2, Constants
      <4>2. next[g] # NULL => next[g] \in Blocks /\ owner[next[g]] = g
        BY <1>2, Constants DEF IInv, PointersStay, LeadsTo
      <4> QED
        BY <1>5, <3>2, <4>1, <4>2 DEF LeadsTo
    <3> QED
      BY <3>1, <3>2
  <2>2. ASSUME NEW b \in Blocks, owner'[b] # NULL PROVE LeadsTo(owner[b], next[b])'
    <3>1. CASE b = l
      <4>1. next'[b] = FreeBlocks /\ owner'[b] = FREE
        BY <1>2, <1>3, <1>5, <3>1, Constants
      <4>2. FreeBlocks # NULL => owner[FreeBlocks] = FREE /\ FreeBlocks \in Blocks
        BY <1>2 DEF IInv, PointersStay, LeadsTo
      <4> QED
        BY <1>5, <4>1, <4>2, Constants DEF LeadsTo
    <3>2. CASE b # l
      <4>1. next'[b] = next[b] /\ owner[b] # NULL
        BY <1>5, <2>2, <3>2, Constants
      <4>2. next[b] # NULL => owner[next[b]] = owner[b] /\ next[b] \in Blocks
        BY <1>2, <4>1, Constants DEF IInv, PointersStay, LeadsTo
      <4> QED
        BY <1>5, <4>1, <4>2 DEF LeadsTo
    <3> QED
      BY <3>1, <3>2
  <2>3. LeadsTo(FREE, FreeBlocks)'
    <3>1. FreeBlocks # NULL => FreeBlocks \in Blocks /\ owner[FreeBlocks] = FREE
      BY <1>2 DEF IInv, PointersStay, LeadsTo
    <3>2. next[h] # NULL => next[h] \in Blocks /\ owner[next[h]] = h
      BY <1>2 DEF IInv, PointersStay, LeadsTo
    <3> QED
      BY <1>5, <3>1, <3>2 DEF LeadsTo
  <2> QED
    BY <2>1, <2>2, <2>3 DEF PointersStay, LeadsTo
<1>8. OnePointer'
  <2>1. OnePointer
    BY DEF IInv
  <2>2. \A n, m \in Nodes : n # m /\ next'[n] # NULL => next'[n] # next'[m]
    BY <1>2, <1>5, <2>1 DEF OnePointer
  <2>3. FreeBlocks' # NULL => \A n \in Nodes : next'[n] # FreeBlocks'
    BY <1>2, <1>3, <1>5, <2>1 DEF OnePointer
  <2> QED
    BY <2>2, <2>3 DEF OnePointer
<1>9. Unmapped'
  BY <1>2, <1>3, <1>5, Constants DEF IInv, Unmapped
<1>10. Ends'
  <2> SUFFICES ASSUME NEW g \in Heaps
               PROVE  /\ last'[g] = g \/ (last'[g] \in Blocks /\ owner'[last'[g]] = g)
                      /\ next'[last'[g]] = NULL
    BY DEF Ends
  <2>1. CASE g = h
    BY <1>2, <1>5, <2>1
  <2>2. CASE g # h
    <3>1. /\ last[g] = g \/ (last[g] \in Blocks /\ owner[last[g]] = g)
          /\ next[last[g]] = NULL /\ last[g] \in Nodes
      BY <1>2 DEF IInv, Ends
    <3>2. last[g] # h /\ last[g] # l
      BY <1>3, <2>2, <3>1, Constants
    <3> QED
      BY <1>5, <2>2, <3>1, <3>2
  <2> QED
    BY <2>1, <2>2
<1>11. Filled'
  BY <1>1, <1>5, Constants DEF IInv, Filled
<1>12. LiveIsOwned'
  <2> SUFFICES ASSUME NEW g \in Heaps, NEW i \in 1 .. Len(live'[g])
               PROVE  LET r == live'[g][i]
                      IN  /\ r.block = g \/ (r.block \in Blocks /\ owner'[r.block] = g)
                          /\ r.at + r.size <= avail[r.block]
                          /\ avail[r.block] <= end[r.block]
    BY <1>1 DEF LiveIsOwned
  <2>1. g # h
    BY <1>5
  <2>2. live'[g] = live[g]
    BY <1>5, <2>1
  <2> QED
    BY <1>5, <2>1, <2>2 DEF IInv, LiveIsOwned
<1>13. Aligned'
  <2> SUFFICES ASSUME NEW g \in Heaps, NEW i \in 1 .. Len(live'[g])
               PROVE  live'[g][i].at % Alignment = 0
    BY DEF Aligned
  <2>1. live'[g] = live[g]
    BY <1>5
  <2>2. Aligned
    BY DEF IInv
  <2> QED
    BY <2>1, <2>2 DEF Aligned
<1>14. Disjoint'
  <2> SUFFICES ASSUME NEW f \in Heaps, NEW g \in Heaps,
                      NEW i \in 1 .. Len(live'[f]), NEW j \in 1 .. Len(live'[g]),
                      f # g \/ i # j
               PROVE  Abstract!Apart(live'[f][i], live'[g][j])
    BY DEF Disjoint, Abstract!Apart
  <2>1. live'[f] = live[f] /\ live'[g] = live[g]
    BY <1>5
  <2> QED
    BY <2>1 DEF IInv, Disjoint
<1>15. AllReached'
  \* A set that is closed after the step was closed before it.
  <2>1. ASSUME NEW S \in SUBSET Blocks, Closed(S)' PROVE Closed(S)
    <3> SUFFICES ASSUME NEW c \in S PROVE next[c] \in S \cup {NULL}
      BY DEF Closed
    <3>1. CASE c = l
      BY <1>3, <3>1
    <3>2. CASE c # l
      <4>1. next'[c] = next[c]
        BY <1>5, <3>2, Constants
      <4> QED
        BY <2>1, <4>1 DEF Closed
    <3> QED
      BY <3>1, <3>2
  <2>2. ASSUME NEW o \in Heaps, o # h, NEW S \in SUBSET Blocks, Closed(S)', next'[o] \in S \cup {NULL}
        PROVE  Of(o)' \subseteq S
    <3>1. next'[o] = next[o]
      BY <1>3, <1>5, <2>2, Constants
    <3>2. Of(o) \subseteq S
      BY <2>1, <2>2, <3>1 DEF IInv, AllReached, Covers
    <3> QED
      BY <1>5, <2>2, <3>2, Constants DEF Of
  <2>3. Of(h)' = {}
    BY <1>5, Constants DEF Of
  <2>4. ASSUME NEW S \in SUBSET Blocks, Closed(S)', FreeBlocks' \in S \cup {NULL}
        PROVE  Of(FREE)' \subseteq S
    <3>1. Closed(S)
      BY <2>1, <2>4
    <3>2. Of(h) \subseteq S
      <4>1. CASE l = h
        <5>1. next[h] = NULL
          BY <1>3, <4>1
        <5> QED
          BY <3>1, <5>1 DEF IInv, AllReached, Covers
      <4>2. CASE l # h
        BY <1>5, <2>4, <3>1, <4>2 DEF IInv, AllReached, Covers
      <4> QED
        BY <4>1, <4>2
    <3>3. FreeBlocks \in S \cup {NULL}
      <4>1. CASE l = h
        BY <1>5, <2>4, <4>1
      <4>2. CASE l # h
        <5>1. l \in S /\ next'[l] = FreeBlocks
          BY <1>2, <1>3, <1>5, <3>2, <4>2 DEF Of
        <5> QED
          BY <2>4, <5>1 DEF Closed
      <4> QED
        BY <4>1, <4>2
    <3>4. Of(FREE) \subseteq S
      BY <3>1, <3>3 DEF IInv, AllReached, Covers
    <3> QED
      BY <1>5, <3>2, <3>4 DEF Of
  <2> QED
    BY <2>2, <2>3, <2>4 DEF AllReached, Covers
<1> QED
  BY <1>6, <1>7, <1>8, <1>9, <1>10, <1>11, <1>12, <1>13, <1>14, <1>15 DEF IInv

LEMMA StutterIInv == ASSUME IInv, UNCHANGED vars PROVE IInv'
<1>1. UNCHANGED <<next, last, avail, end, FreeBlocks, request, fatal, live, owner>>
  BY DEF vars
<1>2. TypeOK'
  BY <1>1 DEF IInv, TypeOK
<1>3. PointersStay' /\ OnePointer' /\ Unmapped' /\ Ends' /\ Filled'
  BY <1>1 DEF IInv, PointersStay, LeadsTo, OnePointer, Unmapped, Ends, Filled
<1>4. LiveIsOwned' /\ Aligned' /\ Disjoint'
  BY <1>1 DEF IInv, LiveIsOwned, Aligned, Disjoint, Abstract!Apart
<1>5. AllReached'
  BY <1>1, SameReached DEF IInv
<1> QED
  BY <1>2, <1>3, <1>4, <1>5 DEF IInv

\* The invariant holds of the heaps through any calls: each pointer stays within the
\* blocks of one owner, no block is the target of two, and the regions handed out are
\* apart (alloc.c:27-84).
THEOREM HeapInvariance == Spec => []IInv
<1>1. Init => IInv
  BY InitIInv
<1>2. IInv /\ [Next]_vars => IInv'
  <2> SUFFICES ASSUME IInv, [Next]_vars PROVE IInv'
    OBVIOUS
  <2>1. CASE TakeFree
    BY <2>1, TakeFreeIInv
  <2>2. ASSUME NEW b \in Blocks, Malloc(b) PROVE IInv'
    BY <2>2, MallocIInv
  <2>3. CASE Exhausted
    BY <2>3, ExhaustedIInv
  <2>4. CASE Grant
    BY <2>4, GrantIInv
  <2>5. ASSUME NEW h \in Heaps, FreeHeap(h) PROVE IInv'
    BY <2>5, FreeHeapIInv
  <2>6. ASSUME NEW h \in Heaps, NEW size \in Sizes, HeapAllocate(h, size) PROVE IInv'
    BY <2>6, RequestIInv
  <2>7. CASE UNCHANGED vars
    BY <2>7, StutterIInv
  <2> QED
    BY <2>1, <2>2, <2>3, <2>4, <2>5, <2>6, <2>7 DEF Next, Loop
<1> QED
  BY <1>1, <1>2, PTL DEF Spec

\* The state of the heaps has its type (alloc.h:4-29).
THEOREM TypeCorrect == Spec => []TypeOK
<1>1. IInv => TypeOK
  BY DEF IInv
<1> QED
  BY <1>1, HeapInvariance, PTL

\* What a heap handed out stays in the used part of its own blocks, whichever other heaps
\* are freed and whichever blocks are recycled (alloc.c:43-74, 79-84).
THEOREM OwnedMemory == Spec => []LiveIsOwned
<1>1. IInv => LiveIsOwned
  BY DEF IInv
<1> QED
  BY <1>1, HeapInvariance, PTL

\* The list of each heap holds all blocks that malloc returned for it, and FreeBlocks all
\* that are free, through recycling and freeing (alloc.c:43-66, 79-84).
THEOREM BlocksKept == Spec => []NoBlockLost
<1>1. ASSUME NEW o, NEW p \in Blocks \cup {NULL}, LeadsTo(o, p), Covers(p, o), Closed(Of(o))
      PROVE  From(p) = Of(o)
  <2>1. Of(o) \in SUBSET Blocks /\ p \in Of(o) \cup {NULL}
    BY <1>1 DEF Of, LeadsTo
  <2> QED
    BY <1>1, <2>1 DEF From, Covers
<1>2. IInv => NoBlockLost
  <2> SUFFICES ASSUME IInv PROVE NoBlockLost
    OBVIOUS
  <2>1. ASSUME NEW o \in Heaps \cup {FREE} PROVE Closed(Of(o))
    <3> SUFFICES ASSUME NEW c \in Blocks, owner[c] = o PROVE next[c] \in Of(o) \cup {NULL}
      BY DEF Closed, Of
    <3>1. o # NULL /\ next[c] \in Blocks \cup {NULL}
      BY Constants DEF IInv, TypeOK
    <3> QED
      BY <3>1 DEF IInv, PointersStay, LeadsTo, Of
  <2>2. ASSUME NEW h \in Heaps PROVE From(next[h]) = Of(h)
    <3>1. next[h] \in Blocks \cup {NULL} /\ LeadsTo(h, next[h]) /\ Covers(next[h], h)
      BY Constants DEF IInv, TypeOK, PointersStay, AllReached
    <3> QED
      BY <1>1, <2>1, <3>1
  <2>3. From(FreeBlocks) = Of(FREE)
    <3>1. FreeBlocks \in Blocks \cup {NULL} /\ LeadsTo(FREE, FreeBlocks) /\ Covers(FreeBlocks, FREE)
      BY DEF IInv, TypeOK, PointersStay, AllReached
    <3> QED
      BY <1>1, <2>1, <3>1
  <2> QED
    BY <2>2, <2>3 DEF NoBlockLost, Of
<1> QED
  BY <1>2, HeapInvariance, PTL

\* Every address HeapAllocate returns is aligned (alloc.c:39, 71-74).
THEOREM AlignedMemory == Spec => []Aligned
<1>1. IInv => Aligned
  BY DEF IInv
<1> QED
  BY <1>1, HeapInvariance, PTL

\* HeapAllocate and FreeHeap implement Arena: what is returned overlaps nothing that was
\* returned before from a heap not freed since (alloc.c:27-84).
THEOREM Refinement == Spec => ImplementsArena
<1>1. Init => Abstract!Init
  BY DEF Init, Abstract!Init
<1>2. IInv /\ IInv' /\ [Next]_vars => [Abstract!Next]_live
  <2> SUFFICES ASSUME IInv, IInv', [Next]_vars PROVE Abstract!Next \/ live' = live
    OBVIOUS
  <2>1. CASE TakeFree
    BY <2>1 DEF TakeFree, MakeLast
  <2>2. ASSUME NEW b \in Blocks, Malloc(b) PROVE live' = live
    BY <2>2 DEF Malloc, MakeLast
  <2>3. CASE Exhausted
    BY <2>3 DEF Exhausted
  <2>4. CASE Grant
    <3> DEFINE h == request.heap
               r == Granted(h, request.size)
    <3>1. h \in Heaps /\ r \in Region /\ live' = [live EXCEPT ![h] = Append(@, r)]
      BY <2>4, GrantFacts DEF Granted
    <3>2. \A g \in Heaps : \A i \in 1 .. Len(live[g]) : Abstract!Apart(r, live[g][i])
      BY <2>4, GrantFacts DEF Granted, Abstract!Apart
    <3>3. Abstract!Allocate(h, r)
      BY <3>1, <3>2 DEF Abstract!Allocate
    <3> QED
      BY <3>1, <3>3 DEF Abstract!Next
  <2>5. ASSUME NEW h \in Heaps, FreeHeap(h) PROVE Abstract!Next
    BY <2>5 DEF FreeHeap, Abstract!Next, Abstract!Free
  <2>6. ASSUME NEW h \in Heaps, NEW size \in Sizes, HeapAllocate(h, size) PROVE live' = live
    BY <2>6 DEF HeapAllocate
  <2>7. CASE UNCHANGED vars
    BY <2>7 DEF vars
  <2> QED
    BY <2>1, <2>2, <2>3, <2>4, <2>5, <2>6, <2>7 DEF Next, Loop
<1> QED
  BY <1>1, <1>2, HeapInvariance, PTL DEF Spec, ImplementsArena, Abstract!Spec
=============================================================================
