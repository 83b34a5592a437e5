-------------------------------- MODULE Heap --------------------------------
(***************************************************************************)
(* The heaps of UCC (alloc.c): a heap is a list of blocks, the last of     *)
(* which serves requests; a freed heap gives its whole list to FreeBlocks, *)
(* from which any heap takes blocks before it asks malloc for more.        *)
(*                                                                         *)
(* The list is modelled with its pointers.  A node is a block or the head  *)
(* of a heap, which is written as the heap.  An address in a block is an   *)
(* offset from its begin.  HeapAllocate is one step per iteration of its   *)
(* loop.  Two variables are history: what was handed out, and whose each   *)
(* block is.                                                               *)
(***************************************************************************)
EXTENDS Integers, FiniteSets, Sequences

CONSTANTS
    Heaps, Blocks,
    MblockSize,     \* MBLOCK_SIZE, the room a new block has beyond the request
    Alignment,      \* sizeof(union align)
    Sizes, MaxSize, \* the sizes asked for, and the largest
    MaxAllocs,      \* allocations from one heap between two calls of FreeHeap
    FREE, NULL

ASSUME HeapAssumption ==
    /\ Heaps \cap Blocks = {}
    /\ {FREE, NULL} \cap (Heaps \cup Blocks) = {} /\ FREE # NULL
    /\ MblockSize \in Nat /\ Alignment \in Nat \ {0} /\ MaxAllocs \in Nat
    /\ MaxSize \in Nat /\ Sizes \subseteq 0 .. MaxSize

Nodes == Heaps \cup Blocks

VARIABLES
    next,           \* next of each node
    last,           \* last of each heap
    avail, end,     \* of each node, relative to its begin
    FreeBlocks,
    request,        \* the call of HeapAllocate that is under way
    fatal,          \* Fatal("Memory exhausted") has ended the program
    live,           \* history: the regions returned from each heap
    owner           \* history: the heap a block is in, FREE, or NULL before malloc

vars == <<next, last, avail, end, FreeBlocks, request, fatal, live, owner>>

-----------------------------------------------------------------------------
\* Mutant of ALIGN
Unaligned(size) == size

\* A size becomes a multiple of the alignment.  The code's mask does this for a power of
\* two, as sizeof(union align) is.
ALIGN(size) == ((size + Alignment - 1) \div Alignment) * Alignment

Idle == request = NULL /\ ~fatal

\* The call of HeapAllocate for size bytes of h
HeapAllocate(h, size) ==
    /\ Idle
    /\ Len(live[h]) < MaxAllocs
    /\ request' = [heap |-> h, size |-> ALIGN(size)]
    /\ UNCHANGED <<next, last, avail, end, FreeBlocks, fatal, live, owner>>

\* Mutant of Room: the test is off by one alignment unit
RoomPadded(b) == end[b] - avail[b] + Alignment

Room(b) == end[b] - avail[b]

\* The loop condition: the last block of the heap is too small
TooSmall ==
    /\ request # NULL /\ ~fatal
    /\ request.size > Room(last[request.heap])

\* Mutant of Link: the new last block keeps its successor
LinkKeepsNext(b) == next' = [next EXCEPT ![last[request.heap]] = b]

\* blk->next = b, and then b->next = NULL
Link(b) == next' = [next EXCEPT ![last[request.heap]] = b, ![b] = NULL]

\* b is the last block of the heap, and empty
MakeLast(b) ==
    /\ Link(b)
    /\ last' = [last EXCEPT ![request.heap] = b]
    /\ avail' = [avail EXCEPT ![b] = 0]
    /\ owner' = [owner EXCEPT ![b] = request.heap]
    /\ UNCHANGED <<request, fatal, live>>

\* Mutant of Unlink: FreeBlocks still points to the block that was taken
UnlinkNot == UNCHANGED FreeBlocks

Unlink == FreeBlocks' = next[FreeBlocks]

\* The first free block joins the heap, whether it is large enough or not
TakeFree ==
    /\ TooSmall
    /\ FreeBlocks # NULL
    /\ Unlink
    /\ MakeLast(FreeBlocks)
    /\ UNCHANGED end

\* Mutant of Capacity: end is past what was asked of malloc
CapacityPadded(size) == size + MblockSize + Alignment

\* The room of a new block
Capacity(size) == size + MblockSize

\* malloc returns the block b
Malloc(b) ==
    /\ TooSmall
    /\ FreeBlocks = NULL
    /\ owner[b] = NULL
    /\ end' = [end EXCEPT ![b] = Capacity(request.size)]
    /\ MakeLast(b)
    /\ UNCHANGED FreeBlocks

\* malloc returns NULL
Exhausted ==
    /\ TooSmall
    /\ FreeBlocks = NULL
    /\ next' = [next EXCEPT ![last[request.heap]] = NULL]
    /\ fatal' = TRUE
    /\ UNCHANGED <<last, avail, end, FreeBlocks, request, live, owner>>

\* The region returned
Granted(h, size) == [block |-> last[h], at |-> avail[last[h]], size |-> size]

\* Mutant of Advance: avail moves by one alignment unit less
AdvanceShort(b, size) ==
    avail' = [avail EXCEPT ![b] = @ + (IF size = 0 THEN 0 ELSE size - Alignment)]

Advance(b, size) == avail' = [avail EXCEPT ![b] = @ + size]

\* The loop is left, and the call returns
Grant ==
    /\ request # NULL /\ ~fatal
    /\ ~TooSmall
    /\ LET h == request.heap
       IN  /\ Advance(last[h], request.size)
           /\ live' = [live EXCEPT ![h] = Append(@, Granted(h, request.size))]
    /\ request' = NULL
    /\ UNCHANGED <<next, last, end, FreeBlocks, fatal, owner>>

\* Mutant of InitHeap: last still points to the block that was recycled
InitHeapKeepsLast(h) == UNCHANGED last

\* last is the head again; its next is cleared with it in FreeHeap
InitHeap(h) == last' = [last EXCEPT ![h] = h]

\* The whole list goes to the front of FreeBlocks
FreeHeap(h) ==
    /\ Idle
    /\ LET linked == [next EXCEPT ![last[h]] = FreeBlocks]
       IN  /\ FreeBlocks' = linked[h]
           /\ next' = [linked EXCEPT ![h] = NULL]
    /\ InitHeap(h)
    /\ live' = [live EXCEPT ![h] = <<>>]
    /\ owner' = [b \in Blocks |-> IF owner[b] = h THEN FREE ELSE owner[b]]
    /\ UNCHANGED <<avail, end, request, fatal>>

-----------------------------------------------------------------------------
Init ==
    /\ next = [n \in Nodes |-> NULL]
    /\ last = [h \in Heaps |-> h]
    /\ avail = [n \in Nodes |-> 0]
    /\ end = [n \in Nodes |-> 0]
    /\ FreeBlocks = NULL
    /\ request = NULL
    /\ fatal = FALSE
    /\ live = [h \in Heaps |-> <<>>]
    /\ owner = [b \in Blocks |-> NULL]

\* The steps of a call of HeapAllocate once it is under way
Loop == TakeFree \/ Exhausted \/ Grant \/ \E b \in Blocks : Malloc(b)

Next ==
    \/ Loop
    \/ \E h \in Heaps : FreeHeap(h) \/ \E size \in Sizes : HeapAllocate(h, size)

Spec == Init /\ [][Next]_vars /\ WF_vars(Loop)

-----------------------------------------------------------------------------
(* Properties                                                               *)

Region == [block : Nodes, at : 0 .. ALIGN(MaxSize) + MblockSize, size : 0 .. ALIGN(MaxSize)]

TypeOK ==
    /\ next \in [Nodes -> Blocks \cup {NULL}]
    /\ last \in [Heaps -> Nodes]
    /\ avail \in [Nodes -> Nat]
    /\ end \in [Nodes -> 0 .. ALIGN(MaxSize) + MblockSize]
    /\ FreeBlocks \in Blocks \cup {NULL}
    /\ request \in [heap : Heaps, size : 0 .. ALIGN(MaxSize)] \cup {NULL}
    /\ fatal \in BOOLEAN
    /\ live \in [Heaps -> Seq(Region)]
    /\ owner \in [Blocks -> Heaps \cup {FREE, NULL}]

\* HeapAllocate and FreeHeap behave as Arena: nothing handed out overlaps.
Abstract == INSTANCE Arena WITH Regions <- Region
ImplementsArena == Abstract!Spec

\* Where next leads from the blocks of S is in S again.
Closed(S) == \A b \in S : next[b] \in S \cup {NULL}

\* The blocks reached from pointer p along next, the least set with p that is closed
From(p) == {b \in Blocks : \A S \in SUBSET Blocks : Closed(S) /\ p \in S \cup {NULL} => b \in S}

\* Every block malloc ever returned is in the list of one heap or in FreeBlocks: none
\* is lost by recycling and none is in two lists.
NoBlockLost ==
    /\ \A h \in Heaps : From(next[h]) = {b \in Blocks : owner[b] = h}
    /\ From(FreeBlocks) = {b \in Blocks : owner[b] = FREE}

\* last is the end of the list, from where HeapAllocate and FreeHeap append to it.
LastIsLast ==
    \A h \in Heaps :
        /\ last[h] \in {h} \cup From(next[h])
        /\ next[last[h]] = NULL

\* What was handed out lies in the used part of a block that is still the heap's:
\* recycling a heap takes no other heap's memory.
LiveIsOwned ==
    \A h \in Heaps : \A i \in 1 .. Len(live[h]) :
        LET r == live[h][i]
        IN  /\ r.block = h \/ (r.block \in Blocks /\ owner[r.block] = h)
            /\ r.at + r.size <= avail[r.block]
            /\ avail[r.block] <= end[r.block]

\* Every returned address is aligned.
Aligned ==
    \A h \in Heaps : \A i \in 1 .. Len(live[h]) : live[h][i].at % Alignment = 0

\* The loop of HeapAllocate uses up FreeBlocks and then has one block to malloc.
RequestEnds == (request # NULL) ~> (request = NULL \/ fatal)
=============================================================================
