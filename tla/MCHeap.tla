------------------------------- MODULE MCHeap -------------------------------
(* Heap with a few small blocks, for TLC *)
EXTENDS Heap

\* No memory at all, less than the room a new block has beyond the request, and
\* more than the room of the smallest block
SomeSizes == {0, 1, 5}
=============================================================================
