-------------------------------- MODULE Arena --------------------------------
(***************************************************************************)
(* What alloc.c promises: memory handed out from a heap overlaps nothing   *)
(* that was handed out before, from whichever heap, until the heap it came *)
(* from is freed as a whole.                                               *)
(***************************************************************************)
EXTENDS Integers, Sequences

CONSTANTS
    Heaps,
    Regions     \* records with a block, the offset at and a size

VARIABLE
    live        \* the regions handed out from each heap since it was last freed

\* No address lies in both regions
Apart(r, s) ==
    \/ r.block # s.block
    \/ r.at + r.size <= s.at
    \/ s.at + s.size <= r.at

Allocate(h, r) ==
    /\ live' = [live EXCEPT ![h] = Append(@, r)]
    /\ \A g \in Heaps : \A i \in 1 .. Len(live[g]) : Apart(r, live[g][i])

Free(h) == live' = [live EXCEPT ![h] = <<>>]

Init == live = [h \in Heaps |-> <<>>]

Next == \E h \in Heaps : Free(h) \/ \E r \in Regions : Allocate(h, r)

Spec == Init /\ [][Next]_live
=============================================================================
