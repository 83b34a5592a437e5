----------------------------- MODULE MCX86Emit -----------------------------
(* X86Emit on a small register file, for TLC *)
EXTENDS X86Emit, TLC

CONSTANTS t1, t2, t3, t4

ThreeRegs == {EAX, ECX, EDX}
FourRegs  == {EAX, ECX, EDX, EDI}

ThreeTemps == {t1, t2, t3}
FourTemps  == {t1, t2, t3, t4}

\* No definition distinguishes one temporary from another
Symmetry == Permutations(Temps)

\* At most one live temporary is mentioned more than once, and at most twice
FewOccurrences ==
    /\ \A t \in Temps : left[t] <= 2
    /\ \A t, u \in Temps : left[t] > 1 /\ left[u] > 1 => t = u
=============================================================================
