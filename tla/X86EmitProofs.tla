---------------------------- MODULE X86EmitProofs ----------------------------
(***************************************************************************)
(* The emitter's safety, for every register file with EAX, ECX and EDX and *)
(* every number of temporaries and of uses.                                *)
(*                                                                         *)
(* The inductive invariant IInv says that between two instructions the     *)
(* machine is MachineInv: no register is claimed, and each temporary that  *)
(* occurs again is Held.  One lemma per emitter says that it makes its     *)
(* result held and keeps the other temporaries held, except the operands   *)
(* that occurred for the last time (Emitted).                              *)
(***************************************************************************)
EXTENDS X86Emit, RegAllocProofs

\* Between two instructions: l gives the occurrences that are left
MachineInv(m, l) ==
    /\ Base(m)
    /\ m.used = {}
    /\ m.ref = l
    /\ \A t \in Temps : l[t] > 0 => Held(m, t)

IInv ==
    /\ TypeOK
    /\ MachineInv(mach, left)
    /\ \A t \in Temps : pend[t] # "no" => Live(t)
    /\ index # NULL => CanRead(mach, index)
    /\ BoundaryInMemory

\* From m, an instruction that reads S and defines d led to n
Emitted(m, n, d, S) ==
    /\ Base(n)
    /\ n.ref = m.ref
    /\ \A t \in Temps \ {d} : Held(m, t) /\ (t \in S => m.ref[t] > 1) => Held(n, t)
    /\ d \in Temps /\ m.ref[d] > 0 => Held(n, d)

-----------------------------------------------------------------------------
(* Around one instruction                                                   *)

\* NextInst forgets only temporaries the IR does not mention again.
LEMMA NextInstLemma ==
    ASSUME NEW m, Base(m), NEW keep
    PROVE  LET n == NextInst(m, keep)
           IN  /\ Base(n)
               /\ n.used = {} /\ n.ref = m.ref /\ n.link = m.link
               /\ \A t \in Temps : Held(m, t) => Held(n, t)
               /\ /\ keep \in Temps /\ CanRead(m, keep)
                  /\ m.reg[keep] # NULL => keep \in m.link[m.reg[keep]]
                  => CanRead(n, keep)
<1> DEFINE n == NextInst(m, keep)
           Linked(t) == \E r \in Regs : t \in m.link[r]
           Kept(t) == m.ref[t] > 0 \/ t = keep
<1>1. /\ n.used = {} /\ n.link = m.link /\ n.ref = m.ref /\ n.wrong = m.wrong
      /\ n.reg = [t \in Temps |-> IF Kept(t) \/ Linked(t) THEN m.reg[t] ELSE NULL]
      /\ n.needwb = [t \in Temps |-> Kept(t) /\ m.needwb[t]]
      /\ n.mval = [t \in Temps |-> Kept(t) /\ m.mval[t]]
      /\ n.wide = {t \in m.wide : Kept(t)}
      /\ n.rval = [r \in Regs |-> IF m.rval[r] \in m.link[r] /\ Kept(m.rval[r])
                                  THEN m.rval[r] ELSE NULL]
  BY DEF NextInst, Settle, Base, Machine
<1>2. n \in Machine
  BY DEF NextInst, Settle, Base, Machine
<1> HIDE DEF n
<1>3. Base(n)
  <2>1. \A r \in Regs : \A t \in m.link[r] : n.reg[t] = r
    BY <1>1 DEF Base, Machine
  <2> QED BY <1>1, <1>2, <2>1 DEF Base
<1>4. ASSUME NEW t \in Temps, Kept(t), m.reg[t] # NULL => t \in m.link[m.reg[t]]
      PROVE  /\ n.reg[t] = m.reg[t] /\ n.mval[t] = m.mval[t]
             /\ n.needwb[t] = m.needwb[t] /\ (t \in n.wide <=> t \in m.wide)
             /\ m.reg[t] # NULL /\ m.rval[m.reg[t]] = t => n.rval[m.reg[t]] = t
  <2>1. m.reg[t] \in Regs \cup {NULL} /\ m.mval[t] \in BOOLEAN /\ m.needwb[t] \in BOOLEAN
    BY DEF Base, Machine
  <2> QED BY <1>1, <1>4, <2>1
<1>5. ASSUME NEW t \in Temps, Held(m, t) PROVE Held(n, t)
  <2>1. /\ n.reg[t] = m.reg[t] /\ n.mval[t] = m.mval[t]
        /\ n.needwb[t] = m.needwb[t] /\ (t \in n.wide <=> t \in m.wide)
        /\ m.reg[t] # NULL /\ m.rval[m.reg[t]] = t => n.rval[m.reg[t]] = t
    BY <1>4, <1>5 DEF Held
  <2> QED BY <1>1, <1>5, <2>1 DEF Held
<1>6. ASSUME keep \in Temps, CanRead(m, keep),
             m.reg[keep] # NULL => keep \in m.link[m.reg[keep]]
      PROVE  CanRead(n, keep)
  BY <1>4, <1>6 DEF CanRead, Holds
<1> QED BY <1>1, <1>3, <1>5, <1>6 DEF n

\* The machine at the start of an instruction.
LEMMA BeginLemma ==
    ASSUME NEW m, NEW l, MachineInv(m, l)
    PROVE  MachineInv(Begin(m), l) /\ SameLists(m, Begin(m))
           /\ Begin(m).rval = m.rval /\ Begin(m).wide = m.wide
<1> DEFINE n == Begin(m)
<1>1. /\ n \in Machine /\ n.wrong = {}
      /\ n.link = m.link /\ n.reg = m.reg /\ n.needwb = m.needwb /\ n.ref = m.ref
      /\ n.used = m.used /\ n.mval = m.mval /\ n.wide = m.wide /\ n.rval = m.rval
  BY DEF Begin, MachineInv, Base, Machine
<1> HIDE DEF n
<1>2. Base(n)
  BY <1>1 DEF MachineInv, Base
<1>3. \A t \in Temps : Held(m, t) => Held(n, t)
  BY <1>1 DEF Held
<1> QED BY <1>1, <1>2, <1>3 DEF MachineInv, SameLists, n

\* A fresh temporary is on no list, and takes none with it.
LEMMA CreateTempLemma ==
    ASSUME NEW m, NEW l, MachineInv(m, l), NEW d \in Temps, NEW n \in Int,
           ~(l[d] > 0), \A r \in Regs : d \notin m.link[r]
    PROVE  LET c == CreateTemp(m, d, n)
           IN  /\ Base(c) /\ c.used = {}
               /\ c.reg[d] = NULL
               /\ c.ref = [t \in Temps |-> IF t = d THEN n ELSE l[t]]
               /\ \A t \in Temps \ {d} : l[t] > 0 => Held(c, t) /\ c.ref[t] = l[t]
<1> DEFINE c == CreateTemp(m, d, n)
<1>1. /\ c.reg = [m.reg EXCEPT ![d] = NULL] /\ c.needwb = [m.needwb EXCEPT ![d] = FALSE]
      /\ c.ref = [m.ref EXCEPT ![d] = n] /\ c.mval = [m.mval EXCEPT ![d] = FALSE]
      /\ c.wide = m.wide \ {d}
      /\ c.link = m.link /\ c.used = m.used /\ c.rval = m.rval /\ c.wrong = m.wrong
      /\ c \in Machine
  BY DEF CreateTemp, MachineInv, Base, Machine
<1> HIDE DEF c
<1>2. /\ c.reg[d] = NULL
      /\ c.ref[d] = n
      /\ \A t \in Temps \ {d} : /\ c.reg[t] = m.reg[t] /\ c.needwb[t] = m.needwb[t]
                                /\ c.ref[t] = m.ref[t] /\ c.mval[t] = m.mval[t]
  BY <1>1 DEF MachineInv, Base, Machine
<1>3. Base(c)
  <2>1. \A r \in Regs : \A t \in m.link[r] : t \in Temps \ {d}
    BY DEF MachineInv, Base, Machine
  <2>2. \A r \in Regs : \A t \in c.link[r] : c.reg[t] = r
    BY <1>1, <1>2, <2>1 DEF MachineInv, Base
  <2> QED BY <1>1, <2>2 DEF MachineInv, Base
<1>4. \A t \in Temps \ {d} : l[t] > 0 => Held(c, t) /\ c.ref[t] = l[t]
  BY <1>1, <1>2 DEF MachineInv, Held
<1>5. c.ref = [t \in Temps |-> IF t = d THEN n ELSE l[t]]
  <2>1. c.ref \in [Temps -> Int]
    BY <1>1 DEF Machine
  <2>2. \A t \in Temps : c.ref[t] = IF t = d THEN n ELSE l[t]
    BY <1>2 DEF MachineInv
  <2> QED BY <2>1, <2>2
<1> QED BY <1>1, <1>2, <1>3, <1>4, <1>5 DEF MachineInv, c

\* What an emitter leaves is right for the next instruction.
LEMMA InstLemma ==
    ASSUME NEW m, NEW n, NEW l, NEW d, NEW k \in Int, NEW S, NEW keep,
           Emitted(m, n, d, S),
           m.ref \in [Temps -> Int],
           d \in Temps => m.ref[d] = k + 1,
           \A t \in Temps \ {d} : m.ref[t] = l[t] /\ (l[t] > 0 => Held(m, t))
    PROVE  LET e == NextInst(Decrement(n, {d} \cup S), keep)
           IN  /\ MachineInv(e, [t \in Temps |->
                      IF t = d THEN k ELSE IF t \in S THEN l[t] - 1 ELSE l[t]])
               /\ e.link = n.link
               /\ d \in Temps /\ keep = d /\ Held(n, d) => CanRead(e, d)
<1> DEFINE c == Decrement(n, {d} \cup S)
           e == NextInst(c, keep)
           k2 == [t \in Temps |-> IF t = d THEN k ELSE IF t \in S THEN l[t] - 1 ELSE l[t]]
<1>1. Base(n) /\ n.ref = m.ref
  BY DEF Emitted
<1>2. /\ Base(c) /\ SameLists(n, c)
      /\ c.ref = [t \in Temps |-> IF t \in {d} \cup S THEN n.ref[t] - 1 ELSE n.ref[t]]
      /\ \A t \in Temps : Held(n, t) /\ (t \in {d} \cup S => n.ref[t] > 1) => Held(c, t)
      /\ \A p : CanRead(n, p) => CanRead(c, p)
  BY <1>1, DecrementLemma
<1> HIDE DEF c
<1>3. /\ Base(e)
      /\ e.used = {} /\ e.ref = c.ref /\ e.link = c.link
      /\ \A t \in Temps : Held(c, t) => Held(e, t)
      /\ /\ keep \in Temps /\ CanRead(c, keep)
         /\ c.reg[keep] # NULL => keep \in c.link[c.reg[keep]]
         => CanRead(e, keep)
  BY <1>2, NextInstLemma
<1> HIDE DEF e
<1>4. c.ref = k2
  <2>1. \A t \in Temps : c.ref[t] = k2[t]
    BY <1>1, <1>2
  <2> QED BY <1>2, <2>1
<1>5. ASSUME NEW t \in Temps, k2[t] > 0 PROVE Held(e, t)
  <2>1. CASE t = d
    <3>1. Held(n, t) /\ n.ref[t] > 1
      BY <1>1, <1>5, <2>1 DEF Emitted
    <3> QED BY <1>2, <1>3, <3>1
  <2>2. CASE t # d
    <3>1. l[t] > 0 /\ (t \in S => m.ref[t] > 1) /\ m.ref[t] \in Int
      BY <1>5, <2>2
    <3>2. Held(n, t)
      BY <2>2, <3>1 DEF Emitted
    <3> QED BY <1>1, <1>2, <1>3, <2>2, <3>1, <3>2
  <2> QED BY <2>1, <2>2
<1>6. d \in Temps /\ keep = d /\ Held(n, d) => CanRead(e, d)
  <2> SUFFICES ASSUME d \in Temps, keep = d, Held(n, d) PROVE CanRead(e, d)
    OBVIOUS
  <2>1. CanRead(c, d)
    BY <1>2, HeldCanRead
  <2>2. c.reg[d] # NULL => d \in c.link[c.reg[d]]
    BY <1>2 DEF Held, SameLists
  <2> QED BY <1>3, <2>1, <2>2
<1> QED BY <1>2, <1>3, <1>4, <1>5, <1>6 DEF MachineInv, SameLists, c, e

-----------------------------------------------------------------------------
(* EmitAssign                                                               *)

\* An instruction's result is held afterwards.
LEMMA ResultLemma ==
    ASSUME NEW m, Base(m), NEW d \in Operands,
           d \in Temps /\ m.reg[d] # NULL => d \in m.link[m.reg[d]]
    PROVE  LET n == Result(m, d)
           IN  /\ Base(n) /\ SameTemps(m, n)
               /\ n.link = m.link /\ n.reg = m.reg /\ n.used = m.used
               /\ \A t \in Temps \ {d} : Held(m, t) => Held(n, t)
               /\ d \in Temps /\ m.ref[d] > 0 => Held(n, d)
               /\ d \in Temps /\ n.reg[d] # NULL => n.rval[n.reg[d]] = d
<1>1. CASE d \notin Temps
  BY <1>1 DEF Result, Write, ModifyVar, SameTemps
<1>2. CASE d \in Temps
  <2> DEFINE w == Write(m, d)
             n == ModifyVar(w, d)
  <2>1. /\ Base(w) /\ SameTemps(m, w)
        /\ w.link = m.link /\ w.reg = m.reg /\ w.used = m.used
        /\ w.reg[d] = NULL => w.mval[d]
        /\ w.reg[d] # NULL => w.rval[w.reg[d]] = d
        /\ \A t \in Temps \ {d} : Held(m, t) => Held(w, t)
    BY <1>2, WriteLemma
  <2> HIDE DEF w
  <2>2. /\ Base(n) /\ SameTemps(w, n)
        /\ n.link = w.link /\ n.reg = w.reg /\ n.used = w.used
        /\ n.rval = w.rval
    BY <1>2, <2>1, ModifyVarLemma
  <2>3. /\ \A t \in Temps \ {d} : Held(w, t) => Held(n, t)
        /\ w.ref[d] > 0 => Held(n, d)
    BY <1>2, <2>1, ModifyHeld
  <2> QED BY <1>2, <2>1, <2>2, <2>3 DEF Result, SameTemps, w
<1> QED BY <1>1, <1>2

\* DST holds SRC1 before the operation; only DST's register was loaded.
LEMMA PutDstLemma ==
    ASSUME NEW m, Base(m), NEW d \in Temps, m.reg[d] = NULL,
           NEW s1 \in Operands \ {d}, s1 \in Temps => Held(m, s1),
           \E i \in Regs : i \notin m.used
    PROVE  LET n == PutDst(m, d, s1)
           IN  /\ Base(n) /\ SameTemps(m, n)
               /\ n.reg[d] \in Regs /\ d \in n.link[n.reg[d]]
               /\ n.reg[d] \notin m.used \/ (s1 \in Temps /\ n.reg[d] = m.reg[s1])
               /\ \A q \in Regs : q # n.reg[d] => n.rval[q] = m.rval[q]
               /\ \A t \in Temps \ {d} :
                    Held(m, t) /\ (t = s1 => m.ref[t] > 1) => Held(n, t)
<1> DEFINE a == AllocateDst(m, d, s1)
           n == PutDst(m, d, s1)
<1>1. n = IF s1 \in Temps /\ a.reg[d] = a.reg[s1] THEN Use(a, s1) ELSE Load(a, a.reg[d], s1)
  BY DEF PutDst
<1>2. /\ Base(a) /\ SameTemps(m, a)
      /\ a.rval = m.rval
      /\ a.reg[d] \in Regs /\ d \in a.link[a.reg[d]]
      /\ a.reg[d] \notin m.used \/ a.reg[d] = m.reg[d]
           \/ (s1 \in Temps /\ a.reg[d] = m.reg[s1] /\ Held(m, s1))
      /\ s1 \in Temps /\ Held(m, s1) => CanRead(a, s1)
      /\ \A t \in Temps \ {d} : Held(m, t) /\ (t = s1 => m.ref[t] > 1) => Held(a, t)
      /\ s1 \in Temps /\ Held(m, s1) => a.reg[s1] = a.reg[d] \/ Held(a, s1)
  BY AllocateDstLemma
<1> HIDE DEF a, n
<1>3. CanRead(a, s1)
  BY <1>2 DEF CanRead, Holds
<1>4. \A t \in Temps \ {d} : Held(a, t) => a.reg[t] # a.reg[d]
  BY <1>2, RegAllocAssumption DEF Held, Base
<1>5. CASE s1 \in Temps /\ a.reg[d] = a.reg[s1]
  <2>1. /\ Base(n) /\ SameTemps(a, n) /\ SameLists(a, n)
        /\ n.rval = a.rval
        /\ \A t \in Temps : Held(a, t) => Held(n, t)
    BY <1>1, <1>2, <1>3, <1>5, UseLemma
  <2> QED BY <1>2, <2>1, RegAllocAssumption DEF SameTemps, SameLists, n
<1>6. CASE ~(s1 \in Temps /\ a.reg[d] = a.reg[s1])
  <2>1. /\ Base(n) /\ SameTemps(a, n) /\ SameLists(a, n)
        /\ \A q \in Regs \ {a.reg[d]} : n.rval[q] = a.rval[q]
        /\ \A t \in Temps : Held(a, t) /\ a.reg[t] # a.reg[d] => Held(n, t)
    BY <1>1, <1>2, <1>3, <1>6, LoadLemma
  <2> QED BY <1>2, <1>4, <2>1, RegAllocAssumption DEF SameTemps, SameLists, n
<1> QED BY <1>5, <1>6

\* An emitter starts with no register claimed, and d in none.
Ready(m, d) ==
    /\ Base(m)
    /\ m.used = {}
    /\ d \in Temps => m.reg[d] = NULL

\* Three registers are enough for an instruction's operands.
LEMMA TwoUsed ==
    ASSUME NEW x, NEW y
    PROVE  \E i \in Regs : i \notin {x, y} /\ i <= EDX /\ i <= EDI
<1>1. EAX \in Regs /\ ECX \in Regs /\ EDX \in Regs
  BY RegAllocAssumption
<1>2. EAX # ECX /\ EAX # EDX /\ ECX # EDX
  BY DEF EAX, ECX, EDX
<1>3. \A i \in {EAX, ECX, EDX} : i <= EDX /\ i <= EDI
  BY DEF EAX, ECX, EDX, EDI
<1> QED BY <1>1, <1>2, <1>3

\* ADD, SUB, MUL, AND, OR, XOR.
LEMMA BinaryLemma ==
    ASSUME NEW m, NEW d \in Temps, Ready(m, d),
           NEW s1 \in Operands \ {d}, NEW s2 \in Operands \ {d},
           s1 \in Temps => Held(m, s1) /\ s1 # s2, s2 \in Temps => Held(m, s2)
    PROVE  Emitted(m, BinaryCode(m, d, s1, s2), d, {s1, s2})
<1> DEFINE a == AllocateSrc(m, s1)
           b == AllocateSrc(a, s2)
           p == PutDst(b, d, s1)
           u == Use(p, s2)
           n == Result(u, d)
<1>1. Base(m) /\ m.used = {} /\ m.reg[d] = NULL
  BY DEF Ready
<1>2. /\ Base(a) /\ SameTemps(m, a)
      /\ s1 \notin Temps => a = m
      /\ s1 \in Temps => a.used = m.used \cup {a.reg[s1]}
      /\ \A t \in Temps \ {s1} : a.reg[t] \in {m.reg[t], NULL}
      /\ \A t \in Temps : Held(m, t) => Held(a, t)
  <2>1. \E i \in Regs : i \notin m.used
    BY <1>1, TwoUsed
  <2> QED BY <1>1, <2>1, AllocateSrcLemma
<1> HIDE DEF a
<1>3. \E x : a.used \in SUBSET {x}
  BY <1>1, <1>2
<1>4. /\ Base(b) /\ SameTemps(a, b)
      /\ s2 \notin Temps => b = a
      /\ s2 \in Temps => b.used = a.used \cup {b.reg[s2]}
      /\ \A t \in Temps \ {s2} : b.reg[t] \in {a.reg[t], NULL}
      /\ \A t \in Temps : Held(a, t) => Held(b, t)
  <2>1. \E i \in Regs : i \notin a.used
    BY <1>3, TwoUsed
  <2> QED BY <1>2, <2>1, AllocateSrcLemma
<1> HIDE DEF b
<1>5. \E x, y : b.used \in SUBSET {x, y}
  BY <1>3, <1>4
<1>6. b.reg[d] = NULL /\ (s1 \in Temps => Held(b, s1))
  BY <1>1, <1>2, <1>4
<1>7. /\ Base(p) /\ SameTemps(b, p)
      /\ p.reg[d] \in Regs /\ d \in p.link[p.reg[d]]
      /\ \A t \in Temps \ {d} :
           Held(b, t) /\ (t = s1 => b.ref[t] > 1) => Held(p, t)
  <2>1. \E i \in Regs : i \notin b.used
    BY <1>5, TwoUsed
  <2> QED BY <1>4, <1>6, <2>1, PutDstLemma
<1> HIDE DEF p
<1>8. CanRead(p, s2)
  <2>1. s2 \in Temps => Held(p, s2)
    BY <1>2, <1>4, <1>7
  <2> QED BY <2>1, HeldCanRead
<1>9. /\ Base(u)
      /\ SameTemps(p, u) /\ SameLists(p, u)
      /\ \A t \in Temps : Held(p, t) => Held(u, t)
  BY <1>7, <1>8, UseLemma
<1> HIDE DEF u
<1>10. /\ Base(n) /\ SameTemps(u, n)
       /\ \A t \in Temps \ {d} : Held(u, t) => Held(n, t)
       /\ u.ref[d] > 0 => Held(n, d)
  <2>1. d \in u.link[u.reg[d]] /\ d \in Operands
    BY <1>7, <1>9 DEF SameLists, Operands
  <2> QED BY <1>9, <2>1, ResultLemma
<1> HIDE DEF n
<1>11. n = BinaryCode(m, d, s1, s2)
  BY DEF n, u, p, b, a, BinaryCode
<1>12. n.ref = m.ref /\ b.ref = m.ref /\ u.ref = m.ref
  BY <1>2, <1>4, <1>7, <1>9, <1>10 DEF SameTemps
<1>13. Emitted(m, n, d, {s1, s2})
  BY <1>2, <1>4, <1>7, <1>9, <1>10, <1>12 DEF Emitted
<1> QED BY <1>11, <1>13

\* NEG and COMP.
LEMMA UnaryLemma ==
    ASSUME NEW m, NEW d \in Temps, Ready(m, d),
           NEW s1 \in Operands \ {d}, s1 \in Temps => Held(m, s1)
    PROVE  Emitted(m, UnaryCode(m, d, s1), d, {s1})
<1> DEFINE a == AllocateSrc(m, s1)
           p == PutDst(a, d, s1)
           n == Result(p, d)
<1>1. Base(m) /\ m.used = {} /\ m.reg[d] = NULL
  BY DEF Ready
<1>2. /\ Base(a) /\ SameTemps(m, a)
      /\ s1 \notin Temps => a = m
      /\ s1 \in Temps => a.used = m.used \cup {a.reg[s1]}
      /\ \A t \in Temps \ {s1} : a.reg[t] \in {m.reg[t], NULL}
      /\ \A t \in Temps : Held(m, t) => Held(a, t)
  <2>1. \E i \in Regs : i \notin m.used
    BY <1>1, TwoUsed
  <2> QED BY <1>1, <2>1, AllocateSrcLemma
<1> HIDE DEF a
<1>3. \E x : a.used \in SUBSET {x}
  BY <1>1, <1>2
<1>4. a.reg[d] = NULL /\ (s1 \in Temps => Held(a, s1))
  BY <1>1, <1>2
<1>5. /\ Base(p) /\ SameTemps(a, p)
      /\ p.reg[d] \in Regs /\ d \in p.link[p.reg[d]]
      /\ \A t \in Temps \ {d} :
           Held(a, t) /\ (t = s1 => a.ref[t] > 1) => Held(p, t)
  <2>1. \E i \in Regs : i \notin a.used
    BY <1>3, TwoUsed
  <2> QED BY <1>2, <1>4, <2>1, PutDstLemma
<1> HIDE DEF p
<1>6. /\ Base(n) /\ SameTemps(p, n)
      /\ \A t \in Temps \ {d} : Held(p, t) => Held(n, t)
      /\ p.ref[d] > 0 => Held(n, d)
  BY <1>5, ResultLemma DEF Operands
<1> HIDE DEF n
<1>7. n = UnaryCode(m, d, s1)
  BY DEF n, p, a, UnaryCode
<1>8. n.ref = m.ref /\ a.ref = m.ref /\ p.ref = m.ref
  BY <1>2, <1>5, <1>6 DEF SameTemps
<1>9. Emitted(m, n, d, {s1})
  BY <1>2, <1>5, <1>6, <1>8 DEF Emitted
<1> QED BY <1>7, <1>9

\* SpillReg of one register, whether or not the register file has it.
LEMMA SpillOneLemma ==
    ASSUME NEW m, Base(m), NEW r
    PROVE  LET n == SpillReg(m, r)
           IN  /\ Base(n) /\ SameTemps(m, n)
               /\ n.rval = m.rval /\ n.used = m.used
               /\ r \in Regs => n.link[r] = {}
               /\ \A q \in Regs : m.link[q] = {} => n.link[q] = {}
               /\ \A t \in Temps : n.reg[t] \in {m.reg[t], NULL}
               /\ \A t \in Temps : Held(m, t) => Held(n, t)
<1> DEFINE n == SpillReg(m, r)
<1>1. n = SpillRegs(m, {r} \cap Regs) /\ {r} \cap Regs \in SUBSET Regs
  BY DEF SpillReg
<1> HIDE DEF n
<1>2. /\ Base(n) /\ SameTemps(m, n)
      /\ n.rval = m.rval /\ n.used = m.used
      /\ \A q \in {r} \cap Regs : n.link[q] = {}
      /\ \A q \in Regs \ ({r} \cap Regs) : n.link[q] = m.link[q]
      /\ \A t \in Temps : n.reg[t] \in {m.reg[t], NULL}
      /\ \A t \in Temps : Held(m, t) => Held(n, t)
  BY <1>1, SpillRegsLemma
<1> QED BY <1>2 DEF n

\* Claiming registers for the instruction, or releasing them, moves no value.
LEMMA UsedLemma ==
    ASSUME NEW m, Base(m), NEW R \in SUBSET Regs
    PROVE  LET n == [m EXCEPT !.used = R]
           IN  /\ Base(n) /\ SameTemps(m, n)
               /\ n.rval = m.rval /\ n.used = R /\ n.link = m.link /\ n.reg = m.reg
               /\ \A t \in Temps : Held(m, t) => Held(n, t)
<1> DEFINE n == [m EXCEPT !.used = R]
<1>1. /\ n \in Machine /\ n.used = R
      /\ n.link = m.link /\ n.reg = m.reg /\ n.needwb = m.needwb /\ n.ref = m.ref
      /\ n.rval = m.rval /\ n.mval = m.mval /\ n.wide = m.wide /\ n.wrong = m.wrong
  BY DEF Base, Machine
<1> HIDE DEF n
<1> QED BY <1>1 DEF Base, Held, SameTemps, n

\* A register that was loaded with p and not overwritten since is read as p.
LEMMA UseRegLemma ==
    ASSUME NEW m, Base(m), NEW r, NEW p, m.rval[r] = p \/ p \in m.wide
    PROVE  LET n == UseReg(m, r, p)
           IN  /\ Base(n) /\ SameTemps(m, n) /\ SameLists(m, n)
               /\ n.rval = m.rval
               /\ \A t \in Temps : Held(m, t) => Held(n, t)
<1>1. UseReg(m, r, p) = m
      \/ UseReg(m, r, p) = [m EXCEPT !.wrong = @ \cup {"widened"}]
  BY DEF UseReg, Blame
<1> QED BY <1>1, FaultLemma DEF SameTemps, SameLists

\* A held temporary is the only one on its register's list.
LEMMA HeldAlone ==
    ASSUME NEW m, Base(m), NEW t \in Temps, Held(m, t), m.reg[t] # NULL
    PROVE  m.reg[t] \in Regs /\ m.link[m.reg[t]] = {t}
  BY DEF Base, Machine, Held

\* A variable shift count is in ECX, and SRC1 is not.
LEMMA ShiftCountLemma ==
    ASSUME NEW m, Base(m), NEW s2 \in Operands \ {Const},
           s2 \in Temps => Held(m, s2)
    PROVE  LET n == ShiftCount(m, s2)
           IN  /\ Base(n) /\ SameTemps(m, n)
               /\ n.used = {ECX}
               /\ n.rval[ECX] = s2 \/ s2 \in n.wide
               /\ \A t \in Temps : n.reg[t] \in {m.reg[t], NULL}
               /\ \A t \in Temps : Held(m, t) => Held(n, t)
               /\ \A t \in Temps \ {s2} : Held(m, t) => n.reg[t] # ECX
<1> DEFINE s == SpillReg(m, ECX)
           x == IF s2 \in Temps /\ m.reg[s2] = ECX THEN m ELSE Load(s, ECX, s2)
           n == ShiftCount(m, s2)
<1>1. n = [x EXCEPT !.used = {ECX}] /\ ECX \in Regs /\ ECX # NULL
  BY RegAllocAssumption DEF ShiftCount
<1>2. /\ Base(x) /\ SameTemps(m, x)
      /\ x.rval[ECX] = s2 \/ s2 \in x.wide
      /\ \A t \in Temps : x.reg[t] \in {m.reg[t], NULL}
      /\ \A t \in Temps : Held(m, t) => Held(x, t)
      /\ \A t \in Temps \ {s2} : Held(m, t) => x.reg[t] # ECX
  <2>1. CASE s2 \in Temps /\ m.reg[s2] = ECX
    <3>1. x = m
      BY <2>1
    <3>2. m.rval[ECX] = s2 \/ s2 \in m.wide
      BY <1>1, <2>1 DEF Held
    <3>3. \A t \in Temps \ {s2} : Held(m, t) => m.reg[t] # ECX
      BY <1>1, <2>1, HeldAlone
    <3> QED BY <3>1, <3>2, <3>3 DEF SameTemps
  <2>2. CASE ~(s2 \in Temps /\ m.reg[s2] = ECX)
    <3>1. x = Load(s, ECX, s2)
      BY <2>2
    <3>2. /\ Base(s) /\ SameTemps(m, s)
          /\ s.link[ECX] = {}
          /\ \A t \in Temps : s.reg[t] \in {m.reg[t], NULL}
          /\ \A t \in Temps : Held(m, t) => Held(s, t)
      BY <1>1, SpillOneLemma
    <3> HIDE DEF s, x
    <3>3. CanRead(s, s2)
      BY <3>2, HeldCanRead
    <3>4. \A t \in Temps : Held(s, t) => s.reg[t] # ECX
      BY <1>1, <3>2, EmptyLemma
    <3>5. /\ Base(x)
          /\ SameTemps(s, x) /\ SameLists(s, x)
          /\ s2 \in s.wide \/ x.rval[ECX] = s2
          /\ \A t \in Temps : Held(s, t) /\ s.reg[t] # ECX => Held(x, t)
      BY <1>1, <3>1, <3>2, <3>3, LoadLemma
    <3> QED BY <3>2, <3>4, <3>5 DEF SameTemps, SameLists
  <2> QED BY <2>1, <2>2
<1> HIDE DEF x, n
<1>3. /\ Base(n) /\ SameTemps(x, n)
      /\ n.rval = x.rval /\ n.used = {ECX} /\ n.link = x.link /\ n.reg = x.reg
      /\ \A t \in Temps : Held(x, t) => Held(n, t)
  BY <1>1, <1>2, UsedLemma
<1> QED BY <1>2, <1>3 DEF SameTemps, n

\* SHL and SHR: whatever DST is allocated, ECX still holds the count.
LEMMA ShiftLemma ==
    ASSUME NEW m, NEW d \in Temps, Ready(m, d),
           NEW s1 \in Operands \ {d}, NEW s2 \in Operands \ {d},
           s1 \in Temps => Held(m, s1) /\ s1 # s2, s2 \in Temps => Held(m, s2)
    PROVE  Emitted(m, ShiftCode(m, d, s1, s2), d, {s1, s2})
<1> DEFINE a == AllocateSrc(m, s1)
           c == ShiftCount(a, s2)
           p == PutDst(c, d, s1)
           u == IF s2 = Const THEN p ELSE UseReg(p, ECX, s2)
           n == Result(u, d)
<1>1. Base(m) /\ m.used = {} /\ m.reg[d] = NULL
  BY DEF Ready
<1>2. /\ Base(a) /\ SameTemps(m, a)
      /\ s1 \notin Temps => a = m
      /\ s1 \in Temps => a.used = m.used \cup {a.reg[s1]}
      /\ \A t \in Temps \ {s1} : a.reg[t] \in {m.reg[t], NULL}
      /\ \A t \in Temps : Held(m, t) => Held(a, t)
  <2>1. \E i \in Regs : i \notin m.used
    BY <1>1, TwoUsed
  <2> QED BY <1>1, <2>1, AllocateSrcLemma
<1> HIDE DEF a
<1>3. /\ Base(c) /\ SameTemps(a, c)
      /\ \E x : c.used \in SUBSET {x}
      /\ \A t \in Temps : c.reg[t] \in {a.reg[t], NULL}
      /\ \A t \in Temps : Held(a, t) => Held(c, t)
      /\ s2 # Const => /\ c.used = {ECX}
                       /\ c.rval[ECX] = s2 \/ s2 \in c.wide
                       /\ s1 \in Temps => c.reg[s1] # ECX
  <2>1. CASE s2 = Const
    <3>1. c = a
      BY <2>1 DEF ShiftCount
    <3> QED BY <1>1, <1>2, <2>1, <3>1 DEF SameTemps
  <2>2. CASE s2 # Const
    <3>1. /\ Base(c) /\ SameTemps(a, c)
          /\ c.used = {ECX}
          /\ c.rval[ECX] = s2 \/ s2 \in c.wide
          /\ \A t \in Temps : c.reg[t] \in {a.reg[t], NULL}
          /\ \A t \in Temps : Held(a, t) => Held(c, t)
          /\ \A t \in Temps \ {s2} : Held(a, t) => c.reg[t] # ECX
      BY <1>2, <2>2, ShiftCountLemma
    <3> QED BY <1>2, <2>2, <3>1
  <2> QED BY <2>1, <2>2
<1> HIDE DEF c
<1>4. c.reg[d] = NULL /\ (s1 \in Temps => Held(c, s1))
  BY <1>1, <1>2, <1>3
<1>5. /\ Base(p) /\ SameTemps(c, p)
      /\ p.reg[d] \in Regs /\ d \in p.link[p.reg[d]]
      /\ p.reg[d] \notin c.used \/ (s1 \in Temps /\ p.reg[d] = c.reg[s1])
      /\ \A q \in Regs : q # p.reg[d] => p.rval[q] = c.rval[q]
      /\ \A t \in Temps \ {d} :
           Held(c, t) /\ (t = s1 => c.ref[t] > 1) => Held(p, t)
  <2>1. \E i \in Regs : i \notin c.used
    BY <1>3, TwoUsed
  <2> QED BY <1>3, <1>4, <2>1, PutDstLemma
<1> HIDE DEF p
<1>6. s2 # Const => p.rval[ECX] = s2 \/ s2 \in p.wide
  BY <1>3, <1>5, RegAllocAssumption DEF SameTemps
<1>7. /\ Base(u)
      /\ SameTemps(p, u) /\ SameLists(p, u)
      /\ \A t \in Temps : Held(p, t) => Held(u, t)
  <2>1. CASE s2 = Const
    BY <1>5, <2>1 DEF SameTemps, SameLists
  <2>2. CASE s2 # Const
    BY <1>5, <1>6, <2>2, UseRegLemma
  <2> QED BY <2>1, <2>2
<1> HIDE DEF u
<1>8. /\ Base(n) /\ SameTemps(u, n)
      /\ \A t \in Temps \ {d} : Held(u, t) => Held(n, t)
      /\ u.ref[d] > 0 => Held(n, d)
  <2>1. d \in u.link[u.reg[d]] /\ d \in Operands
    BY <1>5, <1>7 DEF SameLists, Operands
  <2> QED BY <1>7, <2>1, ResultLemma
<1> HIDE DEF n
<1>9. n = ShiftCode(m, d, s1, s2)
  BY DEF n, u, p, c, a, ShiftCode
<1>10. n.ref = m.ref /\ c.ref = m.ref /\ u.ref = m.ref
  BY <1>2, <1>3, <1>5, <1>7, <1>8 DEF SameTemps
<1>11. Emitted(m, n, d, {s1, s2})
  BY <1>2, <1>3, <1>5, <1>7, <1>8, <1>10 DEF Emitted
<1> QED BY <1>9, <1>11

\* The dividend is in EAX, EDX is free, and only SRC1 may have lost its register
\* without being stored.
LEMMA DividendLemma ==
    ASSUME NEW m, Base(m), NEW s1 \in Operands, s1 \in Temps => Held(m, s1)
    PROVE  LET n == Dividend(m, s1)
           IN  /\ Base(n) /\ SameTemps(m, n)
               /\ n.used = {EAX, EDX}
               /\ n.link[EAX] = {} /\ n.link[EDX] = {}
               /\ n.rval[EAX] = s1 \/ s1 \in n.wide
               /\ \A t \in Temps : n.reg[t] \in {m.reg[t], NULL}
               /\ \A t \in Temps \ {s1} : Held(m, t) => Held(n, t)
<1> DEFINE c == [m EXCEPT !.needwb[s1] = FALSE]
           s == SpillReg(m, EAX)
           x == IF s1 \in Temps /\ m.reg[s1] = EAX THEN SpillReg(c, EAX)
                ELSE Load(s, EAX, s1)
           y == SpillReg(x, EDX)
           n == Dividend(m, s1)
<1>1. n = [y EXCEPT !.used = {EAX, EDX}] /\ {EAX, EDX} \in SUBSET Regs /\ EAX # NULL
  BY RegAllocAssumption DEF Dividend
<1>2. /\ Base(x) /\ SameTemps(m, x)
      /\ x.link[EAX] = {}
      /\ x.rval[EAX] = s1 \/ s1 \in x.wide
      /\ \A t \in Temps : x.reg[t] \in {m.reg[t], NULL}
      /\ \A t \in Temps \ {s1} : Held(m, t) => Held(x, t)
  <2>1. CASE s1 \in Temps /\ m.reg[s1] = EAX
    <3>1. x = SpillReg(c, EAX)
      BY <2>1
    <3>2. /\ c \in Machine
          /\ c.needwb = [m.needwb EXCEPT ![s1] = FALSE] /\ c.mval = m.mval
          /\ c.link = m.link /\ c.reg = m.reg /\ c.ref = m.ref /\ c.rval = m.rval
          /\ c.used = m.used /\ c.wide = m.wide /\ c.wrong = m.wrong
      BY <2>1 DEF Base, Machine
    <3> HIDE DEF c, x
    <3>3. Base(c)
      BY <3>2 DEF Base
    <3>4. \A t \in Temps \ {s1} : Held(m, t) => Held(c, t)
      <4>1. \A t \in Temps \ {s1} : c.needwb[t] = m.needwb[t]
        BY <3>2 DEF Base, Machine
      <4> QED BY <3>2, <4>1 DEF Held
    <3>5. /\ Base(x) /\ SameTemps(c, x)
          /\ x.rval = c.rval
          /\ x.link[EAX] = {}
          /\ \A t \in Temps : x.reg[t] \in {c.reg[t], NULL}
          /\ \A t \in Temps : Held(c, t) => Held(x, t)
      BY <1>1, <3>1, <3>3, SpillOneLemma
    <3>6. m.rval[EAX] = s1 \/ s1 \in m.wide
      BY <1>1, <2>1 DEF Held
    <3> QED BY <3>2, <3>4, <3>5, <3>6 DEF SameTemps
  <2>2. CASE ~(s1 \in Temps /\ m.reg[s1] = EAX)
    <3>1. x = Load(s, EAX, s1)
      BY <2>2
    <3>2. /\ Base(s) /\ SameTemps(m, s)
          /\ s.link[EAX] = {}
          /\ \A t \in Temps : s.reg[t] \in {m.reg[t], NULL}
          /\ \A t \in Temps : Held(m, t) => Held(s, t)
      BY <1>1, SpillOneLemma
    <3> HIDE DEF s, x
    <3>3. CanRead(s, s1)
      BY <3>2, HeldCanRead
    <3>4. \A t \in Temps : Held(s, t) => s.reg[t] # EAX
      BY <1>1, <3>2, EmptyLemma
    <3>5. /\ Base(x)
          /\ SameTemps(s, x) /\ SameLists(s, x)
          /\ s1 \in s.wide \/ x.rval[EAX] = s1
          /\ \A t \in Temps : Held(s, t) /\ s.reg[t] # EAX => Held(x, t)
      BY <1>1, <3>1, <3>2, <3>3, LoadLemma
    <3> QED BY <3>2, <3>4, <3>5 DEF SameTemps, SameLists
  <2> QED BY <2>1, <2>2
<1> HIDE DEF x
<1>3. /\ Base(y) /\ SameTemps(x, y)
      /\ y.rval = x.rval
      /\ y.link[EDX] = {} /\ y.link[EAX] = {}
      /\ \A t \in Temps : y.reg[t] \in {x.reg[t], NULL}
      /\ \A t \in Temps : Held(x, t) => Held(y, t)
  BY <1>1, <1>2, SpillOneLemma
<1> HIDE DEF y, n
<1>4. /\ Base(n) /\ SameTemps(y, n)
      /\ n.rval = y.rval /\ n.used = {EAX, EDX} /\ n.link = y.link /\ n.reg = y.reg
      /\ \A t \in Temps : Held(y, t) => Held(n, t)
  BY <1>1, <1>3, UsedLemma
<1> QED BY <1>2, <1>3, <1>4 DEF SameTemps, n

\* The divisor can be read, and EAX and EDX are left alone for it.
LEMMA DivisorLemma ==
    ASSUME NEW m, Base(m), m.used = {EAX, EDX},
           NEW s2 \in Operands, s2 \in Temps => Held(m, s2)
    PROVE  LET n == Divisor(m, s2)
           IN  /\ Base(n) /\ SameTemps(m, n)
               /\ CanRead(n, s2)
               /\ \A q \in {EAX, EDX} : n.rval[q] = m.rval[q] /\ n.link[q] = m.link[q]
               /\ \A t \in Temps \ {s2} : n.reg[t] \in {m.reg[t], NULL}
               /\ \A t \in Temps : Held(m, t) => Held(n, t)
<1> DEFINE n == Divisor(m, s2)
<1>1. \E i \in Regs : i <= EDI /\ i \notin m.used
  BY TwoUsed
<1>2. CASE s2 = Const
  <2>1. n = GetRegInternal(m, EDI)
    BY <1>2 DEF Divisor, GetReg
  <2> HIDE DEF n
  <2>2. /\ Base(n)
        /\ \A t \in Temps : Held(m, t) => Held(n, t)
        /\ SameTemps(m, n)
        /\ n.rval = m.rval
        /\ \A q \in Regs \ {PickReg(m, EDI)} : n.link[q] = m.link[q]
        /\ PickReg(m, EDI) \notin m.used
        /\ \A t \in Temps : n.reg[t] \in {m.reg[t], NULL}
    BY <1>1, <2>1, GetRegLemma
  <2>3. CanRead(n, s2)
    BY <2>2, HeldCanRead
  <2>4. \A q \in {EAX, EDX} : q \in Regs \ {PickReg(m, EDI)}
    BY <2>2, RegAllocAssumption
  <2> QED BY <2>2, <2>3, <2>4 DEF n
<1>3. CASE s2 # Const
  <2>1. n = AllocateSrc(m, s2)
    BY <1>3 DEF Divisor
  <2> HIDE DEF n
  <2>2. /\ Base(n) /\ SameTemps(m, n)
        /\ \A t \in Temps \ {s2} : n.reg[t] \in {m.reg[t], NULL}
        /\ \A q \in m.used : n.rval[q] = m.rval[q] /\ n.link[q] = m.link[q]
        /\ \A t \in Temps : Held(m, t) => Held(n, t)
    BY <1>1, <2>1, AllocateSrcLemma
  <2>3. CanRead(n, s2)
    BY <2>2, HeldCanRead
  <2> QED BY <2>2, <2>3 DEF n
<1> QED BY <1>2, <1>3

\* DIV, MOD and MULU4.
LEMMA DivideLemma ==
    ASSUME NEW m, NEW d \in Temps, Ready(m, d),
           NEW s1 \in Operands \ {d}, NEW s2 \in Operands \ {d},
           NEW result \in {EAX, EDX},
           s1 \in Temps => Held(m, s1) /\ s1 # s2 /\ m.ref[s1] = 1,
           s2 \in Temps => Held(m, s2)
    PROVE  Emitted(m, DivideCode(m, d, s1, s2, result), d, {s1, s2})
<1> DEFINE a == Dividend(m, s1)
           b == Divisor(a, s2)
           c == Clobber(b, {EDX})
           u == Use(c, s2)
           v == UseReg(u, EAX, s1)
           q == Clobber(v, {EAX})
           p == AddVarToReg(q, result, d)
           n == Result(p, d)
<1>1. Base(m) /\ m.reg[d] = NULL /\ EAX \in Regs /\ EDX \in Regs /\ EAX # EDX
  BY RegAllocAssumption DEF Ready, EAX, EDX
<1>2. /\ Base(a) /\ SameTemps(m, a)
      /\ a.used = {EAX, EDX}
      /\ a.link[EAX] = {} /\ a.link[EDX] = {}
      /\ a.rval[EAX] = s1 \/ s1 \in a.wide
      /\ \A t \in Temps : a.reg[t] \in {m.reg[t], NULL}
      /\ \A t \in Temps \ {s1} : Held(m, t) => Held(a, t)
  BY <1>1, DividendLemma
<1> HIDE DEF a
<1>3. /\ Base(b) /\ SameTemps(a, b)
      /\ CanRead(b, s2)
      /\ b.rval[EAX] = a.rval[EAX] /\ b.link[EAX] = {} /\ b.link[EDX] = {}
      /\ \A t \in Temps \ {s2} : b.reg[t] \in {a.reg[t], NULL}
      /\ \A t \in Temps : Held(a, t) => Held(b, t)
      /\ s2 \in Temps => Held(b, s2)
  <2>1. s2 \in Temps => Held(a, s2)
    BY <1>2
  <2> QED BY <1>2, <2>1, DivisorLemma
<1> HIDE DEF b
<1>4. /\ Base(c) /\ SameTemps(b, c) /\ SameLists(b, c)
      /\ \A r \in Regs \ {EDX} : c.rval[r] = b.rval[r]
      /\ \A t \in Temps : Held(b, t) => Held(c, t)
  <2>1. \A r \in {EDX} \cap Regs : b.link[r] = {}
    BY <1>3
  <2> QED BY <1>3, <2>1, ClobberLemma
<1> HIDE DEF c
<1>5. /\ Base(u) /\ SameTemps(c, u) /\ SameLists(c, u)
      /\ u.rval = c.rval
      /\ \A t \in Temps : Held(c, t) => Held(u, t)
  <2>1. CanRead(c, s2)
    BY <1>3, <1>4, HeldCanRead
  <2> QED BY <1>4, <2>1, UseLemma
<1> HIDE DEF u
<1>6. u.rval[EAX] = s1 \/ s1 \in u.wide
  <2>1. c.rval[EAX] = b.rval[EAX]
    BY <1>1, <1>4
  <2> QED BY <1>2, <1>3, <1>4, <1>5, <2>1 DEF SameTemps
<1>7. /\ Base(v) /\ SameTemps(u, v) /\ SameLists(u, v)
      /\ \A t \in Temps : Held(u, t) => Held(v, t)
  BY <1>5, <1>6, UseRegLemma
<1> HIDE DEF v
<1>8. v.link[EAX] = {} /\ v.link[EDX] = {}
  BY <1>3, <1>4, <1>5, <1>7 DEF SameLists
<1>9. /\ Base(q) /\ SameTemps(v, q) /\ SameLists(v, q)
      /\ \A t \in Temps : Held(v, t) => Held(q, t)
  <2>1. \A r \in {EAX} \cap Regs : v.link[r] = {}
    BY <1>8
  <2> QED BY <1>7, <2>1, ClobberLemma
<1> HIDE DEF q
<1>10. q.reg[d] = NULL /\ q.link[result] = {} /\ result \in Regs
  BY <1>1, <1>2, <1>3, <1>4, <1>5, <1>7, <1>8, <1>9 DEF SameLists
<1>11. /\ Base(p) /\ SameTemps(q, p)
       /\ p.reg[d] = result /\ p.link[result] = {d}
       /\ \A t \in Temps \ {d} : Held(q, t) => Held(p, t)
  BY <1>9, <1>10, AddVarLemma
<1> HIDE DEF p
<1>12. /\ Base(n) /\ SameTemps(p, n)
       /\ \A t \in Temps \ {d} : Held(p, t) => Held(n, t)
       /\ p.ref[d] > 0 => Held(n, d)
  <2>1. d \in p.link[p.reg[d]] /\ d \in Operands
    BY <1>11 DEF Operands
  <2> QED BY <1>11, <2>1, ResultLemma
<1> HIDE DEF n
<1>13. n = DivideCode(m, d, s1, s2, result)
  BY DEF n, p, q, v, u, c, b, a, DivideCode
<1>14. n.ref = m.ref /\ p.ref = m.ref
  BY <1>2, <1>3, <1>4, <1>5, <1>7, <1>9, <1>11, <1>12 DEF SameTemps
<1>15. \A t \in Temps \ {d, s1} : Held(m, t) => Held(n, t)
  BY <1>2, <1>3, <1>4, <1>5, <1>7, <1>9, <1>11, <1>12
<1>16. s1 \in Temps => ~(m.ref[s1] > 1)
  OBVIOUS
<1>17. Emitted(m, n, d, {s1, s2})
  BY <1>12, <1>14, <1>15, <1>16 DEF Emitted
<1> QED BY <1>13, <1>17

-----------------------------------------------------------------------------
(* EmitMove and what uses it                                                *)

\* A register of the narrow file, or any other, is free for scratch.
LEMMA ScratchLemma ==
    ASSUME NEW m, Base(m), NEW endr, \E i \in Regs : i <= endr /\ i \notin m.used
    PROVE  LET n == Clobber(GetRegInternal(m, endr), {PickReg(m, endr)})
           IN  /\ Base(n) /\ SameTemps(m, n)
               /\ \A t \in Temps : n.reg[t] \in {m.reg[t], NULL}
               /\ \A t \in Temps : Held(m, t) => Held(n, t)
<1> DEFINE r == PickReg(m, endr)
           g == GetRegInternal(m, endr)
           n == Clobber(g, {r})
<1>1. /\ Base(g) /\ SameTemps(m, g)
      /\ g.link[r] = {}
      /\ \A t \in Temps : g.reg[t] \in {m.reg[t], NULL}
      /\ \A t \in Temps : Held(m, t) => Held(g, t)
  BY GetRegLemma
<1> HIDE DEF g, r
<1>2. /\ Base(n) /\ SameTemps(g, n) /\ SameLists(g, n)
      /\ \A t \in Temps : Held(g, t) => Held(n, t)
  <2>1. \A q \in {r} \cap Regs : g.link[q] = {}
    BY <1>1
  <2> QED BY <1>1, <2>1, ClobberLemma
<1> QED BY <1>1, <1>2 DEF SameTemps, SameLists, g, r

\* The operands of a 4-byte move keep every temporary held but the destination
\* and a source read for the last time.
LEMMA MoveOperandsLemma ==
    ASSUME NEW m, Base(m), \E x : m.used \in SUBSET {x},
           NEW d \in Operands, d \in Temps => m.reg[d] = NULL \/ Held(m, d),
           NEW s \in Operands, s \in Temps => Held(m, s) /\ s # d
    PROVE  LET n == MoveOperands(m, d, s)
           IN  /\ Base(n) /\ SameTemps(m, n)
               /\ d \in Temps /\ n.reg[d] # NULL => d \in n.link[n.reg[d]]
               /\ \A t \in Temps \ {d} :
                    Held(m, t) /\ (t = s => m.ref[t] > 1) => Held(n, t)
<1> DEFINE a == AllocateSrc(m, s)
           b == AllocateDst(a, d, s)
           n == MoveOperands(m, d, s)
<1>1. CASE s = Const
  BY <1>1 DEF MoveOperands, SameTemps, Held
<1>2. CASE s # Const
  <2>1. n = IF s \notin Temps /\ d \notin Temps
            THEN Clobber(GetRegInternal(b, EDI), {PickReg(b, EDI)})
            ELSE Use(b, s)
    BY <1>2 DEF MoveOperands, GetReg
  <2>2. /\ Base(a) /\ SameTemps(m, a)
        /\ s \notin Temps => a = m
        /\ s \in Temps => a.used = m.used \cup {a.reg[s]}
        /\ \A t \in Temps \ {s} : a.reg[t] \in {m.reg[t], NULL}
        /\ \A t \in Temps : Held(m, t) => Held(a, t)
    <3>1. \E i \in Regs : i \notin m.used
      BY TwoUsed
    <3> QED BY <3>1, AllocateSrcLemma
  <2> HIDE DEF a
  <2>3. \E x, y : a.used \in SUBSET {x, y}
    BY <2>2
  <2>4. CASE d \in Temps
    <3>1. a.reg[d] # NULL => d \in a.link[a.reg[d]]
      BY <2>2, <2>4 DEF Held
    <3>2. s \in Operands \ {d} /\ (s \in Temps => Held(a, s))
      BY <2>2, <2>4
    <3>3. \E i \in Regs : i \notin a.used
      BY <2>3, TwoUsed
    <3>4. /\ Base(b) /\ SameTemps(a, b)
          /\ d \in b.link[b.reg[d]]
          /\ s \in Temps /\ Held(a, s) => CanRead(b, s)
          /\ \A t \in Temps \ {d} :
               Held(a, t) /\ (t = s => a.ref[t] > 1) => Held(b, t)
      BY <2>2, <2>4, <3>1, <3>2, <3>3, AllocateDstLemma
    <3> HIDE DEF b, n
    <3>5. CanRead(b, s)
      BY <3>2, <3>4 DEF CanRead, Holds
    <3>6. /\ Base(n) /\ SameTemps(b, n) /\ SameLists(b, n)
          /\ \A t \in Temps : Held(b, t) => Held(n, t)
      BY <2>1, <2>4, <3>4, <3>5, UseLemma
    <3> QED BY <2>2, <3>4, <3>6 DEF SameTemps, SameLists, n
  <2>5. CASE d \notin Temps
    <3>1. b = a
      BY <2>5 DEF AllocateDst
    <3> HIDE DEF b, n
    <3>2. CASE s \in Temps
      <4>1. CanRead(a, s)
        BY <2>2, HeldCanRead
      <4>2. /\ Base(n) /\ SameTemps(a, n)
            /\ \A t \in Temps : Held(a, t) => Held(n, t)
        BY <2>1, <2>2, <3>1, <3>2, <4>1, UseLemma
      <4> QED BY <2>2, <2>5, <4>2 DEF SameTemps, n
    <3>3. CASE s \notin Temps
      <4>1. \E i \in Regs : i <= EDI /\ i \notin a.used
        BY <2>3, TwoUsed
      <4>2. /\ Base(n) /\ SameTemps(a, n)
            /\ \A t \in Temps : Held(a, t) => Held(n, t)
        BY <2>1, <2>2, <2>5, <3>1, <3>3, <4>1, ScratchLemma
      <4> QED BY <2>2, <2>5, <4>2 DEF SameTemps, n
    <3> QED BY <3>2, <3>3
  <2> QED BY <2>4, <2>5
<1> QED BY <1>1, <1>2

\* MOV.
LEMMA MoveLemma ==
    ASSUME NEW m, Base(m), m.used = {},
           NEW d \in Operands, d \in Temps => m.reg[d] = NULL \/ Held(m, d),
           NEW s \in Operands, s \in Temps => Held(m, s) /\ s # d
    PROVE  Emitted(m, MoveCode(m, d, s), d, {s})
<1> DEFINE p == MoveOperands(m, d, s)
           n == Result(p, d)
<1>1. /\ Base(p) /\ SameTemps(m, p)
      /\ d \in Temps /\ p.reg[d] # NULL => d \in p.link[p.reg[d]]
      /\ \A t \in Temps \ {d} :
           Held(m, t) /\ (t = s => m.ref[t] > 1) => Held(p, t)
  <2>1. \E x : m.used \in SUBSET {x}
    OBVIOUS
  <2> QED BY <2>1, MoveOperandsLemma
<1> HIDE DEF p
<1>2. /\ Base(n) /\ SameTemps(p, n)
      /\ \A t \in Temps \ {d} : Held(p, t) => Held(n, t)
      /\ d \in Temps /\ p.ref[d] > 0 => Held(n, d)
  BY <1>1, ResultLemma
<1> HIDE DEF n
<1>3. n = MoveCode(m, d, s)
  BY DEF n, p, MoveCode
<1>4. n.ref = m.ref /\ p.ref = m.ref
  BY <1>1, <1>2 DEF SameTemps
<1>5. Emitted(m, n, d, {s})
  BY <1>1, <1>2, <1>4 DEF Emitted
<1> QED BY <1>3, <1>5

\* An instruction that loses no temporary may have read any.
LEMMA KeepLemma ==
    ASSUME NEW m, NEW n, Base(n), SameTemps(m, n),
           \A t \in Temps : Held(m, t) => Held(n, t), NEW S
    PROVE  Emitted(m, n, NULL, S)
  BY RegAllocAssumption DEF Emitted, SameTemps, Operands

\* The narrow moves need a register of their file, and there is one.
LEMMA MoveNarrowLemma ==
    ASSUME NEW m, Base(m), \E x : m.used \in SUBSET {x}, NEW s, NEW endr \in NarrowRegs
    PROVE  LET n == MoveNarrow(m, s, endr)
           IN  /\ Base(n) /\ SameTemps(m, n)
               /\ \A t \in Temps : Held(m, t) => Held(n, t)
<1>1. \E i \in Regs : i <= endr /\ i \notin m.used
  BY TwoUsed DEF NarrowRegs
<1>2. CASE s = Const
  BY <1>2 DEF MoveNarrow, SameTemps
<1>3. CASE s # Const
  BY <1>1, <1>3, ScratchLemma DEF MoveNarrow
<1> QED BY <1>2, <1>3

\* A block move empties three registers, and may then change them.
LEMMA SpillBlockLemma ==
    ASSUME NEW m, Base(m)
    PROVE  LET n == SpillBlockRegs(m)
           IN  /\ Base(n) /\ SameTemps(m, n)
               /\ \A q \in BlockRegs \cap Regs : n.link[q] = {}
               /\ \A t \in Temps : Held(m, t) => Held(n, t)
<1> DEFINE a == SpillReg(m, EDI)
           b == SpillReg(a, ESI)
           n == SpillReg(b, ECX)
<1>1. /\ Base(a) /\ SameTemps(m, a) /\ \A t \in Temps : Held(m, t) => Held(a, t)
      /\ EDI \in Regs => a.link[EDI] = {}
  BY SpillOneLemma
<1> HIDE DEF a
<1>2. /\ Base(b) /\ SameTemps(a, b) /\ \A t \in Temps : Held(a, t) => Held(b, t)
      /\ ESI \in Regs => b.link[ESI] = {}
      /\ \A q \in Regs : a.link[q] = {} => b.link[q] = {}
  BY <1>1, SpillOneLemma
<1> HIDE DEF b
<1>3. /\ Base(n) /\ SameTemps(b, n) /\ \A t \in Temps : Held(b, t) => Held(n, t)
      /\ ECX \in Regs => n.link[ECX] = {}
      /\ \A q \in Regs : b.link[q] = {} => n.link[q] = {}
  BY <1>2, SpillOneLemma
<1> HIDE DEF n
<1>4. \A q \in BlockRegs \cap Regs : n.link[q] = {}
  BY <1>1, <1>2, <1>3 DEF BlockRegs
<1> QED BY <1>1, <1>2, <1>3, <1>4 DEF SpillBlockRegs, SameTemps, n, b, a

\* Nothing held was in the registers it changes.
LEMMA RepMovsbLemma ==
    ASSUME NEW m, Base(m), \A q \in BlockRegs \cap Regs : m.link[q] = {}
    PROVE  LET n == RepMovsb(m)
           IN  /\ Base(n) /\ SameTemps(m, n)
               /\ \A t \in Temps : Held(m, t) => Held(n, t)
  BY ClobberLemma DEF RepMovsb

\* ADDR.
LEMMA AddressLemma ==
    ASSUME NEW m, NEW d \in Temps, Ready(m, d)
    PROVE  Emitted(m, Result(AllocateDst(m, d, Var), d), d, {})
<1> DEFINE a == AllocateDst(m, d, Var)
           n == Result(a, d)
<1>1. Base(m) /\ m.reg[d] = NULL /\ Var \in Operands \ {d} /\ Var \notin Temps
  BY RegAllocAssumption DEF Ready, Operands
<1>2. /\ Base(a) /\ SameTemps(m, a)
      /\ a.reg[d] \in Regs /\ d \in a.link[a.reg[d]]
      /\ \A t \in Temps \ {d} : Held(m, t) /\ (t = Var => m.ref[t] > 1) => Held(a, t)
  <2>1. \E i \in Regs : i \notin m.used
    BY TwoUsed DEF Ready
  <2> QED BY <1>1, <2>1, AllocateDstLemma
<1> HIDE DEF a
<1>3. /\ Base(n) /\ SameTemps(a, n)
      /\ \A t \in Temps \ {d} : Held(a, t) => Held(n, t)
      /\ a.ref[d] > 0 => Held(n, d)
  BY <1>2, ResultLemma DEF Operands
<1> HIDE DEF n
<1>4. n.ref = m.ref /\ a.ref = m.ref
  BY <1>2, <1>3 DEF SameTemps
<1>5. Emitted(m, n, d, {})
  BY <1>1, <1>2, <1>3, <1>4 DEF Emitted
<1> QED BY <1>5 DEF n, a

\* EXT: the result is held only in the sense of a widened temporary.
LEMMA ExtendLemma ==
    ASSUME NEW m, NEW d \in Temps, Ready(m, d)
    PROVE  Emitted(m, [Write(AllocateDst(m, d, Var), d) EXCEPT !.wide = @ \cup {d}], d, {})
<1> DEFINE a == AllocateDst(m, d, Var)
           w == Write(a, d)
           n == [w EXCEPT !.wide = @ \cup {d}]
<1>1. Base(m) /\ m.reg[d] = NULL /\ Var \in Operands \ {d} /\ Var \notin Temps
  BY RegAllocAssumption DEF Ready, Operands
<1>2. /\ Base(a) /\ SameTemps(m, a)
      /\ a.reg[d] \in Regs /\ d \in a.link[a.reg[d]]
      /\ \A t \in Temps \ {d} : Held(m, t) /\ (t = Var => m.ref[t] > 1) => Held(a, t)
  <2>1. \E i \in Regs : i \notin m.used
    BY TwoUsed DEF Ready
  <2> QED BY <1>1, <2>1, AllocateDstLemma
<1> HIDE DEF a
<1>3. /\ Base(w) /\ SameTemps(a, w)
      /\ w.link = a.link /\ w.reg = a.reg
      /\ \A t \in Temps \ {d} : Held(a, t) => Held(w, t)
  BY <1>2, WriteLemma
<1> HIDE DEF w, n
<1>4. /\ n \in Machine /\ n.wide = w.wide \cup {d}
      /\ n.link = w.link /\ n.reg = w.reg /\ n.needwb = w.needwb /\ n.ref = w.ref
      /\ n.used = w.used /\ n.mval = w.mval /\ n.rval = w.rval /\ n.wrong = w.wrong
  BY <1>3 DEF n, Base, Machine
<1>5. Base(n)
  BY <1>3, <1>4 DEF Base
<1>6. \A t \in Temps \ {d} : Held(w, t) => Held(n, t)
  BY <1>4 DEF Held
<1>7. n.ref[d] > 0 => Held(n, d)
  BY <1>2, <1>3, <1>4 DEF Held
<1>8. n.ref = m.ref
  BY <1>2, <1>3, <1>4 DEF SameTemps
<1>9. Emitted(m, n, d, {})
  BY <1>1, <1>2, <1>3, <1>5, <1>6, <1>7, <1>8 DEF Emitted
<1> QED BY <1>9 DEF n, w, a

\* The address of an indirect operand goes to a register.
LEMMA AddressInReg ==
    ASSUME NEW m, Base(m), m.used = {}, NEW a \in Operands, a \in Temps => Held(m, a)
    PROVE  LET p == PutInReg(m, a)
           IN  /\ Base(p) /\ SameTemps(m, p)
               /\ \E x : p.used \in SUBSET {x}
               /\ \A t \in Temps : p.reg[t] \in {m.reg[t], NULL}
               /\ \A t \in Temps : Held(m, t) => Held(p, t)
<1>1. \E i \in Regs : i \notin m.used
  BY TwoUsed
<1>2. CanRead(m, a)
  BY HeldCanRead
<1> QED BY <1>1, <1>2, PutInRegLemma

\* DEREF to a 4-byte temporary.
LEMMA DerefLemma ==
    ASSUME NEW m, NEW d \in Temps, Ready(m, d),
           NEW a \in Operands, a \in Temps => Held(m, a), NEW r
    PROVE  Emitted(m, ModifyVar(Result(UseAddress(
               AllocateDst(PutInReg(m, a), d, Var), a, r), d), d), d, {a})
<1> DEFINE p == PutInReg(m, a)
           b == AllocateDst(p, d, Var)
           u == UseAddress(b, a, r)
           w == Result(u, d)
           n == ModifyVar(w, d)
<1>1. Base(m) /\ m.used = {} /\ m.reg[d] = NULL /\ Var \in Operands \ {d} /\ Var \notin Temps
  BY RegAllocAssumption DEF Ready, Operands
<1>2. /\ Base(p) /\ SameTemps(m, p)
      /\ \E x : p.used \in SUBSET {x}
      /\ p.reg[d] = NULL
      /\ \A t \in Temps : Held(m, t) => Held(p, t)
  BY <1>1, AddressInReg
<1> HIDE DEF p
<1>3. /\ Base(b) /\ SameTemps(p, b)
      /\ b.reg[d] \in Regs /\ d \in b.link[b.reg[d]]
      /\ \A t \in Temps \ {d} : Held(p, t) /\ (t = Var => p.ref[t] > 1) => Held(b, t)
  <2>1. \E i \in Regs : i \notin p.used
    BY <1>2, TwoUsed
  <2> QED BY <1>1, <1>2, <2>1, AllocateDstLemma
<1> HIDE DEF b
<1>4. /\ Base(u) /\ SameTemps(b, u) /\ SameLists(b, u)
      /\ \A t \in Temps : Held(b, t) => Held(u, t)
  BY <1>3, UseAddressLemma
<1> HIDE DEF u
<1>5. /\ Base(w) /\ SameTemps(u, w)
      /\ w.link = u.link /\ w.reg = u.reg
      /\ \A t \in Temps \ {d} : Held(u, t) => Held(w, t)
      /\ w.reg[d] # NULL => w.rval[w.reg[d]] = d
  BY <1>3, <1>4, ResultLemma DEF SameLists, Operands
<1> HIDE DEF w
<1>6. w.reg[d] \in Regs /\ w.reg[d] # NULL /\ d \in w.link[w.reg[d]]
  BY <1>3, <1>4, <1>5, RegAllocAssumption DEF SameLists
<1>7. Base(n) /\ SameTemps(w, n)
  BY <1>5, <1>6, ModifyVarLemma
<1>8. /\ \A t \in Temps \ {d} : Held(w, t) => Held(n, t)
      /\ w.ref[d] > 0 => Held(n, d)
  BY <1>5, <1>6, ModifyHeld
<1> HIDE DEF n
<1>9. n.ref = m.ref /\ w.ref = m.ref
  BY <1>2, <1>3, <1>4, <1>5, <1>7 DEF SameTemps
<1>10. Emitted(m, n, d, {a})
  BY <1>1, <1>2, <1>3, <1>4, <1>5, <1>7, <1>8, <1>9 DEF Emitted
<1> QED BY <1>10 DEF n, w, u, b, p

-----------------------------------------------------------------------------
(* Calls                                                                    *)

\* Pushing an argument reads it, and counts the read.
LEMMA PushArgumentLemma ==
    ASSUME NEW m, Base(m), NEW p \in Args, p \in Temps => Held(m, p)
    PROVE  LET n == PushArgument(m, p)
           IN  /\ Base(n) /\ n.used = m.used
               /\ n.ref = [t \in Temps |-> IF t = p THEN m.ref[t] - 1 ELSE m.ref[t]]
               /\ \A t \in Temps : n.reg[t] \in {m.reg[t], NULL}
               /\ \A t \in Temps : Held(m, t) /\ (t = p => m.ref[t] > 1) => Held(n, t)
<1> DEFINE n == PushArgument(m, p)
<1>1. m.ref = [t \in Temps |-> m.ref[t]]
  BY DEF Base, Machine
<1>2. CASE p = "none"
  BY <1>1, <1>2, X86EmitAssumption DEF PushArgument
<1>3. CASE p = "block"
  <2> DEFINE a == SpillReg(m, ESI)
             b == SpillReg(a, EDI)
             c == SpillReg(b, ECX)
  <2>1. n = Clobber(c, BlockRegs)
    BY <1>3, X86EmitAssumption DEF PushArgument, RepMovsb
  <2>2. /\ Base(a) /\ SameTemps(m, a) /\ a.used = m.used
        /\ ESI \in Regs => a.link[ESI] = {}
        /\ \A t \in Temps : a.reg[t] \in {m.reg[t], NULL}
        /\ \A t \in Temps : Held(m, t) => Held(a, t)
    BY SpillOneLemma
  <2> HIDE DEF a
  <2>3. /\ Base(b) /\ SameTemps(a, b) /\ b.used = a.used
        /\ EDI \in Regs => b.link[EDI] = {}
        /\ \A q \in Regs : a.link[q] = {} => b.link[q] = {}
        /\ \A t \in Temps : b.reg[t] \in {a.reg[t], NULL}
        /\ \A t \in Temps : Held(a, t) => Held(b, t)
    BY <2>2, SpillOneLemma
  <2> HIDE DEF b
  <2>4. /\ Base(c) /\ SameTemps(b, c) /\ c.used = b.used
        /\ ECX \in Regs => c.link[ECX] = {}
        /\ \A q \in Regs : b.link[q] = {} => c.link[q] = {}
        /\ \A t \in Temps : c.reg[t] \in {b.reg[t], NULL}
        /\ \A t \in Temps : Held(b, t) => Held(c, t)
    BY <2>3, SpillOneLemma
  <2> HIDE DEF c
  <2>5. \A q \in BlockRegs \cap Regs : c.link[q] = {}
    BY <2>2, <2>3, <2>4 DEF BlockRegs
  <2> HIDE DEF n
  <2>6. /\ Base(n) /\ SameTemps(c, n) /\ SameLists(c, n)
        /\ \A t \in Temps : Held(c, t) => Held(n, t)
    BY <2>1, <2>4, <2>5, ClobberLemma
  <2>7. p \notin Temps
    BY <1>3, X86EmitAssumption
  <2>8. n.ref = m.ref
    BY <2>2, <2>3, <2>4, <2>6 DEF SameTemps
  <2>9. n.ref = [t \in Temps |-> IF t = p THEN m.ref[t] - 1 ELSE m.ref[t]]
    BY <1>1, <2>7, <2>8
  <2> QED BY <2>2, <2>3, <2>4, <2>6, <2>7, <2>9 DEF SameLists, n
<1>4. CASE p \in Temps
  <2> DEFINE u == Use(m, p)
  <2>1. n = Decrement(u, {p})
    BY <1>4, X86EmitAssumption DEF PushArgument
  <2>2. CanRead(m, p)
    BY HeldCanRead
  <2>3. /\ Base(u) /\ SameTemps(m, u) /\ SameLists(m, u)
        /\ \A t \in Temps : Held(m, t) => Held(u, t)
    BY <2>2, UseLemma
  <2> HIDE DEF u, n
  <2>4. /\ Base(n) /\ SameLists(u, n)
        /\ n.ref = [t \in Temps |-> IF t \in {p} THEN u.ref[t] - 1 ELSE u.ref[t]]
        /\ \A t \in Temps : Held(u, t) /\ (t \in {p} => u.ref[t] > 1) => Held(n, t)
    BY <2>1, <2>3, DecrementLemma
  <2> QED BY <2>3, <2>4 DEF SameTemps, SameLists, n
<1> QED BY <1>2, <1>3, <1>4 DEF Args

\* The call leaves the caller-saved registers to the callee.
LEMMA CallLemma ==
    ASSUME NEW m, Base(m), m.used = {}, NEW f \in Operands, f \in Temps => Held(m, f),
           NEW arg1 \in Args, NEW arg2 \in Args, NEW record \in BOOLEAN,
           arg1 \in Temps => Held(m, arg1), arg2 \in Temps => Held(m, arg2),
           Distinct(arg1, arg2), Distinct(f, arg1), Distinct(f, arg2)
    PROVE  LET n == CallCode(m, f, arg1, arg2, record)
           IN  /\ Base(n)
               /\ \E x : n.used \in SUBSET {x}
               /\ n.ref = [t \in Temps |->
                             IF t \in {arg1, arg2} THEN m.ref[t] - 1 ELSE m.ref[t]]
               /\ \A t \in Temps : n.reg[t] \in {m.reg[t], NULL}
               /\ \A t \in Temps : Held(m, t) /\ (t \in {arg1, arg2} => m.ref[t] > 1)
                                     => Held(n, t)
<1> DEFINE a == PushArgument(m, arg2)
           b == PushArgument(a, arg1)
           x == SpillReg(b, EAX)
           y == SpillReg(x, ECX)
           z == SpillReg(y, EDX)
           g == IF record THEN Clobber(GetRegInternal(z, EDI), {PickReg(z, EDI)}) ELSE z
           u == Use(g, f)
           n == Clobber(u, {EAX, ECX, EDX})
<1>1. CallCode(m, f, arg1, arg2, record) = n
  BY DEF CallCode, GetReg
<1>2. /\ Base(a) /\ a.used = m.used
      /\ a.ref = [t \in Temps |-> IF t = arg2 THEN m.ref[t] - 1 ELSE m.ref[t]]
      /\ \A t \in Temps : a.reg[t] \in {m.reg[t], NULL}
      /\ \A t \in Temps : Held(m, t) /\ (t = arg2 => m.ref[t] > 1) => Held(a, t)
  BY PushArgumentLemma
<1> HIDE DEF a
<1>3. arg1 \in Temps => arg1 # arg2 /\ Held(a, arg1)
  BY <1>2 DEF Distinct
<1>4. /\ Base(b) /\ b.used = a.used
      /\ b.ref = [t \in Temps |-> IF t = arg1 THEN a.ref[t] - 1 ELSE a.ref[t]]
      /\ \A t \in Temps : b.reg[t] \in {a.reg[t], NULL}
      /\ \A t \in Temps : Held(a, t) /\ (t = arg1 => a.ref[t] > 1) => Held(b, t)
  BY <1>2, <1>3, PushArgumentLemma
<1> HIDE DEF b
<1>5. EAX \in Regs /\ ECX \in Regs /\ EDX \in Regs
  BY RegAllocAssumption
<1>6. /\ Base(x) /\ SameTemps(b, x) /\ x.used = b.used /\ x.link[EAX] = {}
      /\ \A t \in Temps : x.reg[t] \in {b.reg[t], NULL}
      /\ \A t \in Temps : Held(b, t) => Held(x, t)
  BY <1>4, <1>5, SpillOneLemma
<1> HIDE DEF x
<1>7. /\ Base(y) /\ SameTemps(x, y) /\ y.used = x.used
      /\ y.link[ECX] = {} /\ y.link[EAX] = {}
      /\ \A t \in Temps : y.reg[t] \in {x.reg[t], NULL}
      /\ \A t \in Temps : Held(x, t) => Held(y, t)
  BY <1>5, <1>6, SpillOneLemma
<1> HIDE DEF y
<1>8. /\ Base(z) /\ SameTemps(y, z) /\ z.used = y.used
      /\ z.link[EDX] = {} /\ z.link[ECX] = {} /\ z.link[EAX] = {}
      /\ \A t \in Temps : z.reg[t] \in {y.reg[t], NULL}
      /\ \A t \in Temps : Held(y, t) => Held(z, t)
  BY <1>5, <1>7, SpillOneLemma
<1> HIDE DEF z
<1>9. z.used = {}
  BY <1>2, <1>4, <1>6, <1>7, <1>8
<1>10. /\ Base(g) /\ SameTemps(z, g)
       /\ \E i : g.used \in SUBSET {i}
       /\ \A r \in {EAX, ECX, EDX} : g.link[r] = {}
       /\ \A t \in Temps : g.reg[t] \in {z.reg[t], NULL}
       /\ \A t \in Temps : Held(z, t) => Held(g, t)
  <2>1. CASE record
    <3> DEFINE r == PickReg(z, EDI)
               h == GetRegInternal(z, EDI)
    <3>1. g = Clobber(h, {r})
      BY <2>1
    <3>2. \E i \in Regs : i <= EDI /\ i \notin z.used
      BY <1>9, TwoUsed
    <3>3. /\ Base(h) /\ SameTemps(z, h)
          /\ h.used = z.used \cup {r} /\ h.link[r] = {}
          /\ \A q \in Regs \ {r} : h.link[q] = z.link[q]
          /\ \A t \in Temps : h.reg[t] \in {z.reg[t], NULL}
          /\ \A t \in Temps : Held(z, t) => Held(h, t)
      BY <1>8, <3>2, GetRegLemma
    <3> HIDE DEF h, r, g
    <3>4. /\ Base(g) /\ SameTemps(h, g) /\ SameLists(h, g)
          /\ \A t \in Temps : Held(h, t) => Held(g, t)
      <4>1. \A q \in {r} \cap Regs : h.link[q] = {}
        BY <3>3
      <4> QED BY <3>1, <3>3, <4>1, ClobberLemma
    <3>5. \A q \in {EAX, ECX, EDX} : h.link[q] = {}
      BY <1>5, <1>8, <3>3
    <3> QED BY <1>9, <3>3, <3>4, <3>5 DEF SameTemps, SameLists
  <2>2. CASE ~record
    <3>1. g = z
      BY <2>2
    <3> QED BY <1>8, <1>9, <3>1 DEF SameTemps
  <2> QED BY <2>1, <2>2
<1> HIDE DEF g
<1>11. CanRead(g, f)
  <2>1. f \in Temps => Held(b, f)
    BY <1>2, <1>4 DEF Distinct
  <2>2. f \in Temps => Held(g, f)
    BY <1>6, <1>7, <1>8, <1>10, <2>1
  <2> QED BY <2>2, HeldCanRead
<1>12. /\ Base(u) /\ SameTemps(g, u) /\ SameLists(g, u)
       /\ \A t \in Temps : Held(g, t) => Held(u, t)
  BY <1>10, <1>11, UseLemma
<1> HIDE DEF u
<1>13. /\ Base(n) /\ SameTemps(u, n) /\ SameLists(u, n)
       /\ \A t \in Temps : Held(u, t) => Held(n, t)
  <2>1. \A r \in {EAX, ECX, EDX} \cap Regs : u.link[r] = {}
    BY <1>10, <1>12 DEF SameLists
  <2> QED BY <1>12, <2>1, ClobberLemma
<1> HIDE DEF n
<1>14. n.ref = b.ref
  BY <1>6, <1>7, <1>8, <1>10, <1>12, <1>13 DEF SameTemps
<1>15. n.ref = [t \in Temps |-> IF t \in {arg1, arg2} THEN m.ref[t] - 1 ELSE m.ref[t]]
  BY <1>2, <1>3, <1>4, <1>14
<1>16. \A t \in Temps : n.reg[t] \in {m.reg[t], NULL}
  BY <1>2, <1>4, <1>6, <1>7, <1>8, <1>10, <1>12, <1>13 DEF SameLists
<1>17. ASSUME NEW t \in Temps, Held(m, t), t \in {arg1, arg2} => m.ref[t] > 1
       PROVE  Held(n, t)
  <2>1. Held(b, t)
    BY <1>2, <1>3, <1>4, <1>17
  <2> QED BY <1>6, <1>7, <1>8, <1>10, <1>12, <1>13, <2>1
<1>18. \E i : n.used \in SUBSET {i}
  BY <1>10, <1>12, <1>13 DEF SameLists
<1> QED BY <1>1, <1>13, <1>15, <1>16, <1>17, <1>18

\* DST takes over the value in EAX.
LEMMA RecvLemma ==
    ASSUME NEW m, Base(m), \E x : m.used \in SUBSET {x}, NEW d \in Temps, m.reg[d] = NULL,
           NEW f \in Operands \ {d}, f \in Temps => m.ref[f] = 0
    PROVE  Emitted(m, RecvCode(m, d, f), d, {})
<1> DEFINE a == AllocateDst(m, d, f)
           n == Result(a, d)
<1>1. /\ Base(a) /\ SameTemps(m, a)
      /\ a.reg[d] \in Regs /\ d \in a.link[a.reg[d]]
      /\ \A t \in Temps \ {d} : Held(m, t) /\ (t = f => m.ref[t] > 1) => Held(a, t)
  <2>1. \E i \in Regs : i \notin m.used
    BY TwoUsed
  <2>2. f \in Temps /\ m.ref[f] = 1 => Held(m, f)
    OBVIOUS
  <2> QED BY <2>1, <2>2, AllocateDstLemma
<1> HIDE DEF a
<1>2. /\ Base(n) /\ SameTemps(a, n)
      /\ \A t \in Temps \ {d} : Held(a, t) => Held(n, t)
      /\ a.ref[d] > 0 => Held(n, d)
  BY <1>1, ResultLemma DEF Operands
<1> HIDE DEF n
<1>3. n.ref = m.ref /\ a.ref = m.ref
  BY <1>1, <1>2 DEF SameTemps
<1>4. \A t \in Temps \ {d} : Held(m, t) => t # f
  BY DEF Held
<1>5. Emitted(m, n, d, {})
  BY <1>1, <1>2, <1>3, <1>4 DEF Emitted
<1> QED BY <1>5 DEF n, a, RecvCode

-----------------------------------------------------------------------------
(* Jumps                                                                    *)

\* A branch reads its operands before the registers are cleared.
LEMMA BranchLemma ==
    ASSUME NEW m, Base(m), m.used = {},
           NEW s1 \in Operands, NEW s2 \in Operands, Distinct(s1, s2),
           s1 \in Temps => Held(m, s1), s2 \in Temps => Held(m, s2)
    PROVE  LET n == BranchCode(m, s1, s2)
           IN  /\ Base(n)
               /\ \A r \in Regs : n.link[r] = {}
               /\ n.ref = [t \in Temps |->
                             IF t \in {s1, s2} THEN m.ref[t] - 1 ELSE m.ref[t]]
               /\ \A t \in Temps : Held(m, t) /\ (t \in {s1, s2} => m.ref[t] > 1)
                                     => Held(n, t)
<1> DEFINE a == Decrement(m, {s1})
           p == PutInReg(a, s1)
           r == PutInRegOf(a, s1)
           b == IF s2 = Const THEN Use(a, s1) ELSE UseReg(p, r, s1)
           u == Use(b, s2)
           c == Decrement(u, {s2})
           n == ClearRegs(c)
<1>1. BranchCode(m, s1, s2) = n
  BY DEF BranchCode
<1>2. /\ Base(a) /\ SameLists(m, a)
      /\ a.ref = [t \in Temps |-> IF t \in {s1} THEN m.ref[t] - 1 ELSE m.ref[t]]
      /\ \A t \in Temps : Held(m, t) /\ (t \in {s1} => m.ref[t] > 1) => Held(a, t)
      /\ CanRead(a, s1)
  <2>1. CanRead(m, s1)
    BY HeldCanRead
  <2> QED BY <2>1, DecrementLemma
<1> HIDE DEF a
<1>3. Base(b) /\ SameTemps(a, b) /\ \A t \in Temps : Held(a, t) => Held(b, t)
  <2>1. CASE s2 = Const
    BY <1>2, <2>1, UseLemma
  <2>2. CASE s2 # Const
    <3>1. b = UseReg(p, r, s1)
      BY <2>2
    <3>2. \E i \in Regs : i \notin a.used
      BY <1>2, TwoUsed DEF SameLists
    <3>3. /\ Base(p) /\ SameTemps(a, p)
          /\ s1 \in a.wide \/ p.rval[r] = s1
          /\ \A t \in Temps : Held(a, t) => Held(p, t)
      BY <1>2, <3>2, PutInRegLemma
    <3> HIDE DEF p, r, b
    <3>4. p.rval[r] = s1 \/ s1 \in p.wide
      BY <3>3 DEF SameTemps
    <3>5. Base(b) /\ SameTemps(p, b) /\ \A t \in Temps : Held(p, t) => Held(b, t)
      BY <3>1, <3>3, <3>4, UseRegLemma
    <3> QED BY <3>3, <3>5 DEF SameTemps
  <2> QED BY <2>1, <2>2
<1> HIDE DEF b
<1>4. s2 \in Temps => s1 # s2 /\ Held(b, s2)
  BY <1>2, <1>3 DEF Distinct
<1>5. Base(u) /\ SameTemps(b, u) /\ \A t \in Temps : Held(b, t) => Held(u, t)
  <2>1. CanRead(b, s2)
    BY <1>4, HeldCanRead
  <2> QED BY <1>3, <2>1, UseLemma
<1> HIDE DEF u
<1>6. /\ Base(c)
      /\ c.ref = [t \in Temps |-> IF t \in {s2} THEN u.ref[t] - 1 ELSE u.ref[t]]
      /\ \A t \in Temps : Held(u, t) /\ (t \in {s2} => u.ref[t] > 1) => Held(c, t)
  BY <1>5, DecrementLemma
<1> HIDE DEF c
<1>7. /\ Base(n) /\ SameTemps(c, n)
      /\ \A q \in Regs : n.link[q] = {}
      /\ \A t \in Temps : Held(c, t) => Held(n, t)
  BY <1>6, SpillRegsLemma DEF ClearRegs
<1> HIDE DEF n
<1>8. n.ref = [t \in Temps |-> IF t \in {s1, s2} THEN m.ref[t] - 1 ELSE m.ref[t]]
  BY <1>2, <1>3, <1>4, <1>5, <1>6, <1>7 DEF SameTemps
<1>9. ASSUME NEW t \in Temps, Held(m, t), t \in {s1, s2} => m.ref[t] > 1
      PROVE  Held(n, t)
  <2>1. Held(u, t)
    BY <1>2, <1>3, <1>5, <1>9
  <2>2. t = s2 => u.ref[t] > 1
    BY <1>2, <1>3, <1>4, <1>5, <1>9 DEF SameTemps
  <2> QED BY <1>6, <1>7, <2>1, <2>2
<1> QED BY <1>1, <1>7, <1>8, <1>9

-----------------------------------------------------------------------------
(* One step                                                                 *)

\* What is left of an action when its effect on the machine is known.
LEMMA MachineStep ==
    ASSUME MachineInv(mach', left'),
           left' \in [Temps -> 0 .. MaxUse + 1],
           pend' \in [Temps -> PendingKinds],
           \A t \in Temps : pend'[t] # "no" => left'[t] > 0,
           index' = NULL \/ (index' \in Temps /\ CanRead(mach', index')),
           boundary' = FALSE \/ (boundary' = TRUE /\ \A r \in Regs : mach'.link[r] = {})
    PROVE  IInv'
<1>1. mach' \in Machine
  BY DEF MachineInv, Base
<1>2. TypeOK'
  BY <1>1 DEF TypeOK
<1>3. BoundaryInMemory'
  <2> SUFFICES ASSUME \A r \in Regs : mach'.link[r] = {},
                      NEW t \in Temps, t \notin mach'.wide, left'[t] > 0
               PROVE  mach'.mval[t]
    BY DEF BoundaryInMemory, Live
  <2>1. Held(mach', t)
    BY DEF MachineInv
  <2>2. mach'.reg[t] \in Regs \cup {NULL}
    BY <1>1 DEF Machine
  <2> QED BY <2>1, <2>2 DEF Held
<1> QED BY <1>2, <1>3 DEF IInv, Live

\* The machine in which a fresh temporary is defined.
LEMMA StartLemma ==
    ASSUME IInv, NEW d \in Temps, Fresh(d), NEW k \in Int
    PROVE  LET m == NewTemp(d, k)
           IN  /\ Ready(m, d)
               /\ m.ref \in [Temps -> Int] /\ m.ref[d] = k + 1
               /\ \A t \in Temps \ {d} :
                    m.ref[t] = left[t] /\ (left[t] > 0 => Held(m, t))
               /\ \A s : Readable(s) => s # d /\ (s \in Temps => Held(m, s))
<1> DEFINE b == Begin(mach)
           m == NewTemp(d, k)
<1>1. m = CreateTemp(b, d, k + 1)
  BY DEF NewTemp
<1>2. MachineInv(b, left) /\ SameLists(mach, b)
  BY BeginLemma DEF IInv
<1>3. left \in [Temps -> Int] /\ ~(left[d] > 0) /\ \A r \in Regs : d \notin b.link[r]
  BY <1>2 DEF IInv, TypeOK, Fresh, Live, SameLists
<1> HIDE DEF b, m
<1>4. /\ Base(m) /\ m.used = {}
      /\ m.reg[d] = NULL
      /\ m.ref = [t \in Temps |-> IF t = d THEN k + 1 ELSE left[t]]
      /\ \A t \in Temps \ {d} : left[t] > 0 => Held(m, t) /\ m.ref[t] = left[t]
  <2> DEFINE c == k + 1
  <2>1. c \in Int /\ m = CreateTemp(b, d, c)
    BY <1>1
  <2> HIDE DEF c
  <2>2. /\ Base(m) /\ m.used = {}
        /\ m.reg[d] = NULL
        /\ m.ref = [t \in Temps |-> IF t = d THEN c ELSE left[t]]
        /\ \A t \in Temps \ {d} : left[t] > 0 => Held(m, t) /\ m.ref[t] = left[t]
    BY <1>2, <1>3, <2>1, CreateTempLemma
  <2> QED BY <2>2 DEF c
<1>5. /\ m.ref \in [Temps -> Int] /\ m.ref[d] = k + 1
      /\ \A t \in Temps \ {d} : m.ref[t] = left[t]
  BY <1>3, <1>4
<1>6. \A s : Readable(s) => s # d /\ (s \in Temps => Held(m, s))
  BY <1>3, <1>4 DEF Readable, Live
<1> QED BY <1>4, <1>5, <1>6 DEF Ready, m

\* The machine in which an instruction without a result is emitted.
LEMMA BeginReady ==
    ASSUME IInv
    PROVE  LET m == Begin(mach)
           IN  /\ Base(m) /\ m.used = {} /\ m.ref = left
               /\ left \in [Temps -> Int]
               /\ \A t \in Temps : left[t] > 0 => Held(m, t)
               /\ \A s : Readable(s) /\ s \in Temps => Held(m, s)
<1>1. MachineInv(Begin(mach), left)
  BY BeginLemma DEF IInv
<1> QED BY <1>1 DEF MachineInv, IInv, TypeOK, Readable, Live

\* An instruction that defines the fresh temporary d.
LEMMA DefineStep ==
    ASSUME IInv, NEW d \in Temps, Fresh(d), NEW k \in 0 .. MaxUse + 1, NEW S, NEW n,
           \A p \in S : Readable(p),
           Emitted(NewTemp(d, k), n, d, S),
           Inst(n, d, k, S),
           InBBlock \/ (SetPending(d, "here") /\ k > 0)
    PROVE  IInv'
<1> DEFINE m == NewTemp(d, k)
<1>1. /\ m.ref \in [Temps -> Int] /\ m.ref[d] = k + 1
      /\ \A t \in Temps \ {d} : m.ref[t] = left[t] /\ (left[t] > 0 => Held(m, t))
  BY StartLemma
<1> HIDE DEF m
<1>2. MachineInv(mach', left')
  <2>1. MachineInv(NextInst(Decrement(n, {d} \cup S), NULL), [t \in Temps |->
            IF t = d THEN k ELSE IF t \in S THEN left[t] - 1 ELSE left[t]])
    BY <1>1, InstLemma DEF m
  <2> QED BY <2>1 DEF Inst
<1>3. left \in [Temps -> 0 .. MaxUse + 1] /\ MaxUse \in Nat /\ pend \in [Temps -> PendingKinds]
  BY X86EmitAssumption DEF IInv, TypeOK
<1>4. \A t \in Temps : t \in S => left[t] > 0 /\ pend[t] = "no"
  BY DEF Readable, Live
<1>5. left' = [t \in Temps |->
                 IF t = d THEN k ELSE IF t \in S THEN left[t] - 1 ELSE left[t]]
  BY DEF Inst
<1>6. left' \in [Temps -> 0 .. MaxUse + 1]
  BY <1>3, <1>4, <1>5
<1>7. pend' \in [Temps -> PendingKinds]
  BY <1>3 DEF InBBlock, SetPending, PendingKinds
<1>8. \A t \in Temps : pend'[t] # "no" => left'[t] > 0
  <2>1. \A t \in Temps : pend[t] # "no" => left[t] > 0
    BY DEF IInv, Live
  <2>2. ~(left[d] > 0)
    BY DEF Fresh, Live
  <2> QED BY <1>3, <1>4, <1>5, <2>1, <2>2 DEF InBBlock, SetPending
<1>9. index' = NULL /\ boundary' = FALSE
  BY DEF Inst, InBBlock, SetPending
<1> QED BY <1>2, <1>6, <1>7, <1>8, <1>9, MachineStep

\* An instruction that defines no temporary.
LEMMA EffectStep ==
    ASSUME IInv, NEW S, NEW n,
           \A p \in S : Readable(p),
           Emitted(Begin(mach), n, NULL, S),
           Inst(n, NULL, 0, S),
           InBBlock \/ (LeaveBBlock /\ \A r \in Regs : n.link[r] = {})
    PROVE  IInv'
<1> DEFINE m == Begin(mach)
<1>1. /\ m.ref = left /\ left \in [Temps -> Int]
      /\ \A t \in Temps : left[t] > 0 => Held(m, t)
  BY BeginReady
<1> HIDE DEF m
<1>2. NULL \notin Temps
  BY RegAllocAssumption DEF Operands
<1>3. left' = [t \in Temps |-> IF t \in S THEN left[t] - 1 ELSE left[t]]
  BY <1>2 DEF Inst
<1>4. MachineInv(mach', left') /\ mach'.link = n.link
  <2> DEFINE d == NULL
             k == 0
             e == NextInst(Decrement(n, {d} \cup S), NULL)
  <2>1. k \in Int /\ d \notin Temps /\ Emitted(m, n, d, S)
    BY <1>2 DEF m
  <2>2. mach' = e /\ left' = [t \in Temps |->
               IF t = d THEN k ELSE IF t \in S THEN left[t] - 1 ELSE left[t]]
    BY DEF Inst
  <2> HIDE DEF d, k
  <2>3. /\ m.ref \in [Temps -> Int]
        /\ d \in Temps => m.ref[d] = k + 1
        /\ \A t \in Temps \ {d} : m.ref[t] = left[t] /\ (left[t] > 0 => Held(m, t))
    BY <1>1, <2>1
  <2>4. /\ MachineInv(e, [t \in Temps |->
               IF t = d THEN k ELSE IF t \in S THEN left[t] - 1 ELSE left[t]])
        /\ e.link = n.link
    BY <2>1, <2>3, InstLemma
  <2> QED BY <2>2, <2>4
<1>5. left \in [Temps -> 0 .. MaxUse + 1] /\ MaxUse \in Nat /\ pend \in [Temps -> PendingKinds]
  BY X86EmitAssumption DEF IInv, TypeOK
<1>6. \A t \in Temps : t \in S => left[t] > 0 /\ pend[t] = "no"
  BY DEF Readable, Live
<1>7. left' \in [Temps -> 0 .. MaxUse + 1]
  BY <1>3, <1>5, <1>6
<1>8. /\ pend' \in [Temps -> PendingKinds]
      /\ \A t \in Temps : pend'[t] # "no" => pend[t] # "no"
  BY <1>5 DEF InBBlock, LeaveBBlock, PendingKinds
<1>9. \A t \in Temps : pend'[t] # "no" => left'[t] > 0
  BY <1>3, <1>6, <1>8 DEF IInv, Live
<1>10. index' = NULL /\ (boundary' = FALSE \/ (boundary' = TRUE /\ \A r \in Regs : n.link[r] = {}))
  BY DEF Inst, InBBlock, LeaveBBlock
<1> QED BY <1>4, <1>7, <1>8, <1>9, <1>10, MachineStep

\* Every emitter that defines a fresh temporary preserves IInv, calls apart.
LEMMA DefinitionStep ==
    ASSUME IInv, NEW d \in Temps, NEW n \in Uses, NEW s1 \in Sources, NEW s2 \in Operands,
           \/ EmitUnary(d, n, s1)
           \/ EmitDeref(d, n, s1)
           \/ EmitBinary(d, n, s1, s2)
           \/ EmitShift(d, n, s1, s2)
           \/ \E result \in {EAX, EDX} : EmitDivide(d, n, s1, s2, result)
           \/ EmitMove(d, n, s2)
           \/ EmitFirstMove(d, n, s2)
           \/ EmitAddress(d, n)
           \/ EmitExtend(d, n)
    PROVE  IInv'
<1> DEFINE m == NewTemp(d, n)
<1>1. /\ n \in Int /\ n \in 0 .. MaxUse + 1 /\ n + 1 \in 0 .. MaxUse + 1 /\ n + 1 \in Int
      /\ Uses = 0 .. MaxUse
  BY X86EmitAssumption DEF Uses
<1>2. s1 \in Operands /\ s2 \in Operands
  BY DEF Sources, Operands
<1>3. Fresh(d)
  BY DEF EmitUnary, EmitDeref, EmitBinary, EmitShift, EmitDivide, EmitMove,
         EmitFirstMove, EmitAddress, EmitExtend, Defines
<1>4. ASSUME NEW k \in Int
      PROVE  /\ Ready(NewTemp(d, k), d)
             /\ \A s : Readable(s) => s # d /\ (s \in Temps => Held(NewTemp(d, k), s))
  BY <1>3, StartLemma
<1>5. CASE EmitUnary(d, n, s1)
  <2>1. Readable(s1) /\ Inst(UnaryCode(m, d, s1), d, n, {s1}) /\ InBBlock
    BY <1>5 DEF EmitUnary, Defines
  <2>2. Emitted(m, UnaryCode(m, d, s1), d, {s1})
    BY <1>1, <1>2, <1>4, <2>1, UnaryLemma
  <2> QED BY <1>1, <1>3, <2>1, <2>2, DefineStep
<1>6. CASE EmitBinary(d, n, s1, s2)
  <2>1. /\ Readable(s1) /\ Readable(s2) /\ (s1 \in Temps => s1 # s2)
        /\ Inst(BinaryCode(m, d, s1, s2), d, n, {s1, s2}) /\ InBBlock
    BY <1>6 DEF EmitBinary, Defines, Distinct
  <2>2. Emitted(m, BinaryCode(m, d, s1, s2), d, {s1, s2})
    BY <1>1, <1>2, <1>4, <2>1, BinaryLemma
  <2> QED BY <1>1, <1>3, <2>1, <2>2, DefineStep
<1>7. CASE EmitShift(d, n, s1, s2)
  <2>1. /\ Readable(s1) /\ Readable(s2) /\ (s1 \in Temps => s1 # s2)
        /\ Inst(ShiftCode(m, d, s1, s2), d, n, {s1, s2}) /\ InBBlock
    BY <1>7 DEF EmitShift, Defines, Distinct
  <2>2. Emitted(m, ShiftCode(m, d, s1, s2), d, {s1, s2})
    BY <1>1, <1>2, <1>4, <2>1, ShiftLemma
  <2> QED BY <1>1, <1>3, <2>1, <2>2, DefineStep
<1>8. ASSUME NEW result \in {EAX, EDX}, EmitDivide(d, n, s1, s2, result) PROVE IInv'
  <2>1. /\ Readable(s1) /\ Readable(s2) /\ (s1 \in Temps => s1 # s2 /\ left[s1] = 1)
        /\ Inst(DivideCode(m, d, s1, s2, result), d, n, {s1, s2}) /\ InBBlock
    BY <1>8 DEF EmitDivide, Defines, Distinct, LastUse
  <2>2. s1 \in Temps => m.ref[s1] = 1
    BY <1>1, <1>3, <1>4, <2>1, StartLemma
  <2>3. Emitted(m, DivideCode(m, d, s1, s2, result), d, {s1, s2})
    BY <1>1, <1>2, <1>4, <2>1, <2>2, DivideLemma
  <2> QED BY <1>1, <1>3, <2>1, <2>3, DefineStep
<1>9. CASE EmitMove(d, n, s2)
  <2>1. Readable(s2) /\ Inst(MoveCode(m, d, s2), d, n, {s2}) /\ InBBlock
    BY <1>9 DEF EmitMove, Defines
  <2>2. Emitted(m, MoveCode(m, d, s2), d, {s2})
    BY <1>1, <1>2, <1>4, <2>1, MoveLemma DEF Ready, Operands
  <2> QED BY <1>1, <1>3, <2>1, <2>2, DefineStep
<1>10. CASE EmitFirstMove(d, n, s2)
  <2> DEFINE w == NewTemp(d, n + 1)
  <2>1. /\ Readable(s2) /\ n > 0
        /\ Inst(MoveCode(w, d, s2), d, n + 1, {s2}) /\ SetPending(d, "here")
    BY <1>10 DEF EmitFirstMove, Defines
  <2>2. Emitted(w, MoveCode(w, d, s2), d, {s2})
    BY <1>1, <1>2, <1>4, <2>1, MoveLemma DEF Ready, Operands
  <2>3. n + 1 > 0
    BY <1>1, <2>1
  <2> QED BY <1>1, <1>3, <2>1, <2>2, <2>3, DefineStep
<1>11. CASE EmitAddress(d, n)
  <2> DEFINE c == Result(AllocateDst(m, d, Var), d)
  <2>1. Inst(c, d, n, {}) /\ InBBlock
    BY <1>11 DEF EmitAddress
  <2>2. Emitted(m, c, d, {})
    BY <1>1, <1>4, AddressLemma
  <2> QED BY <1>1, <1>3, <2>1, <2>2, DefineStep
<1>12. CASE EmitExtend(d, n)
  <2> DEFINE c == [Write(AllocateDst(m, d, Var), d) EXCEPT !.wide = @ \cup {d}]
  <2>1. Inst(c, d, n, {}) /\ InBBlock
    BY <1>12 DEF EmitExtend
  <2>2. Emitted(m, c, d, {})
    BY <1>1, <1>4, ExtendLemma
  <2> QED BY <1>1, <1>3, <2>1, <2>2, DefineStep
<1>13. CASE EmitDeref(d, n, s1)
  <2> DEFINE c == ModifyVar(Result(UseAddress(AllocateDst(PutInReg(m, s1), d, Var),
                                              s1, PutInRegOf(m, s1)), d), d)
  <2>1. Readable(s1) /\ Inst(c, d, n, {s1}) /\ InBBlock
    BY <1>13 DEF EmitDeref, Defines
  <2>2. Emitted(m, c, d, {s1})
    BY <1>1, <1>2, <1>4, <2>1, DerefLemma
  <2> QED BY <1>1, <1>3, <2>1, <2>2, DefineStep
<1> QED BY <1>5, <1>6, <1>7, <1>8, <1>9, <1>10, <1>11, <1>12, <1>13

\* The moves to memory and through addresses lose no temporary.
LEMMA IndirectLemma ==
    ASSUME NEW m, Base(m), m.used = {}, NEW a \in Operands, a \in Temps => Held(m, a),
           NEW s \in Operands, s \in Temps => Held(m, s), Distinct(a, s),
           NEW r, NEW endr \in NarrowRegs, NEW p, p = PutInReg(m, a)
    PROVE  /\ Emitted(m, UseAddress(MoveOperands(p, Var, s), a, r), NULL, {a, s})
           /\ Emitted(m, UseAddress(MoveNarrow(p, s, endr), a, r), NULL, {a})
           /\ Emitted(m, UseAddress(GetRegInternal(p, endr), a, r), NULL, {a})
           /\ Emitted(m, RepMovsb(UseAddress(SpillBlockRegs(p), a, r)), NULL, {a})
           /\ Emitted(m, RepMovsb([SpillBlockRegs(p) EXCEPT !.wrong = @ \cup {"block"}]),
                      NULL, {a})
<1>1. /\ Base(p) /\ SameTemps(m, p)
      /\ \E x : p.used \in SUBSET {x}
      /\ \A t \in Temps : Held(m, t) => Held(p, t)
  BY AddressInReg
<1>2. Var \in Operands /\ Var \notin Temps /\ NULL \notin Temps
  BY RegAllocAssumption DEF Operands
<1>3. ASSUME NEW n, Base(n), SameTemps(p, n), \A t \in Temps : Held(p, t) => Held(n, t)
      PROVE  Emitted(m, UseAddress(n, a, r), NULL, {a})
  <2> DEFINE u == UseAddress(n, a, r)
  <2>1. /\ Base(u) /\ SameTemps(n, u)
        /\ \A t \in Temps : Held(n, t) => Held(u, t)
    BY <1>3, UseAddressLemma
  <2> HIDE DEF u
  <2>2. SameTemps(m, u) /\ \A t \in Temps : Held(m, t) => Held(u, t)
    BY <1>1, <1>3, <2>1 DEF SameTemps
  <2> QED BY <2>1, <2>2, KeepLemma DEF u
<1>4. Emitted(m, UseAddress(MoveNarrow(p, s, endr), a, r), NULL, {a})
  BY <1>1, <1>3, MoveNarrowLemma
<1>5. Emitted(m, UseAddress(GetRegInternal(p, endr), a, r), NULL, {a})
  <2>1. \E i \in Regs : i <= endr /\ i \notin p.used
    BY <1>1, TwoUsed DEF NarrowRegs
  <2> QED BY <1>1, <1>3, <2>1, GetRegLemma
<1>6. ASSUME NEW u, Base(u), SameTemps(SpillBlockRegs(p), u),
             SameLists(SpillBlockRegs(p), u),
             \A t \in Temps : Held(SpillBlockRegs(p), t) => Held(u, t)
      PROVE  Emitted(m, RepMovsb(u), NULL, {a})
  <2> DEFINE b == SpillBlockRegs(p)
             n == RepMovsb(u)
  <2>1. /\ Base(b) /\ SameTemps(p, b) /\ \A t \in Temps : Held(p, t) => Held(b, t)
        /\ \A q \in BlockRegs \cap Regs : b.link[q] = {}
    BY <1>1, SpillBlockLemma
  <2> HIDE DEF b
  <2>2. \A q \in BlockRegs \cap Regs : u.link[q] = {}
    BY <1>6, <2>1 DEF SameLists, b
  <2>3. Base(n) /\ SameTemps(u, n) /\ \A t \in Temps : Held(u, t) => Held(n, t)
    BY <1>6, <2>2, RepMovsbLemma
  <2> HIDE DEF n
  <2>4. SameTemps(m, n) /\ \A t \in Temps : Held(m, t) => Held(n, t)
    BY <1>1, <1>6, <2>1, <2>3 DEF SameTemps, b
  <2> QED BY <2>3, <2>4, KeepLemma DEF n
<1>7. /\ Emitted(m, RepMovsb(UseAddress(SpillBlockRegs(p), a, r)), NULL, {a})
      /\ Emitted(m, RepMovsb([SpillBlockRegs(p) EXCEPT !.wrong = @ \cup {"block"}]),
                 NULL, {a})
  <2> DEFINE b == SpillBlockRegs(p)
             u == UseAddress(b, a, r)
             v == [b EXCEPT !.wrong = @ \cup {"block"}]
  <2>1. Base(b)
    BY <1>1, SpillBlockLemma
  <2>2. /\ Base(u) /\ SameTemps(b, u) /\ SameLists(b, u)
        /\ \A t \in Temps : Held(b, t) => Held(u, t)
    BY <2>1, UseAddressLemma
  <2>3. /\ Base(v) /\ SameTemps(b, v) /\ SameLists(b, v)
        /\ \A t \in Temps : Held(b, t) => Held(v, t)
    <3> HIDE DEF b
    <3> QED BY <2>1, FaultLemma
  <2>4. Emitted(m, RepMovsb(u), NULL, {a})
    <3> HIDE DEF u
    <3> QED BY <1>6, <2>2
  <2>5. Emitted(m, RepMovsb(v), NULL, {a})
    <3> HIDE DEF v
    <3> QED BY <1>6, <2>3
  <2> QED BY <2>4, <2>5
<1>8. Emitted(m, UseAddress(MoveOperands(p, Var, s), a, r), NULL, {a, s})
  <2> DEFINE b == MoveOperands(p, Var, s)
             u == UseAddress(b, a, r)
  <2>1. /\ Base(b) /\ SameTemps(p, b)
        /\ \A t \in Temps \ {Var} : Held(p, t) /\ (t = s => p.ref[t] > 1) => Held(b, t)
    <3>1. s \in Temps => Held(p, s) /\ s # Var
      BY <1>1, <1>2
    <3>2. Var \in Temps => p.reg[Var] = NULL \/ Held(p, Var)
      BY <1>2
    <3> QED BY <1>1, <1>2, <3>1, <3>2, MoveOperandsLemma
  <2> HIDE DEF b
  <2>2. Base(u) /\ SameTemps(b, u) /\ \A t \in Temps : Held(b, t) => Held(u, t)
    BY <2>1, UseAddressLemma
  <2> HIDE DEF u
  <2>3. Emitted(m, u, NULL, {a, s})
    BY <1>1, <1>2, <2>1, <2>2 DEF Emitted, SameTemps
  <2> QED BY <2>3 DEF u, b
<1> QED BY <1>4, <1>5, <1>7, <1>8

\* TRU reads its operand where it is, or moves it to a register with a name.
LEMMA TruncateLemma ==
    ASSUME NEW m, Base(m), m.used = {}, NEW s \in Operands, s \in Temps => Held(m, s),
           NEW endr \in NarrowRegs, NEW n,
           n = Use(m, s) \/ n = Load(GetRegInternal(m, endr), PickReg(m, endr), s)
    PROVE  Emitted(m, n, NULL, {s})
<1>1. CASE n = Use(m, s)
  <2>1. CanRead(m, s)
    BY HeldCanRead
  <2>2. Base(n) /\ SameTemps(m, n) /\ \A t \in Temps : Held(m, t) => Held(n, t)
    BY <1>1, <2>1, UseLemma
  <2> QED BY <2>2, KeepLemma
<1>2. CASE n = Load(GetRegInternal(m, endr), PickReg(m, endr), s)
  <2> DEFINE g == GetRegInternal(m, endr)
             r == PickReg(m, endr)
  <2>1. \E i \in Regs : i <= endr /\ i \notin m.used
    BY TwoUsed DEF NarrowRegs
  <2>2. /\ Base(g) /\ SameTemps(m, g)
        /\ r \in Regs /\ g.link[r] = {}
        /\ \A t \in Temps : Held(m, t) => Held(g, t)
    BY <2>1, GetRegLemma
  <2>3. n = Load(g, r, s)
    BY <1>2
  <2> HIDE DEF g, r
  <2>4. CanRead(g, s)
    BY <2>2, HeldCanRead
  <2>5. \A t \in Temps : Held(g, t) => g.reg[t] # r
    BY <2>2, EmptyLemma
  <2>6. /\ Base(n) /\ SameTemps(g, n)
        /\ \A t \in Temps : Held(g, t) /\ g.reg[t] # r => Held(n, t)
    BY <2>2, <2>3, <2>4, LoadLemma
  <2>7. SameTemps(m, n) /\ \A t \in Temps : Held(m, t) => Held(n, t)
    BY <2>2, <2>5, <2>6 DEF SameTemps
  <2> QED BY <2>6, <2>7, KeepLemma
<1> QED BY <1>1, <1>2

\* RET loads EAX; no temporary but the returned one is live.
LEMMA ReturnLemma ==
    ASSUME NEW m, Base(m), NEW s \in Operands, s \in Temps => Held(m, s),
           \A t \in Temps : m.ref[t] > 0 => t = s /\ m.ref[t] = 1,
           NEW n, n = Use(m, s) \/ n = Load(m, EAX, s)
    PROVE  Emitted(m, n, NULL, {s})
<1>1. CanRead(m, s) /\ EAX \in Regs /\ NULL \notin Temps
  BY HeldCanRead, RegAllocAssumption DEF Operands
<1>2. Base(n) /\ SameTemps(m, n)
  BY <1>1, UseLemma, LoadLemma
<1>3. \A t \in Temps : ~(Held(m, t) /\ (t \in {s} => m.ref[t] > 1))
  BY DEF Held
<1> QED BY <1>1, <1>2, <1>3 DEF Emitted, SameTemps

\* The emitters without a result preserve IInv, calls and jumps apart.
LEMMA EffectsStep ==
    ASSUME IInv, NEW s \in Operands, NEW a \in Sources, NEW endr \in NarrowRegs,
           \/ EmitMoveToVar(s)
           \/ EmitIndirectMove(a, s)
           \/ EmitReturn(a)
           \/ EmitDerefBBlock(a)
           \/ EmitIndirectMoveBBlock(a)
           \/ EmitDerefNarrow(a, endr)
           \/ EmitTruncate(a, endr)
           \/ s \in {Var, Const} /\ EmitMoveNarrow(s, endr)
           \/ s \in {Var, Const} /\ EmitIndirectMoveNarrow(a, s, endr)
           \/ EmitMoveBBlock
           \/ EmitClear
    PROVE  IInv'
<1> DEFINE m == Begin(mach)
           p == PutInReg(m, a)
           r == PutInRegOf(m, a)
<1>1. /\ Base(m) /\ m.used = {} /\ m.ref = left
      /\ \A t \in Temps : left[t] > 0 => Held(m, t)
      /\ \A q : Readable(q) /\ q \in Temps => Held(m, q)
  BY BeginReady
<1>2. /\ a \in Operands /\ Var \in Operands /\ Const \in Operands
      /\ Var \notin Temps /\ Const \notin Temps /\ NULL \notin Temps
  BY RegAllocAssumption DEF Sources, Operands
<1>3. \E x : m.used \in SUBSET {x}
  BY <1>1
<1>4. CASE EmitMoveToVar(s)
  <2>1. Readable(s) /\ Inst(MoveCode(m, Var, s), NULL, 0, {s}) /\ InBBlock
    BY <1>4 DEF EmitMoveToVar
  <2>2. Emitted(m, MoveCode(m, Var, s), Var, {s})
    BY <1>1, <1>2, <2>1, MoveLemma
  <2>3. Emitted(m, MoveCode(m, Var, s), NULL, {s})
    BY <1>2, <2>2 DEF Emitted
  <2> QED BY <2>1, <2>3, EffectStep
<1>5. CASE EmitIndirectMove(a, s)
  <2> DEFINE c == UseAddress(MoveOperands(p, Var, s), a, r)
  <2>1. /\ Readable(a) /\ Readable(s) /\ Distinct(a, s)
        /\ Inst(c, NULL, 0, {a, s}) /\ InBBlock
    BY <1>5 DEF EmitIndirectMove
  <2>2. Emitted(m, c, NULL, {a, s})
    BY <1>1, <1>2, <2>1, IndirectLemma
  <2> QED BY <2>1, <2>2, EffectStep
<1>6. CASE EmitReturn(a)
  <2> DEFINE c == IF a \in Temps /\ m.reg[a] = EAX THEN Use(m, a) ELSE Load(m, EAX, a)
  <2>1. /\ Readable(a) /\ Inst(c, NULL, 0, {a}) /\ InBBlock
        /\ \A t \in Temps : left[t] > 0 => t = a /\ (t \in Temps => left[t] = 1)
    BY <1>6 DEF EmitReturn, Live, LastUse
  <2>2. Emitted(m, c, NULL, {a})
    BY <1>1, <1>2, <2>1, ReturnLemma
  <2> QED BY <2>1, <2>2, EffectStep
<1>7. CASE EmitDerefBBlock(a)
  <2> DEFINE b == SpillBlockRegs(p)
             c == RepMovsb(IF r # EDI THEN UseAddress(b, a, r)
                           ELSE [b EXCEPT !.wrong = @ \cup {"block"}])
  <2>1. Readable(a) /\ Inst(c, NULL, 0, {a}) /\ InBBlock
    BY <1>7 DEF EmitDerefBBlock
  <2>2. Distinct(a, Var)
    BY <1>2 DEF Distinct
  <2>3. /\ Emitted(m, RepMovsb(UseAddress(b, a, r)), NULL, {a})
        /\ Emitted(m, RepMovsb([b EXCEPT !.wrong = @ \cup {"block"}]), NULL, {a})
    BY <1>1, <1>2, <2>1, <2>2, IndirectLemma
  <2>4. Emitted(m, c, NULL, {a})
    BY <2>3
  <2> QED BY <2>1, <2>4, EffectStep
<1>8. CASE EmitIndirectMoveBBlock(a)
  <2> DEFINE c == RepMovsb(UseAddress(SpillBlockRegs(p), a, r))
  <2>1. Readable(a) /\ Inst(c, NULL, 0, {a}) /\ InBBlock
    BY <1>8 DEF EmitIndirectMoveBBlock
  <2>2. Distinct(a, Var)
    BY <1>2 DEF Distinct
  <2>3. Emitted(m, c, NULL, {a})
    BY <1>1, <1>2, <2>1, <2>2, IndirectLemma
  <2> QED BY <2>1, <2>3, EffectStep
<1>9. CASE EmitDerefNarrow(a, endr)
  <2> DEFINE c == UseAddress(GetRegInternal(p, endr), a, r)
  <2>1. Readable(a) /\ Inst(c, NULL, 0, {a}) /\ InBBlock
    BY <1>9 DEF EmitDerefNarrow
  <2>2. Distinct(a, Var)
    BY <1>2 DEF Distinct
  <2>3. Emitted(m, c, NULL, {a})
    BY <1>1, <1>2, <2>1, <2>2, IndirectLemma
  <2> QED BY <2>1, <2>3, EffectStep
<1>10. CASE EmitTruncate(a, endr)
  <2> DEFINE c == IF a \in Temps /\ m.reg[a] # NULL /\ HasName(m.reg[a], endr)
                  THEN Use(m, a)
                  ELSE Load(GetRegInternal(m, endr), PickReg(m, endr), a)
  <2>1. Readable(a) /\ Inst(c, NULL, 0, {a}) /\ InBBlock
    BY <1>10 DEF EmitTruncate
  <2>2. Emitted(m, c, NULL, {a})
    BY <1>1, <1>2, <2>1, TruncateLemma
  <2> QED BY <2>1, <2>2, EffectStep
<1>11. CASE s \in {Var, Const} /\ EmitMoveNarrow(s, endr)
  <2> DEFINE c == MoveNarrow(m, s, endr)
  <2>1. Inst(c, NULL, 0, {}) /\ InBBlock
    BY <1>11 DEF EmitMoveNarrow
  <2>2. Base(c) /\ SameTemps(m, c) /\ \A t \in Temps : Held(m, t) => Held(c, t)
    BY <1>1, <1>3, MoveNarrowLemma
  <2>3. Emitted(m, c, NULL, {})
    BY <2>2, KeepLemma
  <2> QED BY <2>1, <2>3, EffectStep
<1>12. CASE s \in {Var, Const} /\ EmitIndirectMoveNarrow(a, s, endr)
  <2> DEFINE c == UseAddress(MoveNarrow(p, s, endr), a, r)
  <2>1. Readable(a) /\ Inst(c, NULL, 0, {a}) /\ InBBlock
    BY <1>12 DEF EmitIndirectMoveNarrow
  <2>2. Distinct(a, s) /\ s \notin Temps
    BY <1>2, <1>12 DEF Distinct
  <2>3. Emitted(m, c, NULL, {a})
    BY <1>1, <1>2, <2>1, <2>2, IndirectLemma
  <2> QED BY <2>1, <2>3, EffectStep
<1>13. CASE EmitMoveBBlock
  <2> DEFINE b == SpillBlockRegs(m)
             c == RepMovsb(b)
  <2>1. Inst(c, NULL, 0, {}) /\ InBBlock
    BY <1>13 DEF EmitMoveBBlock
  <2>2. /\ Base(b) /\ SameTemps(m, b) /\ \A t \in Temps : Held(m, t) => Held(b, t)
        /\ \A q \in BlockRegs \cap Regs : b.link[q] = {}
    BY <1>1, SpillBlockLemma
  <2> HIDE DEF b
  <2>3. Base(c) /\ SameTemps(b, c) /\ \A t \in Temps : Held(b, t) => Held(c, t)
    BY <2>2, RepMovsbLemma
  <2> HIDE DEF c
  <2>4. Base(c) /\ SameTemps(m, c) /\ \A t \in Temps : Held(m, t) => Held(c, t)
    BY <2>2, <2>3 DEF SameTemps
  <2>5. Emitted(m, c, NULL, {})
    BY <2>4, KeepLemma
  <2> QED BY <2>1, <2>5, EffectStep
<1>14. CASE EmitClear
  <2> DEFINE b == SpillReg(m, EAX)
             c == [b EXCEPT !.rval = [q \in Regs |-> IF q \in {EAX, ECX, EDX}
                                                     THEN NULL ELSE @[q]]]
  <2>1. Inst(c, NULL, 0, {}) /\ InBBlock /\ \A t \in Temps : ~(left[t] > 0)
    BY <1>14 DEF EmitClear, Live, Clobber
  <2>2. Base(b) /\ SameTemps(m, b)
    BY <1>1, SpillOneLemma
  <2> HIDE DEF b
  <2>3. /\ c \in Machine
        /\ c.link = b.link /\ c.reg = b.reg /\ c.ref = b.ref /\ c.wrong = b.wrong
    BY <2>2 DEF Base, Machine
  <2> HIDE DEF c
  <2>4. Base(c) /\ c.ref = m.ref
    BY <2>2, <2>3 DEF Base, SameTemps
  <2>5. Emitted(m, c, NULL, {})
    BY <1>1, <1>2, <2>1, <2>4 DEF Emitted, Held
  <2> QED BY <2>1, <2>5, EffectStep
<1> QED BY <1>4, <1>5, <1>6, <1>7, <1>8, <1>9, <1>10, <1>11, <1>12, <1>13, <1>14

\* The second definition of a conditional's result preserves IInv.
LEMMA SecondMoveStep ==
    ASSUME IInv, NEW d \in Temps, NEW s \in Operands, EmitSecondMove(d, s)
    PROVE  IInv'
<1> DEFINE m == Begin(mach)
           n == MoveCode(m, d, s)
           k == left[d] - 1
<1>1. /\ Base(m) /\ m.used = {} /\ m.ref = left /\ left \in [Temps -> Int]
      /\ \A t \in Temps : left[t] > 0 => Held(m, t)
      /\ \A q : Readable(q) /\ q \in Temps => Held(m, q)
  BY BeginReady
<1>2. /\ Inst(n, d, k, {s}) /\ SetPending(d, "no")
      /\ Readable(s) /\ pend[d] = "later" /\ left[d] > 0
  BY DEF EmitSecondMove, IInv, Live
<1>3. s # d /\ (s \in Temps => left[s] > 0 /\ Held(m, s)) /\ Held(m, d) /\ d \in Operands
  BY <1>1, <1>2 DEF Readable, Live, Operands
<1>4. Emitted(m, n, d, {s})
  BY <1>1, <1>3, MoveLemma
<1> HIDE DEF m, n
<1>5. k \in Int /\ m.ref[d] = k + 1 /\ m.ref \in [Temps -> Int]
  BY <1>1
<1>6. MachineInv(NextInst(Decrement(n, {d} \cup {s}), NULL), [t \in Temps |->
            IF t = d THEN k ELSE IF t \in {s} THEN left[t] - 1 ELSE left[t]])
  <2> HIDE DEF k
  <2> QED BY <1>1, <1>4, <1>5, InstLemma
<1>7. left' = [t \in Temps |-> IF t = d THEN k ELSE IF t \in {s} THEN left[t] - 1 ELSE left[t]]
      /\ index' = NULL
  BY <1>2 DEF Inst
<1>8. MachineInv(mach', left')
  BY <1>2, <1>6, <1>7 DEF Inst
<1>9. left \in [Temps -> 0 .. MaxUse + 1] /\ MaxUse \in Nat /\ pend \in [Temps -> PendingKinds]
  BY X86EmitAssumption DEF IInv, TypeOK
<1>10. left' \in [Temps -> 0 .. MaxUse + 1]
  BY <1>2, <1>3, <1>7, <1>9
<1>11. /\ pend' \in [Temps -> PendingKinds]
       /\ \A t \in Temps : pend'[t] # "no" => t # d /\ pend[t] # "no" /\ left[t] > 0
  BY <1>2, <1>9 DEF SetPending, PendingKinds, IInv, Live
<1>12. \A t \in Temps : pend'[t] # "no" => left'[t] > 0
  BY <1>2, <1>7, <1>11 DEF Readable
<1> QED BY <1>2, <1>7, <1>8, <1>10, <1>11, <1>12, MachineStep DEF SetPending

\* The machine a call without a result in a register leaves.
LEMMA CallNoTempStep ==
    ASSUME IInv, NEW f \in Temps \cup {Const}, NEW arg1 \in Args, NEW arg2 \in Args,
           NEW record \in BOOLEAN, EmitCallNoTemp(f, arg1, arg2, record)
    PROVE  IInv'
<1> DEFINE m == Begin(mach)
           c == CallCode(m, f, arg1, arg2, record)
           e == Decrement(c, {f})
           n == NextInst(e, NULL)
<1>1. /\ Base(m) /\ m.used = {} /\ m.ref = left /\ left \in [Temps -> Int]
      /\ \A t \in Temps : left[t] > 0 => Held(m, t)
      /\ \A q : Readable(q) /\ q \in Temps => Held(m, q)
  BY BeginReady
<1>2. /\ index = NULL /\ index' = NULL
      /\ \A p \in {f, arg1, arg2} \cap Temps : Readable(p)
      /\ Distinct(f, arg1) /\ Distinct(f, arg2) /\ Distinct(arg1, arg2)
      /\ mach' = n
      /\ left' = [t \in Temps |-> IF t \in {f, arg1, arg2} THEN left[t] - 1 ELSE left[t]]
      /\ pend' = pend /\ boundary' = FALSE
  BY DEF EmitCallNoTemp, CallGuard, InBBlock
<1>3. f \in Operands
  BY DEF Operands
<1>4. /\ Base(c)
      /\ c.ref = [t \in Temps |-> IF t \in {arg1, arg2} THEN m.ref[t] - 1 ELSE m.ref[t]]
      /\ \A t \in Temps : Held(m, t) /\ (t \in {arg1, arg2} => m.ref[t] > 1) => Held(c, t)
  BY <1>1, <1>2, <1>3, CallLemma
<1> HIDE DEF m, c
<1>5. /\ Base(e)
      /\ e.ref = [t \in Temps |-> IF t \in {f} THEN c.ref[t] - 1 ELSE c.ref[t]]
      /\ \A t \in Temps : Held(c, t) /\ (t \in {f} => c.ref[t] > 1) => Held(e, t)
  BY <1>4, DecrementLemma
<1> HIDE DEF e
<1>6. /\ Base(n) /\ n.used = {} /\ n.ref = e.ref
      /\ \A t \in Temps : Held(e, t) => Held(n, t)
  BY <1>5, NextInstLemma
<1> HIDE DEF n
<1>7. \A t \in Temps : t \in {f, arg1, arg2} => left[t] > 0 /\ pend[t] = "no"
  BY <1>2 DEF Readable, Live
<1>8. f \in Temps => f \notin {arg1, arg2}
  BY <1>2 DEF Distinct
<1>9. n.ref = left'
  BY <1>1, <1>2, <1>4, <1>5, <1>6, <1>8
<1>10. \A t \in Temps : left'[t] > 0 => Held(n, t)
  <2> TAKE t \in Temps
  <2> HAVE left'[t] > 0
  <2>1. left[t] \in Int /\ left[t] > 0 /\ (t \in {f, arg1, arg2} => left[t] > 1)
    BY <1>1, <1>2
  <2>2. Held(c, t)
    BY <1>1, <1>4, <2>1
  <2>3. t \in {f} => c.ref[t] > 1
    BY <1>1, <1>4, <1>8, <2>1
  <2> QED BY <1>5, <1>6, <2>2, <2>3
<1>11. MachineInv(mach', left')
  BY <1>2, <1>6, <1>9, <1>10 DEF MachineInv
<1>12. left \in [Temps -> 0 .. MaxUse + 1] /\ MaxUse \in Nat /\ pend \in [Temps -> PendingKinds]
  BY X86EmitAssumption DEF IInv, TypeOK
<1>13. left' \in [Temps -> 0 .. MaxUse + 1]
  BY <1>2, <1>7, <1>12
<1>14. \A t \in Temps : pend'[t] # "no" => left'[t] > 0
  BY <1>2, <1>7, <1>12 DEF IInv, Live
<1> QED BY <1>2, <1>11, <1>12, <1>13, <1>14, MachineStep

\* A call whose result goes to a temporary preserves IInv.
LEMMA CallStep ==
    ASSUME IInv, NEW d \in Temps, NEW k \in Uses, NEW f \in Temps \cup {Const},
           NEW arg1 \in Args, NEW arg2 \in Args, EmitCall(d, k, f, arg1, arg2)
    PROVE  IInv'
<1> DEFINE m == NewTemp(d, k)
           c == CallCode(m, f, arg1, arg2, FALSE)
           e == Decrement(c, {d, f})
           w == RecvCode(e, d, f)
           n == NextInst(w, NULL)
<1>1. /\ index = NULL /\ index' = NULL /\ Fresh(d) /\ k \in 0 .. MaxUse
      /\ \A p \in {f, arg1, arg2} \cap Temps : Readable(p)
      /\ Distinct(f, arg1) /\ Distinct(f, arg2) /\ Distinct(arg1, arg2)
      /\ f \in Temps => left[f] = 1
      /\ mach' = n
      /\ left' = [t \in Temps |-> IF t = d THEN k
                                  ELSE IF t \in {f, arg1, arg2} THEN left[t] - 1
                                  ELSE left[t]]
      /\ pend' = pend /\ boundary' = FALSE
  BY DEF EmitCall, CallGuard, InBBlock, Defines, LastUse
<1>2. left \in [Temps -> 0 .. MaxUse + 1] /\ MaxUse \in Nat /\ pend \in [Temps -> PendingKinds]
  BY X86EmitAssumption DEF IInv, TypeOK
<1>3. /\ Base(m) /\ m.used = {} /\ m.reg[d] = NULL
      /\ m.ref \in [Temps -> Int] /\ m.ref[d] = k + 1
      /\ \A t \in Temps \ {d} : m.ref[t] = left[t] /\ (left[t] > 0 => Held(m, t))
      /\ \A s : Readable(s) => s # d /\ (s \in Temps => Held(m, s))
  BY <1>1, StartLemma DEF Ready
<1>4. f \in Operands /\ f # d /\ arg1 # d /\ arg2 # d
  BY <1>1, <1>3, RegAllocAssumption, X86EmitAssumption DEF Operands, Args
<1>5. /\ Base(c)
      /\ \E x : c.used \in SUBSET {x}
      /\ c.ref = [t \in Temps |-> IF t \in {arg1, arg2} THEN m.ref[t] - 1 ELSE m.ref[t]]
      /\ \A t \in Temps : c.reg[t] \in {m.reg[t], NULL}
      /\ \A t \in Temps : Held(m, t) /\ (t \in {arg1, arg2} => m.ref[t] > 1) => Held(c, t)
  BY <1>1, <1>3, <1>4, CallLemma
<1> HIDE DEF m, c
<1>6. /\ Base(e) /\ SameLists(c, e)
      /\ e.ref = [t \in Temps |-> IF t \in {d, f} THEN c.ref[t] - 1 ELSE c.ref[t]]
      /\ \A t \in Temps : Held(c, t) /\ (t \in {d, f} => c.ref[t] > 1) => Held(e, t)
  BY <1>5, DecrementLemma
<1> HIDE DEF e
<1>7. /\ f \in Temps => f \notin {arg1, arg2, d}
      /\ \A t \in Temps : t \in {f, arg1, arg2} => left[t] > 0 /\ pend[t] = "no"
  BY <1>1, <1>4 DEF Distinct, Readable, Live
<1>8. e.ref = left'
  BY <1>1, <1>2, <1>3, <1>4, <1>5, <1>6, <1>7
<1>9. Emitted(e, w, d, {})
  <2>1. e.reg[d] = NULL /\ (\E x : e.used \in SUBSET {x})
    BY <1>3, <1>5, <1>6 DEF SameLists
  <2>2. f \in Temps => e.ref[f] = 0
    BY <1>1, <1>4, <1>8
  <2> QED BY <1>4, <1>6, <2>1, <2>2, RecvLemma
<1> HIDE DEF w
<1>10. /\ Base(n) /\ n.used = {} /\ n.ref = w.ref
       /\ \A t \in Temps : Held(w, t) => Held(n, t)
  BY <1>9, NextInstLemma DEF Emitted
<1> HIDE DEF n
<1>11. n.ref = left'
  BY <1>8, <1>9, <1>10 DEF Emitted
<1>12. \A t \in Temps : left'[t] > 0 => Held(n, t)
  <2> TAKE t \in Temps
  <2> HAVE left'[t] > 0
  <2>1. CASE t = d
    <3>1. Held(w, t)
      BY <1>8, <1>9, <2>1 DEF Emitted
    <3> QED BY <1>10, <3>1
  <2>2. CASE t # d
    <3>1. left[t] \in Int /\ left[t] > 0 /\ (t \in {f, arg1, arg2} => left[t] > 1)
      BY <1>1, <1>2, <2>2
    <3>2. Held(m, t) /\ m.ref[t] = left[t]
      BY <1>3, <2>2, <3>1
    <3>3. Held(c, t)
      BY <1>5, <3>1, <3>2
    <3>4. t \in {d, f} => c.ref[t] > 1
      BY <1>1, <2>2, <3>1
    <3>5. Held(w, t)
      BY <1>6, <1>9, <2>2, <3>3, <3>4 DEF Emitted
    <3> QED BY <1>10, <3>5
  <2> QED BY <2>1, <2>2
<1>13. MachineInv(mach', left')
  BY <1>1, <1>10, <1>11, <1>12 DEF MachineInv
<1>14. left' \in [Temps -> 0 .. MaxUse + 1]
  BY <1>1, <1>2, <1>7
<1>15. \A t \in Temps : pend'[t] # "no" => left'[t] > 0
  BY <1>1, <1>2, <1>7 DEF IInv, Fresh, Live
<1> QED BY <1>1, <1>2, <1>13, <1>14, <1>15, MachineStep

\* The instructions that end a block preserve IInv.
LEMMA EndStep ==
    ASSUME IInv, EndBBlock
    PROVE  IInv'
<1> DEFINE m == Begin(mach)
<1>1. /\ Base(m) /\ m.used = {} /\ m.ref = left /\ left \in [Temps -> Int]
      /\ \A t \in Temps : left[t] > 0 => Held(m, t)
      /\ \A q : Readable(q) /\ q \in Temps => Held(m, q)
  BY BeginReady
<1>2. left \in [Temps -> 0 .. MaxUse + 1] /\ MaxUse \in Nat /\ pend \in [Temps -> PendingKinds]
  BY X86EmitAssumption DEF IInv, TypeOK
<1>3. ASSUME LeaveBBlock
      PROVE  /\ pend' \in [Temps -> PendingKinds]
             /\ \A t \in Temps : pend'[t] # "no" => pend[t] # "no" /\ left[t] > 0
  BY <1>2, <1>3 DEF LeaveBBlock, PendingKinds, IInv, Live
<1>4. ASSUME NEW s1 \in Sources, NEW s2 \in Operands, EmitBranch(s1, s2) PROVE IInv'
  <2> DEFINE c == BranchCode(m, s1, s2)
             n == NextInst(c, NULL)
  <2>1. /\ Readable(s1) /\ Readable(s2) /\ Distinct(s1, s2)
        /\ mach' = n /\ index' = NULL /\ LeaveBBlock
        /\ left' = [t \in Temps |-> IF t \in {s1, s2} THEN left[t] - 1 ELSE left[t]]
    BY <1>4 DEF EmitBranch
  <2>2. /\ Base(c)
        /\ \A r \in Regs : c.link[r] = {}
        /\ c.ref = [t \in Temps |-> IF t \in {s1, s2} THEN m.ref[t] - 1 ELSE m.ref[t]]
        /\ \A t \in Temps : Held(m, t) /\ (t \in {s1, s2} => m.ref[t] > 1) => Held(c, t)
    BY <1>1, <2>1, BranchLemma DEF Sources, Operands
  <2> HIDE DEF c
  <2>3. /\ Base(n) /\ n.used = {} /\ n.ref = c.ref /\ n.link = c.link
        /\ \A t \in Temps : Held(c, t) => Held(n, t)
    BY <2>2, NextInstLemma
  <2> HIDE DEF n, m
  <2>4. n.ref = left'
    BY <1>1, <2>1, <2>2, <2>3
  <2>5. \A t \in Temps : left'[t] > 0 => Held(n, t)
    BY <1>1, <2>1, <2>2, <2>3
  <2>6. MachineInv(mach', left')
    BY <2>1, <2>3, <2>4, <2>5 DEF MachineInv
  <2>7. \A t \in Temps : t \in {s1, s2} => left[t] > 0 /\ pend[t] = "no"
    BY <2>1 DEF Readable, Live
  <2>8. left' \in [Temps -> 0 .. MaxUse + 1]
    BY <1>2, <2>1, <2>7
  <2>9. /\ pend' \in [Temps -> PendingKinds]
        /\ \A t \in Temps : pend'[t] # "no" => left'[t] > 0
    BY <1>3, <2>1, <2>7
  <2>10. boundary' = TRUE /\ \A r \in Regs : mach'.link[r] = {}
    BY <2>1, <2>2, <2>3 DEF LeaveBBlock
  <2> QED BY <2>1, <2>6, <2>8, <2>9, <2>10, MachineStep
<1>5. CASE EmitJump
  <2> DEFINE c == ClearRegs(m)
  <2>1. Inst(c, NULL, 0, {}) /\ LeaveBBlock
    BY <1>5 DEF EmitJump
  <2>2. /\ Base(c) /\ SameTemps(m, c)
        /\ \A r \in Regs : c.link[r] = {}
        /\ \A t \in Temps : Held(m, t) => Held(c, t)
    BY <1>1, SpillRegsLemma DEF ClearRegs
  <2>3. Emitted(m, c, NULL, {})
    BY <2>2, KeepLemma
  <2> HIDE DEF c
  <2> QED BY <2>1, <2>2, <2>3, EffectStep
<1>6. CASE EmitIndirectJump
  <2> DEFINE p == PutInReg(m, index)
             r == PutInRegOf(m, index)
             u == UseReg(p, r, index)
             c == ClearRegs(u)
             n == NextInst(c, NULL)
  <2>1. /\ index # NULL /\ mach' = n /\ index' = NULL /\ LeaveBBlock
        /\ left' = left
    BY <1>6 DEF EmitIndirectJump
  <2>2. index \in Operands /\ CanRead(m, index)
    <3>1. index \in Temps /\ CanRead(mach, index)
      BY <2>1 DEF IInv, TypeOK
    <3>2. SameLists(mach, m) /\ m.rval = mach.rval /\ m.wide = mach.wide
      BY BeginLemma DEF IInv
    <3> QED BY <3>1, <3>2 DEF CanRead, Holds, SameLists, Operands
  <2>3. /\ Base(p) /\ SameTemps(m, p)
        /\ index \in m.wide \/ p.rval[r] = index
        /\ \A t \in Temps : Held(m, t) => Held(p, t)
    <3>1. \E i \in Regs : i \notin m.used
      BY <1>1, TwoUsed
    <3> QED BY <1>1, <2>2, <3>1, PutInRegLemma
  <2> HIDE DEF p, r
  <2>4. Base(u) /\ SameTemps(p, u) /\ \A t \in Temps : Held(p, t) => Held(u, t)
    <3>1. p.rval[r] = index \/ index \in p.wide
      BY <2>3 DEF SameTemps
    <3> QED BY <2>3, <3>1, UseRegLemma
  <2> HIDE DEF u
  <2>5. /\ Base(c) /\ SameTemps(u, c)
        /\ \A q \in Regs : c.link[q] = {}
        /\ \A t \in Temps : Held(u, t) => Held(c, t)
    BY <2>4, SpillRegsLemma DEF ClearRegs
  <2> HIDE DEF c
  <2>6. /\ Base(n) /\ n.used = {} /\ n.ref = c.ref /\ n.link = c.link
        /\ \A t \in Temps : Held(c, t) => Held(n, t)
    BY <2>5, NextInstLemma
  <2> HIDE DEF n
  <2>7. MachineInv(mach', left')
    BY <1>1, <2>1, <2>3, <2>4, <2>5, <2>6 DEF MachineInv, SameTemps
  <2>8. boundary' = TRUE /\ \A q \in Regs : mach'.link[q] = {}
    BY <2>1, <2>5, <2>6 DEF LeaveBBlock
  <2> QED BY <1>2, <1>3, <2>1, <2>7, <2>8, MachineStep
<1> QED BY <1>4, <1>5, <1>6 DEF EndBBlock

\* The jump table index stays readable until the IJMP.
LEMMA TableIndexStep ==
    ASSUME IInv, NEW d \in Temps, NEW s1 \in Operands, EmitTableIndex(d, s1)
    PROVE  IInv'
<1> DEFINE m == NewTemp(d, 0)
           n == BinaryCode(m, d, s1, Const)
           e == NextInst(Decrement(n, {d} \cup {s1}), d)
<1>1. /\ Fresh(d) /\ Readable(s1) /\ index' = d /\ pend' = pend /\ boundary' = FALSE
      /\ mach' = e
      /\ left' = [t \in Temps |-> IF t = s1 THEN left[t] - 1 ELSE left[t]]
  <2>1. {d, s1} = {d} \cup {s1}
    OBVIOUS
  <2> QED BY <2>1 DEF EmitTableIndex, Defines, InBBlock
<1>2. /\ Ready(m, d)
      /\ m.ref \in [Temps -> Int] /\ m.ref[d] = 0 + 1
      /\ \A t \in Temps \ {d} : m.ref[t] = left[t] /\ (left[t] > 0 => Held(m, t))
      /\ \A s : Readable(s) => s # d /\ (s \in Temps => Held(m, s))
  BY <1>1, StartLemma
<1>3. Const \in Operands \ {d} /\ Const \notin Temps
  BY RegAllocAssumption DEF Operands
<1>4. Emitted(m, n, d, {s1, Const})
  BY <1>1, <1>2, <1>3, BinaryLemma
<1> HIDE DEF m, n
<1>5. Emitted(m, n, d, {s1})
  BY <1>3, <1>4 DEF Emitted
<1>6. Held(n, d)
  BY <1>2, <1>5 DEF Emitted
<1>7. /\ MachineInv(e, [t \in Temps |->
             IF t = d THEN 0 ELSE IF t \in {s1} THEN left[t] - 1 ELSE left[t]])
      /\ d \in Temps /\ d = d /\ Held(n, d) => CanRead(e, d)
  BY <1>2, <1>5, InstLemma
<1> HIDE DEF e
<1>8. left \in [Temps -> 0 .. MaxUse + 1] /\ MaxUse \in Nat /\ pend \in [Temps -> PendingKinds]
  BY X86EmitAssumption DEF IInv, TypeOK
<1>9. left[d] = 0 /\ s1 # d /\ (s1 \in Temps => left[s1] > 0 /\ pend[s1] = "no")
  BY <1>1, <1>2, <1>8 DEF Fresh, Live, Readable
<1>10. left' = [t \in Temps |->
                  IF t = d THEN 0 ELSE IF t \in {s1} THEN left[t] - 1 ELSE left[t]]
  BY <1>1, <1>9
<1>11. MachineInv(mach', left') /\ CanRead(mach', index')
  BY <1>1, <1>6, <1>7, <1>10
<1>12. left' \in [Temps -> 0 .. MaxUse + 1]
  BY <1>1, <1>8, <1>9
<1>13. \A t \in Temps : pend'[t] # "no" => left'[t] > 0
  BY <1>1, <1>8, <1>9 DEF IInv, Live
<1> QED BY <1>1, <1>8, <1>11, <1>12, <1>13, MachineStep

-----------------------------------------------------------------------------
(* The theorems                                                             *)

\* The emitter starts with no register claimed and no temporary live.
LEMMA InitIInv == Init => IInv
<1> SUFFICES ASSUME Init PROVE IInv
  OBVIOUS
<1>1. mach \in Machine
  BY RegAllocAssumption DEF Init, Machine, Operands
<1>2. TypeOK
  BY <1>1, X86EmitAssumption DEF Init, TypeOK, PendingKinds
<1>3. MachineInv(mach, left)
  BY <1>1 DEF Init, MachineInv, Base
<1>4. BoundaryInMemory
  BY DEF Init, BoundaryInMemory, Live
<1> QED BY <1>2, <1>3, <1>4 DEF Init, IInv

\* Every instruction preserves IInv.
LEMMA NextIInv == IInv /\ [Next]_vars => IInv'
<1> SUFFICES ASSUME IInv, [Next]_vars PROVE IInv'
  OBVIOUS
<1>1. CASE UNCHANGED vars
  BY <1>1 DEF vars, IInv, TypeOK, MachineInv, Base, Held, CanRead, Holds, Live,
              BoundaryInMemory
<1>2. CASE EmitDefinition
  <2>1. PICK d \in Temps, n \in Uses :
          \/ \E s1 \in Sources :
                \/ EmitUnary(d, n, s1)
                \/ EmitDeref(d, n, s1)
                \/ \E s2 \in Sources : EmitBinary(d, n, s1, s2)
                \/ \E s2 \in Operands :
                      \/ EmitShift(d, n, s1, s2)
                      \/ \E result \in {EAX, EDX} : EmitDivide(d, n, s1, s2, result)
          \/ \E s \in Operands :
                \/ EmitMove(d, n, s)
                \/ EmitFirstMove(d, n, s)
          \/ EmitAddress(d, n)
          \/ EmitExtend(d, n)
          \/ \E f \in Temps \cup {Const}, arg1, arg2 \in Args :
                EmitCall(d, n, f, arg1, arg2)
    BY <1>2 DEF EmitDefinition
  <2>2. Var \in Sources /\ Var \in Operands /\ Sources \subseteq Operands
    BY DEF Sources, Operands
  <2>3. CASE \E f \in Temps \cup {Const}, arg1, arg2 \in Args :
                EmitCall(d, n, f, arg1, arg2)
    BY <2>3, CallStep
  <2>4. CASE \E s1 \in Sources :
                \/ EmitUnary(d, n, s1)
                \/ EmitDeref(d, n, s1)
    BY <2>2, <2>4, DefinitionStep
  <2>5. CASE \E s1 \in Sources :
                \/ \E s2 \in Sources : EmitBinary(d, n, s1, s2)
                \/ \E s2 \in Operands :
                      \/ EmitShift(d, n, s1, s2)
                      \/ \E result \in {EAX, EDX} : EmitDivide(d, n, s1, s2, result)
    BY <2>2, <2>5, DefinitionStep
  <2>6. CASE \E s \in Operands : EmitMove(d, n, s) \/ EmitFirstMove(d, n, s)
    BY <2>2, <2>6, DefinitionStep
  <2>7. CASE EmitAddress(d, n) \/ EmitExtend(d, n)
    BY <2>2, <2>7, DefinitionStep
  <2> QED BY <2>1, <2>3, <2>4, <2>5, <2>6, <2>7
<1>3. CASE EmitEffect
  <2>1. /\ Var \in Sources /\ Var \in Operands /\ EDX \in NarrowRegs
        /\ {Var, Const} \subseteq Operands
    BY DEF Sources, Operands, NarrowRegs
  <2>2. CASE \E s \in Operands, a \in Sources : EmitMoveToVar(s) \/ EmitIndirectMove(a, s)
    BY <2>1, <2>2, EffectsStep
  <2>3. CASE \E s \in Operands, d \in Temps : EmitSecondMove(d, s)
    BY <2>3, SecondMoveStep
  <2>4. CASE \E s \in Sources :
                \/ EmitReturn(s)
                \/ EmitDerefBBlock(s)
                \/ EmitIndirectMoveBBlock(s)
                \/ \E endr \in NarrowRegs :
                      \/ EmitDerefNarrow(s, endr)
                      \/ EmitTruncate(s, endr)
    BY <2>1, <2>4, EffectsStep
  <2>5. CASE \E s \in {Var, Const}, endr \in NarrowRegs :
                \/ EmitMoveNarrow(s, endr)
                \/ \E a \in Sources : EmitIndirectMoveNarrow(a, s, endr)
    BY <2>1, <2>5, EffectsStep
  <2>6. CASE EmitMoveBBlock \/ EmitClear
    BY <2>1, <2>6, EffectsStep
  <2>7. CASE \E f \in Temps \cup {Const}, arg1, arg2 \in Args, record \in BOOLEAN :
                EmitCallNoTemp(f, arg1, arg2, record)
    BY <2>7, CallNoTempStep
  <2> QED BY <1>3, <2>1, <2>2, <2>3, <2>4, <2>5, <2>6, <2>7 DEF EmitEffect
<1>4. CASE EndBBlock
  BY <1>4, EndStep
<1>5. CASE TableIndex
  BY <1>5, TableIndexStep DEF TableIndex
<1> QED BY <1>1, <1>2, <1>3, <1>4, <1>5 DEF Next

\* The inductive invariant holds in every reachable state.
THEOREM Invariance == Spec => []IInv
  BY InitIInv, NextIInv, PTL DEF Spec

\* The emitter's state stays in its type.
THEOREM TypeCorrect == Spec => []TypeOK
<1>1. IInv => TypeOK
  BY DEF IInv
<1> QED BY <1>1, Invariance, PTL

\* No register's list ever holds two temporaries.
THEOREM OneTempPerRegister == Spec => []AtMostOneTemp
<1>1. IInv => AtMostOneTemp
  BY DEF IInv, MachineInv, Base, AtMostOneTemp
<1> QED BY <1>1, Invariance, PTL

\* The lists and t->reg agree on where every live temporary is.
THEOREM ListsAgree == Spec => []LinkAgrees
<1>1. IInv => LinkAgrees
  BY DEF IInv, MachineInv, Base, Held, LinkAgrees, Live
<1> QED BY <1>1, Invariance, PTL

\* No live temporary that a cast did not define ever loses its value.
THEOREM NoValueLost == Spec => []LiveValueHeld
<1>1. IInv => LiveValueHeld
  BY DEF IInv, MachineInv, Held, LiveValueHeld, Live
<1> QED BY <1>1, Invariance, PTL

\* No instruction reads a source from a register or a slot that holds another value.
THEOREM SourcesRight == Spec => []OperandsRight
<1>1. IInv => OperandsRight
  BY DEF IInv, MachineInv, Base, OperandsRight
<1> QED BY <1>1, Invariance, PTL

\* The assertion of SeclecSpillReg never fails.
THEOREM RegisterFound == Spec => []NeverOutOfRegisters
<1>1. IInv => NeverOutOfRegisters
  BY DEF IInv, MachineInv, Base, NeverOutOfRegisters
<1> QED BY <1>1, Invariance, PTL

\* The reference counts are the occurrences that are left.
THEOREM CountsExact == Spec => []RefExact
<1>1. IInv => RefExact
  BY DEF IInv, MachineInv, RefExact
<1> QED BY <1>1, Invariance, PTL

\* Basic blocks start with every live value in memory.
THEOREM BlocksAgree == Spec => []BoundaryInMemory
<1>1. IInv => BoundaryInMemory
  BY DEF IInv
<1> QED BY <1>1, Invariance, PTL
=============================================================================
