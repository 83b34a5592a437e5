--------------------------- MODULE RegAllocProofs ---------------------------
(***************************************************************************)
(* What the register allocator preserves, for every register file and      *)
(* every set of temporaries.                                               *)
(*                                                                         *)
(* Base(m) is what holds of the machine at every moment of an instruction; *)
(* Held(m, t) says that the temporary t can be read and spilled at will.   *)
(* Each lemma says of one C function that it preserves Base, which         *)
(* temporaries stay held, and what it leaves alone.                        *)
(***************************************************************************)
EXTENDS RegAlloc, FiniteSetTheorems, TLAPS

Base(m) ==
    /\ m \in Machine
    /\ \A r \in Regs : \A t \in m.link[r] : m.reg[t] = r
    /\ \A r \in Regs : \A t, u \in m.link[r] : t = u
    /\ "src" \notin m.wrong
    /\ "noreg" \notin m.wrong

Held(m, t) ==
    /\ m.ref[t] > 0
    /\ m.reg[t] # NULL => t \in m.link[m.reg[t]]
    /\ t \notin m.wide =>
         /\ m.reg[t] # NULL => m.rval[m.reg[t]] = t
         /\ (m.reg[t] = NULL \/ ~m.needwb[t]) => m.mval[t]

\* p may be read: it is no temporary, or one that is where its name says
CanRead(m, p) == Holds(m, p) \/ p \in m.wide

\* n differs from m in neither the ref counts nor the widened temporaries
SameTemps(m, n) == n.ref = m.ref /\ n.wide = m.wide

USE DEF EAX, ECX, EDX, EBX, ESI, EDI, Var, Const

-----------------------------------------------------------------------------
(* SpillReg and ClearRegs                                                   *)

\* Spilling keeps every held temporary held, and empties the registers' lists.
LEMMA SpillRegsLemma ==
    ASSUME NEW m, Base(m), NEW R \in SUBSET Regs
    PROVE  LET n == SpillRegs(m, R)
           IN  /\ Base(n)
               /\ \A t \in Temps : Held(m, t) => Held(n, t)
               /\ SameTemps(m, n)
               /\ n.rval = m.rval /\ n.used = m.used /\ n.wrong = m.wrong
               /\ \A r \in R : n.link[r] = {}
               /\ \A r \in Regs \ R : n.link[r] = m.link[r]
               /\ \A t \in Temps : n.reg[t] \in {m.reg[t], NULL}
               /\ \A t \in Temps : (\A r \in R : t \notin m.link[r]) =>
                      n.reg[t] = m.reg[t] /\ n.mval[t] = m.mval[t]
<1> DEFINE n == SpillRegs(m, R)
<1>1. /\ n \in Machine
      /\ SameTemps(m, n)
      /\ n.rval = m.rval /\ n.used = m.used /\ n.wrong = m.wrong
  BY RegAllocAssumption DEF Base, Machine, SpillRegs, SameTemps, Operands
<1>2. /\ \A r \in R : n.link[r] = {}
      /\ \A r \in Regs \ R : n.link[r] = m.link[r]
  BY DEF Base, Machine, SpillRegs
<1>3. \A t \in Temps :
        n.reg[t] = IF \E r \in R : t \in m.link[r] THEN NULL ELSE m.reg[t]
  BY DEF Base, Machine, SpillRegs
<1>4. \A t \in Temps : (\A r \in R : t \notin m.link[r]) =>
          n.needwb[t] = m.needwb[t] /\ n.mval[t] = m.mval[t]
  BY DEF Base, Machine, SpillRegs
<1>5. Base(n)
  <2>1. \A r \in Regs : \A t \in n.link[r] : n.reg[t] = r
    BY <1>1, <1>2, <1>3 DEF Base, Machine
  <2>2. \A r \in Regs : \A t, u \in n.link[r] : t = u
    BY <1>2 DEF Base
  <2> QED BY <1>1, <2>1, <2>2 DEF Base
<1>6. ASSUME NEW t \in Temps, Held(m, t) PROVE Held(n, t)
  <2>1. n.ref[t] > 0 /\ (t \notin n.wide => t \notin m.wide)
    BY <1>1, <1>6 DEF SameTemps, Held
  <2>2. CASE \E r \in R : t \in m.link[r]
    <3>1. m.reg[t] \in R /\ t \in m.link[m.reg[t]]
      BY <2>2 DEF Base
    <3>2. n.reg[t] = NULL
      BY <1>3, <2>2
    <3>3. t \notin m.wide => n.mval[t]
      BY <1>6, <3>1, RegAllocAssumption DEF Held, Base, Machine, SpillRegs, Dirty
    <3> QED BY <2>1, <3>2, <3>3 DEF Held
  <2>3. CASE \A r \in R : t \notin m.link[r]
    <3>1. n.reg[t] = m.reg[t] /\ n.needwb[t] = m.needwb[t] /\ n.mval[t] = m.mval[t]
      BY <1>3, <1>4, <2>3
    <3>2. m.reg[t] # NULL => m.reg[t] \in Regs \ R
      <4>1. m.reg[t] \in Regs \cup {NULL}
        BY DEF Base, Machine
      <4>2. m.reg[t] # NULL => t \in m.link[m.reg[t]]
        BY <1>6 DEF Held
      <4> QED BY <2>3, <4>1, <4>2
    <3> QED BY <1>1, <1>2, <1>6, <2>1, <3>1, <3>2 DEF Held
  <2> QED BY <2>2, <2>3
<1> QED BY <1>1, <1>2, <1>3, <1>4, <1>5, <1>6

-----------------------------------------------------------------------------
(* GetReg                                                                   *)

Cheapest(S, cost, i) ==
    /\ i \in S
    /\ \A j \in S : cost[i] < cost[j] \/ (cost[i] = cost[j] /\ i <= j)

\* One more register: either it is the cheapest, or the cheapest so far is.
LEMMA CheapestOfMore ==
    ASSUME NEW S \in SUBSET Int, NEW x \in Int, NEW cost,
           \A j \in S \cup {x} : cost[j] \in Int,
           S = {} \/ \E i \in S : Cheapest(S, cost, i)
    PROVE  \E i \in S \cup {x} : Cheapest(S \cup {x}, cost, i)
<1>1. CASE S = {}
  <2>1. Cheapest(S \cup {x}, cost, x)
    BY <1>1 DEF Cheapest
  <2> QED BY <2>1
<1>2. CASE \E i \in S : Cheapest(S, cost, i)
  <2>1. PICK i \in S : Cheapest(S, cost, i)
    BY <1>2
  <2>2. CASE cost[i] < cost[x] \/ (cost[i] = cost[x] /\ i <= x)
    <3>1. Cheapest(S \cup {x}, cost, i)
      BY <2>1, <2>2 DEF Cheapest
    <3> QED BY <3>1
  <2>3. CASE ~(cost[i] < cost[x] \/ (cost[i] = cost[x] /\ i <= x))
    <3>1. Cheapest(S \cup {x}, cost, x)
      BY <2>1, <2>3 DEF Cheapest
    <3> QED BY <3>1
  <2> QED BY <2>2, <2>3
<1> QED BY <1>1, <1>2

\* SeclecSpillReg's scan finds a register whenever it has a candidate.
LEMMA CheapestExists ==
    ASSUME NEW S \in SUBSET {EAX, ECX, EDX, EBX, ESI, EDI}, S # {},
           NEW cost, \A j \in S : cost[j] \in Int
    PROVE  \E i \in S : Cheapest(S, cost, i)
<1> DEFINE P(T) == T = {} \/ \E i \in T : Cheapest(T, cost, i)
<1>1. ASSUME NEW T \in SUBSET S, NEW x \in S, P(T) PROVE P(T \cup {x})
  <2>1. T \in SUBSET Int /\ x \in Int
    OBVIOUS
  <2> QED BY <1>1, <2>1, CheapestOfMore
<1>2. ASSUME NEW T \in SUBSET S, NEW x \in {EAX, ECX, EDX, EBX, ESI, EDI}, P(T)
      PROVE  P(T \cup (S \cap {x}))
  <2>1. CASE x \in S
    <3>1. T \cup (S \cap {x}) = T \cup {x}
      BY <2>1
    <3> QED BY <1>1, <1>2, <2>1, <3>1
  <2>2. CASE x \notin S
    <3>1. T \cup (S \cap {x}) = T
      BY <2>2
    <3> QED BY <1>2, <3>1
  <2> QED BY <2>1, <2>2
<1> DEFINE T1 == {} \cup (S \cap {EAX})
           T2 == T1 \cup (S \cap {ECX})
           T3 == T2 \cup (S \cap {EDX})
           T4 == T3 \cup (S \cap {EBX})
           T5 == T4 \cup (S \cap {ESI})
           T6 == T5 \cup (S \cap {EDI})
<1>3. /\ T1 \in SUBSET S /\ T2 \in SUBSET S /\ T3 \in SUBSET S
      /\ T4 \in SUBSET S /\ T5 \in SUBSET S /\ T6 = S
  OBVIOUS
<1> HIDE DEF P
<1>4. P({})
  BY DEF P
<1>5. P(T1)
  BY <1>2, <1>4
<1> HIDE DEF T1
<1>6. P(T2)
  BY <1>2, <1>3, <1>5
<1> HIDE DEF T2
<1>7. P(T3)
  BY <1>2, <1>3, <1>6
<1> HIDE DEF T3
<1>8. P(T4)
  BY <1>2, <1>3, <1>7
<1> HIDE DEF T4
<1>9. P(T5)
  BY <1>2, <1>3, <1>8
<1> HIDE DEF T5
<1>10. P(T6)
  BY <1>2, <1>3, <1>9
<1> QED BY <1>3, <1>10 DEF P

\* The sum of the reference counts a spill would write back is a number.
LEMMA SpillCostType ==
    ASSUME NEW m, m \in Machine, NEW i \in Regs
    PROVE  SpillCost(m, i) \in Nat
<1> DEFINE D == {u \in m.link[i] : Dirty(m, u)}
           C == {{t} \X (1 .. m.ref[t]) : t \in D}
<1>1. D \in SUBSET Temps /\ IsFiniteSet(D)
  <2>1. D \in SUBSET Temps
    BY DEF Machine
  <2> QED BY <2>1, RegAllocAssumption, FS_Subset
<1>2. IsFiniteSet(C)
  <2> DEFINE f == [t \in D |-> {t} \X (1 .. m.ref[t])]
  <2>1. f \in Surjection(D, C)
    BY DEF Surjection
  <2> QED BY <1>1, <2>1, FS_Surjection
<1>3. ASSUME NEW t \in D PROVE IsFiniteSet({t} \X (1 .. m.ref[t]))
  <2>1. m.ref[t] \in Int
    BY <1>1 DEF Machine
  <2>2. IsFiniteSet(1 .. m.ref[t])
    <3>1. \A k \in Int : IsFiniteSet(1 .. k)
      BY FS_Interval
    <3> QED BY <2>1, <3>1
  <2>3. IsFiniteSet({t})
    BY FS_Singleton
  <2> QED BY <2>2, <2>3, FS_Product
<1>4. IsFiniteSet(UNION C)
  BY <1>2, <1>3, FS_UNION
<1> QED BY <1>4, FS_CardinalityType DEF SpillCost

\* While some register is not used, PickReg returns one that is not.
LEMMA PickRegLemma ==
    ASSUME NEW m, Base(m), NEW endr,
           \E i \in Regs : i <= endr /\ i \notin m.used
    PROVE  /\ PickReg(m, endr) \in Regs
           /\ PickReg(m, endr) <= endr
           /\ PickReg(m, endr) \notin m.used
<1> DEFINE E == EmptyRegs(m, endr)
           S == SpillCandidates(m, endr)
           cost == [i \in S |-> SpillCost(m, i)]
<1>1. CASE E # {}
  <2> DEFINE zero == [i \in E |-> 0]
  <2>1. E \in SUBSET {EAX, ECX, EDX, EBX, ESI, EDI}
    BY RegAllocAssumption DEF EmptyRegs
  <2>2. \A j \in E : zero[j] \in Int
    OBVIOUS
  <2>3. \E i \in E : Cheapest(E, zero, i)
    <3> HIDE DEF E, zero
    <3> QED BY <1>1, <2>1, <2>2, CheapestExists
  <2>4. \E i \in E : \A j \in E : i <= j
    BY <2>3 DEF Cheapest
  <2>5. FindEmptyRegs(m, endr) \in E
    BY <2>4 DEF FindEmptyRegs
  <2> QED BY <1>1, <2>5 DEF PickReg, EmptyRegs
<1>2. CASE E = {}
  <2>1. S # {} /\ S \in SUBSET {EAX, ECX, EDX, EBX, ESI, EDI} /\ S \in SUBSET Regs
    BY RegAllocAssumption DEF SpillCandidates
  <2>2. \A j \in S : cost[j] \in Int
    BY <2>1, SpillCostType DEF Base
  <2>3. \E i \in S : Cheapest(S, cost, i)
    <3> HIDE DEF S, cost
    <3> QED BY <2>1, <2>2, CheapestExists
  <2>4. SeclecSpillReg(m, endr) \in S
    BY <2>3 DEF SeclecSpillReg, Cheapest
  <2> QED BY <1>2, <2>1, <2>4 DEF PickReg, SpillCandidates
<1> QED BY <1>1, <1>2

\* GetRegInternal hands out an unused register with an empty list, and evicts
\* its temporary without losing it.
LEMMA GetRegLemma ==
    ASSUME NEW m, Base(m), NEW endr,
           \E i \in Regs : i <= endr /\ i \notin m.used
    PROVE  LET n == GetRegInternal(m, endr)
               r == PickReg(m, endr)
           IN  /\ Base(n)
               /\ r \in Regs /\ r \notin m.used
               /\ \A t \in Temps : Held(m, t) => Held(n, t)
               /\ SameTemps(m, n)
               /\ n.rval = m.rval /\ n.wrong = m.wrong
               /\ n.used = m.used \cup {r}
               /\ n.link[r] = {}
               /\ \A q \in Regs \ {r} : n.link[q] = m.link[q]
               /\ \A t \in Temps : n.reg[t] \in {m.reg[t], NULL}
               /\ \A t \in Temps : t \notin m.link[r] =>
                      n.reg[t] = m.reg[t] /\ n.mval[t] = m.mval[t]
<1> DEFINE r == PickReg(m, endr)
           s == SpillRegs(m, {r})
           n == GetRegInternal(m, endr)
<1>1. r \in Regs /\ r \notin m.used
  BY PickRegLemma
<1>2. r # NULL /\ {r} \cap Regs = {r}
  BY <1>1, RegAllocAssumption
<1>3. n = [s EXCEPT !.used = @ \cup {r}]
  BY <1>2 DEF GetRegInternal, SpillReg
<1> HIDE DEF r
<1>4. /\ Base(s)
      /\ \A t \in Temps : Held(m, t) => Held(s, t)
      /\ SameTemps(m, s)
      /\ s.rval = m.rval /\ s.used = m.used /\ s.wrong = m.wrong
      /\ s.link[r] = {}
      /\ \A q \in Regs \ {r} : s.link[q] = m.link[q]
      /\ \A t \in Temps : s.reg[t] \in {m.reg[t], NULL}
      /\ \A t \in Temps : t \notin m.link[r] =>
             s.reg[t] = m.reg[t] /\ s.mval[t] = m.mval[t]
  BY <1>1, SpillRegsLemma
<1> HIDE DEF s, n
<1>5. /\ n \in Machine
      /\ n.used = s.used \cup {r}
      /\ n.link = s.link /\ n.reg = s.reg /\ n.needwb = s.needwb /\ n.ref = s.ref
      /\ n.rval = s.rval /\ n.mval = s.mval /\ n.wide = s.wide /\ n.wrong = s.wrong
  BY <1>1, <1>3, <1>4 DEF Base, Machine
<1>6. Base(n)
  BY <1>4, <1>5 DEF Base
<1>7. \A t \in Temps : Held(m, t) => Held(n, t)
  BY <1>4, <1>5 DEF Held
<1> QED BY <1>1, <1>4, <1>5, <1>6, <1>7 DEF SameTemps, r, n

-----------------------------------------------------------------------------
(* Reading operands                                                         *)

\* n differs from m in no register's list, and in what is claimed for whom
SameLists(m, n) ==
    /\ n.link = m.link /\ n.reg = m.reg /\ n.used = m.used
    /\ n.needwb = m.needwb /\ n.mval = m.mval

\* Reading a held temporary, or what is no temporary, goes right.
LEMMA UseLemma ==
    ASSUME NEW m, Base(m), NEW p, CanRead(m, p)
    PROVE  /\ Base(Use(m, p))
           /\ SameTemps(m, Use(m, p)) /\ SameLists(m, Use(m, p))
           /\ Use(m, p).rval = m.rval
           /\ \A t \in Temps : Held(m, t) => Held(Use(m, p), t)
<1> DEFINE n == Use(m, p)
<1>1. CASE Holds(m, p)
  BY <1>1 DEF Use, SameTemps, SameLists
<1>2. CASE ~Holds(m, p)
  <2>1. p \in m.wide
    BY <1>2 DEF CanRead
  <2>2. n = [m EXCEPT !.wrong = @ \cup {"widened"}]
    BY <1>2, <2>1 DEF Use, Blame
  <2>3. n \in Machine /\ SameTemps(m, n) /\ SameLists(m, n) /\ n.rval = m.rval
    BY <2>2 DEF Base, Machine, SameTemps, SameLists, Faults
  <2>4. "src" \notin n.wrong /\ "noreg" \notin n.wrong
    BY <2>2 DEF Base, Machine
  <2>5. Base(n)
    BY <2>3, <2>4 DEF Base, SameLists
  <2>6. \A t \in Temps : Held(m, t) => Held(n, t)
    BY <2>3 DEF Held, SameTemps, SameLists
  <2> QED BY <2>3, <2>5, <2>6
<1> QED BY <1>1, <1>2

\* A held temporary may be read.
LEMMA HeldCanRead ==
    ASSUME NEW m, NEW p, p \in Temps => Held(m, p)
    PROVE  CanRead(m, p)
  BY DEF CanRead, Holds, Held

\* A register no held temporary lives in may be loaded.
LEMMA LoadLemma ==
    ASSUME NEW m, Base(m), NEW r \in Regs, NEW p \in Operands, CanRead(m, p)
    PROVE  LET n == Load(m, r, p)
           IN  /\ Base(n)
               /\ SameTemps(m, n) /\ SameLists(m, n)
               /\ p \in m.wide \/ n.rval[r] = p
               /\ \A q \in Regs \ {r} : n.rval[q] = m.rval[q]
               /\ \A t \in Temps : Held(m, t) /\ m.reg[t] # r => Held(n, t)
<1> DEFINE u == Use(m, p)
           v == IF Holds(m, p) THEN p ELSE NULL
           n == Load(m, r, p)
<1>1. n = [u EXCEPT !.rval[r] = v]
  BY DEF Load
<1>2. /\ Base(u) /\ SameTemps(m, u) /\ SameLists(m, u)
      /\ u.rval = m.rval
      /\ \A t \in Temps : Held(m, t) => Held(u, t)
  BY UseLemma
<1>3. p \in m.wide \/ v = p
  BY DEF CanRead
<1>4. v \in Operands \cup {NULL}
  OBVIOUS
<1> HIDE DEF u, v, n
<1>5. /\ n \in Machine
      /\ n.rval = [u.rval EXCEPT ![r] = v]
      /\ n.link = u.link /\ n.reg = u.reg /\ n.needwb = u.needwb /\ n.ref = u.ref
      /\ n.used = u.used /\ n.mval = u.mval /\ n.wide = u.wide /\ n.wrong = u.wrong
  BY <1>1, <1>2, <1>4 DEF Base, Machine
<1>6. n.rval[r] = v /\ \A q \in Regs \ {r} : n.rval[q] = m.rval[q]
  BY <1>2, <1>5 DEF Base, Machine
<1>7. Base(n)
  BY <1>2, <1>5 DEF Base
<1>8. ASSUME NEW t \in Temps, Held(m, t), m.reg[t] # r PROVE Held(n, t)
  <2>1. Held(u, t) /\ u.reg[t] # r
    BY <1>2, <1>8 DEF SameLists
  <2>2. u.reg[t] \in Regs \cup {NULL}
    BY <1>2 DEF Base, Machine
  <2>3. u.reg[t] # NULL => n.rval[n.reg[t]] = u.rval[u.reg[t]]
    BY <1>2, <1>5, <1>6, <2>1, <2>2
  <2> QED BY <1>5, <2>1, <2>3 DEF Held
<1> QED BY <1>2, <1>3, <1>5, <1>6, <1>7, <1>8 DEF SameTemps, SameLists, n

\* A held temporary lives in no register with an empty list.
LEMMA EmptyLemma ==
    ASSUME NEW m, NEW r \in Regs, m.link[r] = {}, NEW t, Held(m, t)
    PROVE  m.reg[t] # r
  BY RegAllocAssumption DEF Held

\* PutInReg returns a register that holds the value of p.
LEMMA PutInRegLemma ==
    ASSUME NEW m, Base(m), NEW p \in Operands, CanRead(m, p),
           \E i \in Regs : i \notin m.used
    PROVE  LET n == PutInReg(m, p)
               r == PutInRegOf(m, p)
           IN  /\ Base(n)
               /\ SameTemps(m, n)
               /\ r \in Regs
               /\ p \in m.wide \/ n.rval[r] = p
               /\ n.used \in {m.used, m.used \cup {r}}
               /\ \A t \in Temps : n.reg[t] \in {m.reg[t], NULL}
               /\ \A t \in Temps : Held(m, t) => Held(n, t)
<1> DEFINE n == PutInReg(m, p)
           r == PutInRegOf(m, p)
<1>1. CASE p \in Temps /\ m.reg[p] # NULL
  <2>1. n = m /\ r = m.reg[p]
    BY <1>1 DEF PutInReg, PutInRegOf
  <2>2. r \in Regs
    BY <1>1, <2>1 DEF Base, Machine
  <2>3. p \in m.wide \/ m.rval[r] = p
    BY <1>1, <2>1 DEF CanRead, Holds
  <2> QED BY <2>1, <2>2, <2>3 DEF SameTemps
<1>2. CASE ~(p \in Temps /\ m.reg[p] # NULL)
  <2> DEFINE g == GetReg(m)
  <2>1. n = Load(g, r, p) /\ r = PickReg(m, EDI) /\ g = GetRegInternal(m, EDI)
    BY <1>2 DEF PutInReg, PutInRegOf, GetReg
  <2>2. \E i \in Regs : i <= EDI /\ i \notin m.used
    BY RegAllocAssumption
  <2> HIDE DEF n, r, g
  <2>3. /\ Base(g)
        /\ r \in Regs
        /\ \A t \in Temps : Held(m, t) => Held(g, t)
        /\ SameTemps(m, g)
        /\ g.used = m.used \cup {r}
        /\ g.link[r] = {}
        /\ \A t \in Temps : g.reg[t] \in {m.reg[t], NULL}
        /\ \A t \in Temps : t \notin m.link[r] => g.reg[t] = m.reg[t] /\ g.mval[t] = m.mval[t]
    BY <2>1, <2>2, GetRegLemma
  <2>4. CanRead(g, p)
    <3>1. p \in Temps => p \notin m.link[r]
      BY <1>2, <2>3, RegAllocAssumption DEF Base
    <3> QED BY <1>2, <2>3, <3>1 DEF CanRead, Holds, SameTemps
  <2>5. \A t \in Temps : Held(g, t) => g.reg[t] # r
    BY <2>3, EmptyLemma
  <2>6. /\ Base(n)
        /\ SameTemps(g, n) /\ SameLists(g, n)
        /\ p \in g.wide \/ n.rval[r] = p
        /\ \A t \in Temps : Held(g, t) /\ g.reg[t] # r => Held(n, t)
    BY <2>1, <2>3, <2>4, LoadLemma
  <2> QED BY <2>3, <2>5, <2>6 DEF SameTemps, SameLists, n, r
<1> QED BY <1>1, <1>2

-----------------------------------------------------------------------------
(* AllocateReg                                                              *)

\* A temporary that is on no list goes to a register whose list is empty.
LEMMA AddVarLemma ==
    ASSUME NEW m, Base(m), NEW r \in Regs, m.link[r] = {},
           NEW v \in Temps, m.reg[v] = NULL
    PROVE  LET n == AddVarToReg(m, r, v)
           IN  /\ Base(n)
               /\ SameTemps(m, n)
               /\ n.rval = m.rval /\ n.used = m.used /\ n.needwb = m.needwb
               /\ n.mval = m.mval
               /\ n.reg[v] = r /\ n.link[r] = {v}
               /\ \A q \in Regs \ {r} : n.link[q] = m.link[q]
               /\ \A t \in Temps \ {v} : n.reg[t] = m.reg[t]
               /\ \A t \in Temps \ {v} : Held(m, t) => Held(n, t)
<1> DEFINE n == AddVarToReg(m, r, v)
<1>1. /\ n \in Machine
      /\ n.link = [m.link EXCEPT ![r] = {v}]
      /\ n.reg = [m.reg EXCEPT ![v] = r]
      /\ n.needwb = m.needwb /\ n.ref = m.ref /\ n.used = m.used
      /\ n.rval = m.rval /\ n.mval = m.mval /\ n.wide = m.wide /\ n.wrong = m.wrong
  BY DEF AddVarToReg, Base, Machine
<1> HIDE DEF n
<1>2. /\ n.reg[v] = r /\ n.link[r] = {v}
      /\ \A q \in Regs \ {r} : n.link[q] = m.link[q]
      /\ \A t \in Temps \ {v} : n.reg[t] = m.reg[t]
  BY <1>1 DEF Base, Machine
<1>3. \A q \in Regs : v \notin m.link[q]
  BY RegAllocAssumption DEF Base
<1>4. Base(n)
  <2>1. \A q \in Regs : \A t \in n.link[q] : n.reg[t] = q
    BY <1>1, <1>2, <1>3 DEF Base, Machine
  <2>2. \A q \in Regs : \A t, u \in n.link[q] : t = u
    BY <1>2 DEF Base
  <2> QED BY <1>1, <2>1, <2>2 DEF Base
<1>5. ASSUME NEW t \in Temps \ {v}, Held(m, t) PROVE Held(n, t)
  <2>1. m.reg[t] \in Regs \cup {NULL} /\ m.reg[t] # r
    BY <1>5, EmptyLemma DEF Base, Machine
  <2>2. m.reg[t] # NULL => n.link[n.reg[t]] = m.link[m.reg[t]]
    BY <1>2, <2>1
  <2> QED BY <1>1, <1>2, <1>5, <2>2 DEF Held
<1> QED BY <1>1, <1>2, <1>4, <1>5 DEF SameTemps, n

\* A source operand gets a register that holds it, and stays held.
LEMMA AllocateSrcLemma ==
    ASSUME NEW m, Base(m), NEW p \in Operands, p \in Temps => Held(m, p),
           \E i \in Regs : i \notin m.used
    PROVE  LET n == AllocateSrc(m, p)
           IN  /\ Base(n)
               /\ SameTemps(m, n)
               /\ p \notin Temps => n = m
               /\ p \in Temps => n.reg[p] \in Regs /\ n.used = m.used \cup {n.reg[p]}
               /\ \A t \in Temps \ {p} : n.reg[t] \in {m.reg[t], NULL}
               /\ \A q \in m.used : n.rval[q] = m.rval[q] /\ n.link[q] = m.link[q]
               /\ \A t \in Temps : Held(m, t) => Held(n, t)
<1> DEFINE n == AllocateSrc(m, p)
<1>1. CASE p \notin Temps
  BY <1>1 DEF AllocateSrc, SameTemps
<1>2. CASE p \in Temps /\ m.reg[p] # NULL
  <2>1. n = [m EXCEPT !.used = @ \cup {m.reg[p]}]
    BY <1>2 DEF AllocateSrc
  <2>2. m.reg[p] \in Regs
    BY <1>2 DEF Base, Machine
  <2>3. /\ n \in Machine /\ n.used = m.used \cup {m.reg[p]}
        /\ n.link = m.link /\ n.reg = m.reg /\ n.needwb = m.needwb /\ n.ref = m.ref
        /\ n.rval = m.rval /\ n.mval = m.mval /\ n.wide = m.wide /\ n.wrong = m.wrong
    BY <2>1, <2>2 DEF Base, Machine
  <2> HIDE DEF n
  <2>4. Base(n)
    BY <2>3 DEF Base
  <2>5. \A t \in Temps : Held(m, t) => Held(n, t)
    BY <2>3 DEF Held
  <2> QED BY <1>2, <2>2, <2>3, <2>4, <2>5 DEF SameTemps, n
<1>3. CASE p \in Temps /\ m.reg[p] = NULL
  <2> DEFINE r == PickReg(m, EDI)
             g == GetRegInternal(m, EDI)
             l == Load(g, r, p)
  <2>1. n = AddVarToReg(l, r, p)
    BY <1>3 DEF AllocateSrc, GetReg
  <2>2. \E i \in Regs : i <= EDI /\ i \notin m.used
    BY RegAllocAssumption
  <2>3. /\ Base(g)
        /\ r \in Regs /\ r \notin m.used
        /\ \A t \in Temps : Held(m, t) => Held(g, t)
        /\ SameTemps(m, g)
        /\ g.rval = m.rval
        /\ g.used = m.used \cup {r}
        /\ g.link[r] = {}
        /\ \A q \in Regs \ {r} : g.link[q] = m.link[q]
        /\ \A t \in Temps : g.reg[t] \in {m.reg[t], NULL}
    BY <2>2, GetRegLemma
  <2> HIDE DEF g, r
  <2>4. Held(g, p) /\ CanRead(g, p)
    BY <1>3, <2>3, HeldCanRead
  <2>5. /\ Base(l)
        /\ SameTemps(g, l) /\ SameLists(g, l)
        /\ p \in g.wide \/ l.rval[r] = p
        /\ \A q \in Regs \ {r} : l.rval[q] = g.rval[q]
        /\ \A t \in Temps : Held(g, t) /\ g.reg[t] # r => Held(l, t)
    BY <2>3, <2>4, LoadLemma
  <2>6. \A t \in Temps : Held(g, t) => g.reg[t] # r
    BY <2>3, EmptyLemma
  <2> HIDE DEF l, n
  <2>7. l.link[r] = {} /\ l.reg[p] = NULL
    BY <1>3, <2>3, <2>5 DEF SameLists
  <2>8. /\ Base(n)
        /\ SameTemps(l, n)
        /\ n.rval = l.rval /\ n.used = l.used /\ n.needwb = l.needwb
        /\ n.mval = l.mval
        /\ n.reg[p] = r /\ n.link[r] = {p}
        /\ \A q \in Regs \ {r} : n.link[q] = l.link[q]
        /\ \A t \in Temps \ {p} : n.reg[t] = l.reg[t]
        /\ \A t \in Temps \ {p} : Held(l, t) => Held(n, t)
    BY <1>3, <2>1, <2>3, <2>5, <2>7, AddVarLemma
  <2>9. Held(n, p)
    <3>1. Held(l, p)
      BY <1>3, <2>3, <2>4, <2>5, <2>6
    <3>2. p \notin n.wide => n.mval[p]
      BY <2>7, <2>8, <3>1 DEF Held, SameTemps
    <3>3. p \notin n.wide => n.rval[r] = p
      BY <2>5, <2>8 DEF SameTemps
    <3> QED BY <2>8, <3>1, <3>2, <3>3 DEF Held, SameTemps
  <2>10. \A t \in Temps : Held(m, t) => Held(n, t)
    BY <2>3, <2>5, <2>6, <2>8, <2>9
  <2>11. \A q \in m.used : n.rval[q] = m.rval[q] /\ n.link[q] = m.link[q]
    <3>1. m.used \in SUBSET (Regs \ {r})
      BY <2>3 DEF Base, Machine
    <3> QED BY <2>3, <2>5, <2>8, <3>1 DEF SameLists
  <2>12. \A t \in Temps \ {p} : n.reg[t] \in {m.reg[t], NULL}
    BY <2>3, <2>5, <2>8 DEF SameLists
  <2> QED BY <1>3, <2>3, <2>5, <2>8, <2>10, <2>11, <2>12 DEF SameTemps, SameLists, n
<1> QED BY <1>1, <1>2, <1>3

\* A result operand gets a register of its own: a fresh one, or that of src1 at
\* its last use, which then still holds the value of src1.
LEMMA AllocateDstLemma ==
    ASSUME NEW m, Base(m), NEW d \in Temps, NEW src1 \in Operands \ {d},
           m.reg[d] # NULL => d \in m.link[m.reg[d]],
           src1 \in Temps /\ m.ref[src1] = 1 => Held(m, src1),
           \E i \in Regs : i \notin m.used
    PROVE  LET n == AllocateDst(m, d, src1)
           IN  /\ Base(n)
               /\ SameTemps(m, n)
               /\ n.rval = m.rval
               /\ n.reg[d] \in Regs /\ d \in n.link[n.reg[d]]
               /\ n.reg[d] \notin m.used \/ n.reg[d] = m.reg[d]
                    \/ (src1 \in Temps /\ n.reg[d] = m.reg[src1] /\ Held(m, src1))
               /\ src1 \in Temps /\ Held(m, src1) => CanRead(n, src1)
               /\ \A t \in Temps \ {d} :
                    Held(m, t) /\ (t = src1 => m.ref[t] > 1) => Held(n, t)
               /\ src1 \in Temps /\ Held(m, src1) =>
                    n.reg[src1] = n.reg[d] \/ Held(n, src1)
<1> DEFINE n == AllocateDst(m, d, src1)
<1>1. CASE m.reg[d] # NULL
  <2>1. n = [m EXCEPT !.used = @ \cup {m.reg[d]}]
    BY <1>1 DEF AllocateDst
  <2>2. m.reg[d] \in Regs
    BY <1>1 DEF Base, Machine
  <2>3. /\ n \in Machine
        /\ n.link = m.link /\ n.reg = m.reg /\ n.needwb = m.needwb /\ n.ref = m.ref
        /\ n.rval = m.rval /\ n.mval = m.mval /\ n.wide = m.wide /\ n.wrong = m.wrong
    BY <2>1, <2>2 DEF Base, Machine
  <2> HIDE DEF n
  <2>4. Base(n)
    BY <2>3 DEF Base
  <2>5. \A t \in Temps : Held(m, t) => Held(n, t)
    BY <2>3 DEF Held
  <2> QED BY <1>1, <2>2, <2>3, <2>4, <2>5, HeldCanRead DEF SameTemps, n
<1>2. CASE m.reg[d] = NULL /\ src1 \in Temps /\ m.ref[src1] = 1 /\ m.reg[src1] # NULL
  <2> DEFINE r == m.reg[src1]
             c == [m EXCEPT !.link[r] = {}]
  <2>1. n = AddVarToReg(c, r, d)
    BY <1>2 DEF AllocateDst
  <2>2. r \in Regs /\ Held(m, src1) /\ src1 \in m.link[r]
    BY <1>2 DEF Base, Machine, Held
  <2>3. /\ c \in Machine
        /\ c.link = [m.link EXCEPT ![r] = {}] /\ c.reg = m.reg
        /\ c.needwb = m.needwb /\ c.ref = m.ref /\ c.used = m.used
        /\ c.rval = m.rval /\ c.mval = m.mval /\ c.wide = m.wide /\ c.wrong = m.wrong
    BY <2>2 DEF Base, Machine
  <2> HIDE DEF c, r, n
  <2>4. c.link[r] = {} /\ \A q \in Regs \ {r} : c.link[q] = m.link[q]
    BY <2>2, <2>3 DEF Base, Machine
  <2>5. Base(c)
    BY <2>3, <2>4 DEF Base
  <2>6. ASSUME NEW t \in Temps \ {src1}, Held(m, t) PROVE Held(c, t)
    <3>1. m.reg[t] \in Regs \cup {NULL} /\ m.reg[t] # r
      BY <2>2, <2>6, RegAllocAssumption DEF Held, Base, Machine
    <3> QED BY <2>3, <2>4, <2>6, <3>1 DEF Held
  <2>7. /\ Base(n) /\ SameTemps(c, n)
        /\ n.rval = c.rval /\ n.used = c.used
        /\ n.reg[d] = r /\ n.link[r] = {d}
        /\ \A t \in Temps \ {d} : n.reg[t] = c.reg[t]
        /\ \A t \in Temps \ {d} : Held(c, t) => Held(n, t)
    BY <1>2, <2>1, <2>2, <2>3, <2>4, <2>5, AddVarLemma
  <2>8. n.reg[src1] = r /\ CanRead(n, src1)
    <3>1. n.reg[src1] = r
      BY <1>2, <2>3, <2>7 DEF r
    <3>2. src1 \in m.wide \/ m.rval[r] = src1
      BY <1>2, <2>2 DEF Held, r
    <3> QED BY <2>2, <2>3, <2>7, <3>1, <3>2, RegAllocAssumption
            DEF CanRead, Holds, SameTemps
  <2>9. \A t \in Temps \ {d} :
            Held(m, t) /\ (t = src1 => m.ref[t] > 1) => Held(n, t)
    BY <1>2, <2>6, <2>7
  <2> QED BY <1>2, <2>2, <2>3, <2>7, <2>8, <2>9 DEF SameTemps, n, r
<1>3. CASE m.reg[d] = NULL /\ ~(src1 \in Temps /\ m.ref[src1] = 1 /\ m.reg[src1] # NULL)
  <2> DEFINE r == PickReg(m, EDI)
             g == GetRegInternal(m, EDI)
  <2>1. n = AddVarToReg(g, r, d)
    BY <1>3 DEF AllocateDst, GetReg
  <2>2. \E i \in Regs : i <= EDI /\ i \notin m.used
    BY RegAllocAssumption
  <2>3. /\ Base(g)
        /\ r \in Regs /\ r \notin m.used
        /\ \A t \in Temps : Held(m, t) => Held(g, t)
        /\ SameTemps(m, g)
        /\ g.rval = m.rval
        /\ g.link[r] = {}
        /\ \A t \in Temps : g.reg[t] \in {m.reg[t], NULL}
    BY <2>2, GetRegLemma
  <2> HIDE DEF n, g, r
  <2>4. /\ Base(n) /\ SameTemps(g, n)
        /\ n.rval = g.rval
        /\ n.reg[d] = r /\ n.link[r] = {d}
        /\ \A t \in Temps \ {d} : Held(g, t) => Held(n, t)
    BY <1>3, <2>1, <2>3, AddVarLemma
  <2>5. src1 \in Temps /\ Held(m, src1) => Held(n, src1) /\ CanRead(n, src1)
    BY <2>3, <2>4, HeldCanRead
  <2> QED BY <2>3, <2>4, <2>5 DEF SameTemps, n
<1> QED BY <1>1, <1>2, <1>3

-----------------------------------------------------------------------------
(* Writing results                                                          *)

\* The instruction's result makes d held, and d's register d's own.
LEMMA WriteLemma ==
    ASSUME NEW m, Base(m), NEW d \in Temps,
           m.reg[d] # NULL => d \in m.link[m.reg[d]]
    PROVE  LET n == Write(m, d)
           IN  /\ Base(n) /\ SameTemps(m, n)
               /\ n.link = m.link /\ n.reg = m.reg /\ n.used = m.used
               /\ n.needwb = m.needwb
               /\ n.reg[d] = NULL => n.mval[d]
               /\ n.reg[d] # NULL => n.rval[n.reg[d]] = d
               /\ \A t \in Temps \ {d} : Held(m, t) => Held(n, t)
<1> DEFINE n == Write(m, d)
<1>1. CASE m.reg[d] = NULL
  <2>1. n = [m EXCEPT !.mval[d] = TRUE]
    BY <1>1 DEF Write
  <2> HIDE DEF n
  <2>2. /\ n \in Machine
        /\ n.mval = [m.mval EXCEPT ![d] = TRUE]
        /\ n.link = m.link /\ n.reg = m.reg /\ n.needwb = m.needwb /\ n.ref = m.ref
        /\ n.rval = m.rval /\ n.used = m.used /\ n.wide = m.wide /\ n.wrong = m.wrong
    BY <2>1 DEF Base, Machine
  <2>3. n.mval[d] /\ \A t \in Temps \ {d} : n.mval[t] = m.mval[t]
    BY <2>2 DEF Base, Machine
  <2> QED BY <1>1, <2>2, <2>3 DEF Base, Held, SameTemps, n
<1>2. CASE m.reg[d] # NULL
  <2> DEFINE r == m.reg[d]
  <2>1. n = [m EXCEPT !.rval[r] = d, !.mval[d] = FALSE]
    BY <1>2 DEF Write
  <2>2. r \in Regs /\ d \in m.link[r]
    BY <1>2 DEF Base, Machine
  <2> HIDE DEF n, r
  <2>3. /\ n \in Machine
        /\ n.mval = [m.mval EXCEPT ![d] = FALSE] /\ n.rval = [m.rval EXCEPT ![r] = d]
        /\ n.link = m.link /\ n.reg = m.reg /\ n.needwb = m.needwb /\ n.ref = m.ref
        /\ n.used = m.used /\ n.wide = m.wide /\ n.wrong = m.wrong
    BY <2>1, <2>2 DEF Base, Machine, Operands
  <2>4. /\ n.rval[r] = d
        /\ \A t \in Temps \ {d} : n.mval[t] = m.mval[t]
        /\ \A q \in Regs \ {r} : n.rval[q] = m.rval[q]
    BY <2>2, <2>3 DEF Base, Machine
  <2>5. ASSUME NEW t \in Temps \ {d}, Held(m, t) PROVE Held(n, t)
    <3>1. m.reg[t] \in Regs \cup {NULL}
      BY DEF Base, Machine
    <3>2. m.reg[t] # r
      BY <2>2, <2>5, RegAllocAssumption DEF Held, Base
    <3> QED BY <2>3, <2>4, <2>5, <3>1, <3>2 DEF Held
  <2> QED BY <1>2, <2>3, <2>4, <2>5 DEF Base, SameTemps, n, r
<1> QED BY <1>1, <1>2

\* ModifyVar changes nothing but needwb, because the list holds d alone.
LEMMA ModifyVarLemma ==
    ASSUME NEW m, Base(m), NEW d \in Temps,
           m.reg[d] # NULL => d \in m.link[m.reg[d]]
    PROVE  LET n == ModifyVar(m, d)
           IN  /\ Base(n) /\ SameTemps(m, n)
               /\ n.link = m.link /\ n.reg = m.reg /\ n.used = m.used
               /\ n.rval = m.rval /\ n.mval = m.mval
               /\ n.reg[d] # NULL => n.needwb[d]
               /\ \A t \in Temps \ {d} : n.needwb[t] = m.needwb[t]
<1> DEFINE n == ModifyVar(m, d)
<1>1. CASE m.reg[d] = NULL
  BY <1>1 DEF ModifyVar, SameTemps
<1>2. CASE m.reg[d] # NULL
  <2> DEFINE r == m.reg[d]
             c == [m EXCEPT !.needwb[d] = FALSE]
             s == SpillRegs(c, {r})
             a == AddVarToReg(s, r, d)
  <2>1. r \in Regs /\ m.link[r] = {d} /\ m.reg[d] = r
    BY <1>2 DEF Base, Machine
  <2>2. n = [a EXCEPT !.needwb[d] = TRUE]
    <3>1. {r} \cap Regs = {r}
      BY <2>1
    <3> QED BY <1>2, <3>1 DEF ModifyVar, SpillReg
  <2> HIDE DEF n, r
  <2>3. /\ c \in Machine
        /\ c.needwb = [m.needwb EXCEPT ![d] = FALSE] /\ c.mval = m.mval
        /\ c.link = m.link /\ c.reg = m.reg /\ c.ref = m.ref /\ c.rval = m.rval
        /\ c.used = m.used /\ c.wide = m.wide /\ c.wrong = m.wrong
    BY DEF Base, Machine
  <2> HIDE DEF c
  <2>4. Base(c) /\ ~c.needwb[d] /\ \A t \in Temps \ {d} : c.needwb[t] = m.needwb[t]
    BY <2>3 DEF Base, Machine
  <2>5. /\ Base(s) /\ SameTemps(c, s)
        /\ s.rval = c.rval /\ s.used = c.used /\ s.wrong = c.wrong
        /\ s.link[r] = {}
        /\ \A q \in Regs \ {r} : s.link[q] = c.link[q]
    BY <2>1, <2>4, SpillRegsLemma
  <2>6. s.needwb = c.needwb /\ s.mval = c.mval /\ s.reg[d] = NULL
        /\ \A t \in Temps \ {d} : s.reg[t] = c.reg[t]
    <3>1. \A t \in Temps : (\E q \in {r} : t \in c.link[q]) <=> t = d
      BY <2>1, <2>3
    <3>2. {t \in Temps : \E q \in {r} : t \in c.link[q]} = {d}
      BY <3>1
    <3>3. {t \in {d} : Dirty(c, t)} = {}
      BY <2>4 DEF Dirty
    <3>4. /\ s.needwb = [t \in Temps |-> c.needwb[t]]
          /\ s.mval = [t \in Temps |-> c.mval[t]]
          /\ s.reg = [t \in Temps |-> IF t = d THEN NULL ELSE c.reg[t]]
      BY <2>3, <3>2, <3>3 DEF SpillRegs, Machine
    <3> QED BY <2>3, <3>4 DEF Machine
  <2> HIDE DEF s
  <2>7. /\ a.link = [s.link EXCEPT ![r] = @ \cup {d}] /\ a.reg = [s.reg EXCEPT ![d] = r]
        /\ a.needwb = s.needwb /\ a.mval = s.mval /\ a.ref = s.ref
        /\ a.rval = s.rval /\ a.used = s.used /\ a.wide = s.wide /\ a.wrong = s.wrong
        /\ a \in Machine
    BY <2>1, <2>5 DEF AddVarToReg, Base, Machine
  <2> HIDE DEF a
  <2>8. a.link = m.link /\ a.reg = m.reg
    <3>1. \A q \in Regs : a.link[q] = m.link[q]
      <4>1. s.link \in [Regs -> SUBSET Temps]
        BY <2>5 DEF Base, Machine
      <4>2. a.link[r] = {d} /\ \A q \in Regs \ {r} : a.link[q] = s.link[q]
        BY <2>1, <2>5, <2>7, <4>1
      <4> QED BY <2>1, <2>3, <2>5, <4>2
    <3>2. \A t \in Temps : a.reg[t] = m.reg[t]
      BY <2>1, <2>3, <2>5, <2>6, <2>7 DEF Base, Machine
    <3> QED BY <2>7, <3>1, <3>2 DEF Base, Machine
  <2>9. /\ n \in Machine
        /\ n.needwb = [a.needwb EXCEPT ![d] = TRUE]
        /\ n.link = m.link /\ n.reg = m.reg /\ n.mval = m.mval /\ n.ref = m.ref
        /\ n.rval = m.rval /\ n.used = m.used /\ n.wide = m.wide /\ n.wrong = m.wrong
    BY <2>2, <2>3, <2>5, <2>6, <2>7, <2>8 DEF Machine, SameTemps
  <2>10. n.needwb[d] /\ \A t \in Temps \ {d} : n.needwb[t] = m.needwb[t]
    BY <2>4, <2>6, <2>7, <2>9 DEF Machine
  <2>11. Base(n)
    BY <2>9 DEF Base
  <2> QED BY <2>9, <2>10, <2>11 DEF SameTemps, n
<1> QED BY <1>1, <1>2

\* needwb is all ModifyVar changes: the other temporaries stay held, and so does
\* d when its register holds it.
LEMMA ModifyHeld ==
    ASSUME NEW m, Base(m), NEW d \in Temps,
           m.reg[d] # NULL => d \in m.link[m.reg[d]]
    PROVE  LET n == ModifyVar(m, d)
           IN  /\ \A t \in Temps \ {d} : Held(m, t) => Held(n, t)
               /\ /\ m.ref[d] > 0
                  /\ m.reg[d] = NULL => m.mval[d]
                  /\ m.reg[d] # NULL => m.rval[m.reg[d]] = d
                  => Held(n, d)
<1> DEFINE n == ModifyVar(m, d)
<1>1. /\ SameTemps(m, n)
      /\ n.link = m.link /\ n.reg = m.reg
      /\ n.rval = m.rval /\ n.mval = m.mval
      /\ n.reg[d] # NULL => n.needwb[d]
      /\ \A t \in Temps \ {d} : n.needwb[t] = m.needwb[t]
  BY ModifyVarLemma
<1> HIDE DEF n
<1>2. \A t \in Temps \ {d} : Held(m, t) => Held(n, t)
  BY <1>1 DEF Held, SameTemps
<1>3. /\ m.ref[d] > 0
      /\ m.reg[d] = NULL => m.mval[d]
      /\ m.reg[d] # NULL => m.rval[m.reg[d]] = d
      => Held(n, d)
  BY <1>1 DEF Held, SameTemps
<1> QED BY <1>2, <1>3 DEF n

-----------------------------------------------------------------------------
(* What the rest of an instruction does to the machine                      *)

\* Registers with empty lists may be overwritten.
LEMMA ClobberLemma ==
    ASSUME NEW m, Base(m), NEW R, \A r \in R \cap Regs : m.link[r] = {}
    PROVE  LET n == Clobber(m, R)
           IN  /\ Base(n) /\ SameTemps(m, n) /\ SameLists(m, n)
               /\ \A q \in Regs \ R : n.rval[q] = m.rval[q]
               /\ \A t \in Temps : Held(m, t) => Held(n, t)
<1> DEFINE n == Clobber(m, R)
<1>1. /\ n \in Machine
      /\ n.rval = [r \in Regs |-> IF r \in R THEN NULL ELSE m.rval[r]]
      /\ n.link = m.link /\ n.reg = m.reg /\ n.needwb = m.needwb /\ n.ref = m.ref
      /\ n.used = m.used /\ n.mval = m.mval /\ n.wide = m.wide /\ n.wrong = m.wrong
  BY DEF Clobber, Base, Machine
<1> HIDE DEF n
<1>2. \A q \in Regs \ R : n.rval[q] = m.rval[q]
  BY <1>1
<1>3. ASSUME NEW t \in Temps, Held(m, t) PROVE Held(n, t)
  <2>1. m.reg[t] \in Regs \cup {NULL}
    BY DEF Base, Machine
  <2>2. m.reg[t] # NULL => m.reg[t] \in Regs \ R
    BY <1>3, <2>1 DEF Held
  <2> QED BY <1>1, <1>2, <1>3, <2>2 DEF Held
<1> QED BY <1>1, <1>2, <1>3 DEF Base, SameTemps, SameLists, n

\* Blaming an address or an evicted source is no fault of Base's.
LEMMA FaultLemma ==
    ASSUME NEW m, Base(m), NEW x \in {"addr", "block", "widened"}
    PROVE  LET n == [m EXCEPT !.wrong = @ \cup {x}]
           IN  /\ Base(n) /\ SameTemps(m, n) /\ SameLists(m, n)
               /\ n.rval = m.rval
               /\ \A t \in Temps : Held(m, t) => Held(n, t)
<1> DEFINE n == [m EXCEPT !.wrong = @ \cup {x}]
<1>1. /\ n \in Machine
      /\ n.wrong = m.wrong \cup {x}
      /\ n.link = m.link /\ n.reg = m.reg /\ n.needwb = m.needwb /\ n.ref = m.ref
      /\ n.used = m.used /\ n.mval = m.mval /\ n.wide = m.wide /\ n.rval = m.rval
  BY DEF Base, Machine, Faults
<1> HIDE DEF n
<1>2. "src" \notin n.wrong /\ "noreg" \notin n.wrong
  BY <1>1 DEF Base
<1>3. Base(n)
  BY <1>1, <1>2 DEF Base
<1>4. \A t \in Temps : Held(m, t) => Held(n, t)
  BY <1>1 DEF Held
<1> QED BY <1>1, <1>3, <1>4 DEF SameTemps, SameLists, n

\* An address in the wrong register is no fault of Base's either.
LEMMA UseAddressLemma ==
    ASSUME NEW m, Base(m), NEW a, NEW r
    PROVE  LET n == UseAddress(m, a, r)
           IN  /\ Base(n) /\ SameTemps(m, n) /\ SameLists(m, n)
               /\ n.rval = m.rval
               /\ \A t \in Temps : Held(m, t) => Held(n, t)
<1>1. UseAddress(m, a, r) = m \/ UseAddress(m, a, r) = [m EXCEPT !.wrong = @ \cup {"addr"}]
  BY DEF UseAddress
<1> QED BY <1>1, FaultLemma DEF SameTemps, SameLists

\* A temporary with occurrences left stays held when counts go down.
LEMMA DecrementLemma ==
    ASSUME NEW m, Base(m), NEW S
    PROVE  LET n == Decrement(m, S)
           IN  /\ Base(n) /\ SameLists(m, n)
               /\ n.wide = m.wide /\ n.rval = m.rval
               /\ n.ref = [t \in Temps |-> IF t \in S THEN m.ref[t] - 1 ELSE m.ref[t]]
               /\ \A t \in Temps : Held(m, t) /\ (t \in S => m.ref[t] > 1) => Held(n, t)
               /\ \A p : CanRead(m, p) => CanRead(n, p)
<1> DEFINE n == Decrement(m, S)
<1>1. /\ n \in Machine
      /\ n.ref = [t \in Temps |-> IF t \in S THEN m.ref[t] - 1 ELSE m.ref[t]]
      /\ n.link = m.link /\ n.reg = m.reg /\ n.needwb = m.needwb /\ n.rval = m.rval
      /\ n.used = m.used /\ n.mval = m.mval /\ n.wide = m.wide /\ n.wrong = m.wrong
  BY DEF Decrement, Base, Machine
<1> HIDE DEF n
<1>2. ASSUME NEW t \in Temps, Held(m, t), t \in S => m.ref[t] > 1 PROVE Held(n, t)
  <2>1. m.ref[t] \in Int
    BY DEF Base, Machine
  <2>2. n.ref[t] > 0
    BY <1>1, <1>2, <2>1 DEF Held
  <2> QED BY <1>1, <1>2, <2>2 DEF Held
<1>3. \A p : CanRead(m, p) => CanRead(n, p)
  BY <1>1 DEF CanRead, Holds
<1> QED BY <1>1, <1>2, <1>3 DEF Base, SameLists, n
=============================================================================
