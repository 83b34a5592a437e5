---------------------------- MODULE SwitchProofs ----------------------------
(***************************************************************************)
(* What the switch translation guarantees for every int width, every set   *)
(* of labels and every number of cases: the tables are written and used    *)
(* inside their bounds and the search reaches the right statement.         *)
(***************************************************************************)
EXTENDS Switch, FiniteSetTheorems, TLAPS

\* What InsertAt returns.
LEMMA InsertAtFacts ==
    ASSUME NEW S, NEW s \in Seq(S), NEW i \in 1 .. Len(s) + 1, NEW e \in S
    PROVE  /\ InsertAt(s, i, e) \in Seq(S)
           /\ Len(InsertAt(s, i, e)) = Len(s) + 1
           /\ \A j \in 1 .. Len(s) + 1 :
                 InsertAt(s, i, e)[j] =
                     IF j < i THEN s[j] ELSE IF j = i THEN e ELSE s[j - 1]
<1> DEFINE a == SubSeq(s, 1, i - 1)
           c == SubSeq(s, i, Len(s))
<1>1. a \in Seq(S) /\ Len(a) = i - 1 /\ \A j \in 1 .. i - 1 : a[j] = s[j]
  OBVIOUS
<1>2. c \in Seq(S) /\ Len(c) = Len(s) - i + 1
      /\ \A j \in 1 .. Len(s) - i + 1 : c[j] = s[j + i - 1]
  OBVIOUS
<1>3. <<e>> \in Seq(S) /\ Len(<<e>>) = 1 /\ <<e>>[1] = e
  OBVIOUS
<1> HIDE DEF a, c
<1>4. InsertAt(s, i, e) = a \o <<e>> \o c
  BY DEF InsertAt, a, c
<1>5. a \o <<e>> \in Seq(S) /\ Len(a \o <<e>>) = i
      /\ \A j \in 1 .. i : (a \o <<e>>)[j] = IF j < i THEN s[j] ELSE e
  BY <1>1, <1>3
<1> DEFINE d == a \o <<e>>
<1>6. d \in Seq(S) /\ Len(d) = i /\ \A j \in 1 .. i : d[j] = IF j < i THEN s[j] ELSE e
  BY <1>5
<1> HIDE DEF d
<1>7. d \o c \in Seq(S) /\ Len(d \o c) = Len(s) + 1
      /\ \A j \in 1 .. Len(s) + 1 : (d \o c)[j] = IF j <= i THEN d[j] ELSE c[j - i]
  BY <1>6, <1>2
<1>8. \A j \in 1 .. Len(s) + 1 :
          (d \o c)[j] = IF j < i THEN s[j] ELSE IF j = i THEN e ELSE s[j - 1]
  BY <1>7, <1>6, <1>2
<1>9. InsertAt(s, i, e) = d \o c
  BY <1>4 DEF d
<1> QED
  BY <1>7, <1>8, <1>9

\* What Front and Last return, and what appending to the front does.
LEMMA FrontFacts ==
    ASSUME NEW S, NEW s \in Seq(S), s # <<>>, NEW e \in S
    PROVE  /\ Len(s) \in Nat \ {0}
           /\ Last(s) = s[Len(s)] /\ Last(s) \in S
           /\ Front(s) \in Seq(S) /\ Len(Front(s)) = Len(s) - 1
           /\ \A j \in 1 .. Len(s) - 1 : Front(s)[j] = s[j]
           /\ Append(Front(s), e) \in Seq(S)
           /\ Len(Append(Front(s), e)) = Len(s)
           /\ Append(Front(s), e)[Len(s)] = e
           /\ \A j \in 1 .. Len(s) - 1 : Append(Front(s), e)[j] = s[j]
<1>1. Len(s) \in Nat \ {0}
  OBVIOUS
<1>2. Last(s) = s[Len(s)] /\ Last(s) \in S
  BY <1>1 DEF Last
<1>3. Front(s) \in Seq(S) /\ Len(Front(s)) = Len(s) - 1
      /\ \A j \in 1 .. Len(s) - 1 : Front(s)[j] = s[j]
  <2> DEFINE n == Len(s) - 1
  <2>1. n \in Nat /\ n < Len(s)
    BY <1>1
  <2> HIDE DEF n
  <2>2. SubSeq(s, 1, n) \in Seq(S) /\ Len(SubSeq(s, 1, n)) = n
        /\ \A j \in 1 .. n : SubSeq(s, 1, n)[j] = s[j]
    BY <2>1
  <2> QED
    BY <2>2 DEF Front, n
<1> QED
  BY <1>1, <1>2, <1>3

-----------------------------------------------------------------------------
(* The inductive invariant                                                  *)

Ascending(s) == \A i, j \in 1 .. Len(s) : i < j => s[i] < s[j]

\* The bounds and the count of bucket b are those of its cases, which fill at
\* least half of its range
WellFormed(b) ==
    /\ IsFiniteSet(b.cases) /\ b.ncase = Cardinality(b.cases)
    /\ b.minVal \in b.cases /\ b.maxVal \in b.cases
    /\ \A v \in b.cases : b.minVal <= v /\ v <= b.maxVal
    /\ b.maxVal - b.minVal < 2 * b.ncase

\* The buckets bs are ascending and hold the first n - 1 labels of s
WellCut(bs, s, n) ==
    /\ \A k \in 1 .. Len(bs) : WellFormed(bs[k]) /\ bs[k].ncase < n
    /\ \A k, l \in 1 .. Len(bs) : k < l => bs[k].maxVal < bs[l].minVal
    /\ \A k \in 1 .. Len(bs) : \A v \in bs[k].cases : \E i \in 1 .. n - 1 : v = s[i]
    /\ \A i \in 1 .. n - 1 : \E k \in 1 .. Len(bs) : s[i] \in bs[k].cases

\* The value is in no bucket outside l .. r
Narrowed(l, r) ==
    \A k \in 1 .. Len(buckets) :
        /\ k < l => Less(buckets[k].maxVal, choice)
        /\ k > r => Less(choice, buckets[k].minVal)

SearchRange ==
    phase = "search" =>
        /\ left \in 1 .. Len(buckets) /\ right \in 1 .. Len(buckets) /\ left <= right
        /\ next = Len(cases) + 1
        /\ choice \in Values

Counted == Len(cases) <= MaxCases

Unbuilt == phase = "check" => buckets = <<>>

Sorted == Spans => Ascending(cases)

CutRight == phase \in {"bucket", "search"} /\ Spans => WellCut(buckets, cases, next)

Narrowing == phase = "search" /\ Plain => Narrowed(left, right)

IInv ==
    /\ TypeOK
    /\ SearchRange
    /\ Counted
    /\ Unbuilt
    /\ Sorted
    /\ CutRight
    /\ Narrowing
    /\ TablesFit
    /\ DispatchRight
    /\ OnlyFirstGrows

-----------------------------------------------------------------------------
(* Labels, tables and buckets                                               *)

\* Labels are ints.
LEMMA LabelInt ==
    /\ IntMax \in Int /\ IntMax > 0 /\ MaxCases \in Nat
    /\ \A v \in Labels : v \in Int /\ -IntMax - 1 <= v /\ v <= IntMax
<1> QED
  BY SwitchAssumption

\* A number that fits is what it wraps to.
LEMMA WrapFits ==
    ASSUME NEW x \in Int, -IntMax - 1 <= x, x <= IntMax
    PROVE  Wrap(x) = x
<1> QED
  BY LabelInt DEF Wrap

\* Where no difference of two labels overflows, differences are exact.
LEMMA SpansWrap ==
    ASSUME TypeOK, Spans, NEW v \in ToSet(cases), NEW w \in ToSet(cases)
    PROVE  v \in Labels /\ w \in Labels /\ v - w <= IntMax /\ w - v <= IntMax /\ Wrap(v - w) = v - w
<1>1. v \in Labels /\ w \in Labels
  BY DEF TypeOK, ToSet
<1>2. v - w <= IntMax /\ w - v <= IntMax
  BY DEF Spans
<1>3. v \in Int /\ w \in Int /\ v - w >= -IntMax - 1
  BY <1>1, <1>2, LabelInt
<1> QED
  BY <1>1, <1>2, <1>3, WrapFits

\* A bucket of a right cut: its labels are labels of the list, its table has one
\* entry for each int from minVal to maxVal, and at most two for each label.
LEMMA BucketFacts ==
    ASSUME TypeOK, Counted, Spans, WellCut(buckets, cases, next),
           NEW k \in 1 .. Len(buckets)
    PROVE  /\ buckets[k] \in Bucket /\ WellFormed(buckets[k])
           /\ \A v \in buckets[k].cases :
                 /\ v \in ToSet(cases) /\ v \in Labels /\ v \in Int
                 /\ TableIndex(buckets[k], v) = v - buckets[k].minVal
           /\ TableLen(buckets[k]) = buckets[k].maxVal - buckets[k].minVal + 1
           /\ TableLen(buckets[k]) <= 2 * buckets[k].ncase
<1> DEFINE b == buckets[k]
<1>1. b \in Bucket /\ WellFormed(b) /\ b.ncase < next /\ next <= Len(cases) + 1 /\ next \in Nat
  BY DEF TypeOK, WellCut
<1>2. \A v \in b.cases : v \in ToSet(cases)
  BY DEF TypeOK, WellCut, ToSet
<1>3. b.minVal \in b.cases /\ b.maxVal \in b.cases /\ b.ncase \in Nat
  BY <1>1 DEF WellFormed, Bucket
<1>4. \A v \in b.cases : v \in Labels /\ v \in Int /\ Wrap(v - b.minVal) = v - b.minVal
  BY <1>2, <1>3, SpansWrap, LabelInt
<1>5. b.maxVal - b.minVal < 2 * b.ncase
  BY <1>1 DEF WellFormed
<1>6. b.ncase <= MaxCases /\ 2 * (MaxCases + 1) <= IntMax
  BY <1>1, <1>3, LabelInt, SwitchAssumption DEF Counted, TypeOK
<1>7. b.minVal \in Int /\ b.maxVal \in Int /\ b.minVal <= b.maxVal
  BY <1>1, <1>3, <1>4 DEF WellFormed
<1>8. Wrap(b.maxVal - b.minVal + 1) = b.maxVal - b.minVal + 1
  <2>1. b.maxVal - b.minVal + 1 <= IntMax /\ b.maxVal - b.minVal + 1 >= 0
    BY <1>3, <1>5, <1>6, <1>7, LabelInt
  <2>2. b.maxVal - b.minVal + 1 \in Int /\ b.maxVal - b.minVal + 1 >= -IntMax - 1
    BY <1>7, <2>1, LabelInt
  <2> HIDE DEF b
  <2> QED
    BY <2>1, <2>2, WrapFits
<1>9. TableLen(b) = b.maxVal - b.minVal + 1
  BY <1>3, <1>4, <1>8 DEF TableLen
<1> QED
  BY <1>1, <1>2, <1>3, <1>4, <1>5, <1>7, <1>9 DEF TableIndex

\* Tables fit: every label of a bucket has an index of its table.
LEMMA CutFits ==
    ASSUME TypeOK, Counted, Spans, WellCut(buckets, cases, next)
    PROVE  \A k \in 1 .. Len(buckets) : Fits(buckets[k])
<1> SUFFICES ASSUME NEW k \in 1 .. Len(buckets), NEW v \in buckets[k].cases
             PROVE  TableIndex(buckets[k], v) \in 0 .. TableLen(buckets[k]) - 1
  BY DEF Fits
<1>1. /\ WellFormed(buckets[k])
      /\ v \in Int /\ TableIndex(buckets[k], v) = v - buckets[k].minVal
      /\ TableLen(buckets[k]) = buckets[k].maxVal - buckets[k].minVal + 1
  BY BucketFacts
<1>2. buckets[k].minVal \in Int /\ buckets[k].maxVal \in Int
  BY <1>1, BucketFacts DEF WellFormed
<1>3. buckets[k].minVal <= v /\ v <= buckets[k].maxVal
  BY <1>1 DEF WellFormed
<1> QED
  BY <1>1, <1>2, <1>3

-----------------------------------------------------------------------------
(* The invariant is inductive: the checker                                  *)

LEMMA InitIInv == Init => IInv
<1> SUFFICES ASSUME Init PROVE IInv
  OBVIOUS
<1>1. TypeOK
  <2>1. cases \in Seq(Labels) /\ Len(cases) = 0 /\ buckets \in Seq(Bucket)
    BY DEF Init
  <2>2. next \in 1 .. Len(cases) + 1
    BY <2>1 DEF Init
  <2> QED
    BY <2>1, <2>2 DEF Init, TypeOK, Phases
<1>2. SearchRange /\ Unbuilt /\ CutRight /\ Narrowing /\ TablesFit /\ DispatchRight /\ OnlyFirstGrows
  BY DEF Init, SearchRange, Unbuilt, CutRight, Narrowing, TablesFit, DispatchRight, OnlyFirstGrows
<1>3. Counted /\ Sorted
  BY LabelInt DEF Init, Counted, Sorted, Ascending
<1> QED
  BY <1>1, <1>2, <1>3 DEF IInv

\* AddCase keeps the list ascending as long as no difference of labels overflows.
LEMMA AddCaseSorts ==
    ASSUME IInv, NEW v \in Labels, AddCase(v)
    PROVE  cases' \in Seq(Labels) /\ Len(cases') = Len(cases) + 1 /\ Sorted'
<1>1. cases \in Seq(Labels) /\ Len(cases) \in Nat
  BY DEF IInv, TypeOK
<1>2. PICK i \in 1 .. Len(cases) + 1 :
          /\ \A j \in 1 .. i - 1 : Wrap(v - cases[j]) > 0
          /\ i <= Len(cases) => Wrap(v - cases[i]) < 0
          /\ cases' = InsertAt(cases, i, v)
  BY DEF AddCase
<1>3. /\ cases' \in Seq(Labels) /\ Len(cases') = Len(cases) + 1
      /\ \A j \in 1 .. Len(cases) + 1 :
            cases'[j] = IF j < i THEN cases[j] ELSE IF j = i THEN v ELSE cases[j - 1]
  <2> DEFINE t == InsertAt(cases, i, v)
  <2>1. /\ t \in Seq(Labels) /\ Len(t) = Len(cases) + 1
        /\ \A j \in 1 .. Len(cases) + 1 :
              t[j] = IF j < i THEN cases[j] ELSE IF j = i THEN v ELSE cases[j - 1]
    BY <1>1, InsertAtFacts
  <2>2. cases' = t
    BY <1>2
  <2> HIDE DEF t
  <2> QED
    BY <2>1, <2>2
<1>4. ASSUME Spans' PROVE Ascending(cases')
  <2>1. v = cases'[i] /\ v \in ToSet(cases')
    BY <1>1, <1>3 DEF ToSet
  <2>2. \A j \in 1 .. Len(cases) : cases[j] \in ToSet(cases')
    <3> SUFFICES ASSUME NEW j \in 1 .. Len(cases) PROVE cases[j] \in ToSet(cases')
      OBVIOUS
    <3>0. DOMAIN cases' = 1 .. Len(cases) + 1
      BY <1>1, <1>3
    <3>1. CASE j < i
      <4>1. j \in 1 .. Len(cases) + 1 /\ cases'[j] = cases[j]
        BY <1>1, <1>3, <3>1
      <4> QED
        BY <3>0, <4>1 DEF ToSet
    <3>2. CASE j >= i
      <4>1. j + 1 \in 1 .. Len(cases) + 1 /\ cases'[j + 1] = cases[j]
        BY <1>1, <1>3, <3>2
      <4> QED
        BY <3>0, <4>1 DEF ToSet
    <3> QED
      BY <1>1, <3>1, <3>2
  <2>3. \A j \in 1 .. Len(cases) :
           cases[j] \in Int /\ v - cases[j] <= IntMax /\ cases[j] - v <= IntMax
    BY <1>1, <1>4, <2>1, <2>2, LabelInt DEF Spans
  <2>4. \A j \in 1 .. Len(cases) : v \in Int /\ Wrap(v - cases[j]) = v - cases[j]
    BY <2>3, LabelInt, WrapFits
  <2>5. Ascending(cases)
    <3>1. ToSet(cases) \subseteq ToSet(cases')
      BY <1>1, <2>2 DEF ToSet
    <3>2. Spans
      BY <1>4, <3>1 DEF Spans
    <3> QED
      BY <3>2 DEF IInv, Sorted
  <2>6. \A j \in 1 .. i - 1 : cases[j] < v
    BY <1>1, <1>2, <2>3, <2>4
  <2>7. \A j \in i .. Len(cases) : v < cases[j]
    <3> SUFFICES ASSUME NEW j \in i .. Len(cases) PROVE v < cases[j]
      OBVIOUS
    <3>1. i \in 1 .. Len(cases) /\ j \in 1 .. Len(cases) /\ v < cases[i]
      BY <1>1, <1>2, <2>3, <2>4
    <3>2. i < j => cases[i] < cases[j]
      BY <2>5, <3>1 DEF Ascending
    <3> QED
      BY <2>3, <2>4, <3>1, <3>2
  <2> SUFFICES ASSUME NEW p \in 1 .. Len(cases) + 1, NEW q \in 1 .. Len(cases) + 1, p < q
               PROVE  cases'[p] < cases'[q]
    BY <1>3 DEF Ascending
  <2>8. CASE q < i
    BY <1>1, <1>3, <2>5, <2>8 DEF Ascending
  <2>9. CASE q = i
    BY <1>1, <1>3, <2>6, <2>9
  <2>10. CASE p > i
    <3>1. /\ p - 1 \in 1 .. Len(cases) /\ q - 1 \in 1 .. Len(cases) /\ p - 1 < q - 1
          /\ cases'[p] = cases[p - 1] /\ cases'[q] = cases[q - 1]
      BY <1>1, <1>3, <2>10
    <3> QED
      BY <2>5, <3>1 DEF Ascending
  <2>11. CASE p = i
    BY <1>1, <1>3, <2>7, <2>11
  <2>12. CASE p < i /\ q > i
    <3>1. p \in 1 .. i - 1 /\ q - 1 \in i .. Len(cases) /\ cases'[p] = cases[p] /\ cases'[q] = cases[q - 1]
      BY <1>1, <1>3, <2>12
    <3>2. cases[p] < v /\ v < cases[q - 1] /\ cases[p] \in Int /\ cases[q - 1] \in Int /\ v \in Int
      BY <1>1, <2>4, <2>3, <2>6, <2>7, <3>1
    <3> QED
      BY <3>1, <3>2
  <2> QED
    BY <2>8, <2>9, <2>10, <2>11, <2>12
<1> QED
  BY <1>3, <1>4 DEF Sorted

LEMMA AddCaseIInv == ASSUME IInv, NEW v \in Labels, AddCase(v) PROVE IInv'
<1>1. cases' \in Seq(Labels) /\ Len(cases') = Len(cases) + 1 /\ Sorted'
  BY AddCaseSorts
<1>2. /\ phase = "check" /\ Len(cases) < MaxCases
      /\ UNCHANGED <<phase, unsigned, defStmt, buckets, next, choice, left, right, target>>
  BY DEF AddCase
<1>3. TypeOK'
  BY <1>1, <1>2 DEF IInv, TypeOK
<1>4. Counted'
  BY <1>1, <1>2, SwitchAssumption DEF IInv, TypeOK, Counted
<1>5. /\ SearchRange' /\ Unbuilt' /\ CutRight' /\ Narrowing' /\ TablesFit' /\ DispatchRight'
      /\ OnlyFirstGrows'
  BY <1>2 DEF IInv, SearchRange, Unbuilt, CutRight, Narrowing, TablesFit, DispatchRight,
              OnlyFirstGrows
<1> QED
  BY <1>1, <1>3, <1>4, <1>5 DEF IInv

\* RepeatedCase and AddDefault change the phase to "error" at most.
LEMMA RejectIInv ==
    ASSUME IInv, (\E v \in Labels : RepeatedCase(v)) \/ AddDefault
    PROVE  IInv'
<1>1. /\ phase = "check" /\ phase' \in {"check", "error"} /\ defStmt' \in BOOLEAN
      /\ UNCHANGED <<unsigned, cases, buckets, next, choice, left, right, target>>
  BY DEF RepeatedCase, AddDefault, IInv, TypeOK
<1>2. TypeOK'
  BY <1>1 DEF IInv, TypeOK, Phases
<1>3. Counted' /\ Sorted'
  BY <1>1 DEF IInv, Counted, Sorted, Spans
<1>4. /\ SearchRange' /\ Unbuilt' /\ CutRight' /\ Narrowing' /\ TablesFit' /\ DispatchRight'
      /\ OnlyFirstGrows'
  BY <1>1 DEF IInv, SearchRange, Unbuilt, CutRight, Narrowing, TablesFit, DispatchRight,
              OnlyFirstGrows
<1> QED
  BY <1>2, <1>3, <1>4 DEF IInv

LEMMA EndCheckIInv == ASSUME IInv, EndCheck PROVE IInv'
<1>1. /\ phase = "check" /\ phase' = "bucket" /\ next' = 1 /\ buckets = <<>>
      /\ UNCHANGED <<unsigned, cases, defStmt, buckets, choice, left, right, target>>
  BY DEF EndCheck, IInv, Unbuilt
<1>2. TypeOK'
  BY <1>1 DEF IInv, TypeOK, Phases
<1>3. Counted' /\ Sorted'
  BY <1>1 DEF IInv, Counted, Sorted, Spans
<1>4. CutRight' /\ OnlyFirstGrows'
  BY <1>1 DEF CutRight, WellCut, OnlyFirstGrows
<1>5. SearchRange' /\ Unbuilt' /\ Narrowing' /\ TablesFit' /\ DispatchRight'
  BY <1>1 DEF SearchRange, Unbuilt, Narrowing, TablesFit, DispatchRight
<1> QED
  BY <1>2, <1>3, <1>4, <1>5 DEF IInv

-----------------------------------------------------------------------------
(* ... the buckets                                                          *)

\* The next case is greater than every label placed before it.
LEMMA NextCaseFacts ==
    ASSUME IInv, phase = "bucket", next <= Len(cases), Spans
    PROVE  /\ cases[next] \in Labels /\ cases[next] \in ToSet(cases) /\ cases[next] \in Int
           /\ WellCut(buckets, cases, next)
           /\ \A k \in 1 .. Len(buckets) : \A u \in buckets[k].cases :
                 u \in Int /\ u < cases[next] /\ Wrap(cases[next] - u) = cases[next] - u
<1>1. next \in 1 .. Len(cases) /\ cases \in Seq(Labels) /\ Len(cases) \in Nat
  BY DEF IInv, TypeOK
<1>2. cases[next] \in Labels /\ cases[next] \in ToSet(cases) /\ cases[next] \in Int
  BY <1>1, LabelInt DEF ToSet
<1>3. WellCut(buckets, cases, next)
  BY DEF IInv, CutRight
<1>4. Ascending(cases)
  BY DEF IInv, Sorted
<1>5. ASSUME NEW k \in 1 .. Len(buckets), NEW u \in buckets[k].cases
      PROVE  u \in Int /\ u < cases[next] /\ Wrap(cases[next] - u) = cases[next] - u
  <2>1. PICK i \in 1 .. next - 1 : u = cases[i]
    BY <1>3, <1>5 DEF WellCut
  <2>2. i \in 1 .. Len(cases) /\ i < next /\ u \in ToSet(cases)
    BY <1>1, <2>1 DEF ToSet
  <2>3. u < cases[next]
    BY <1>1, <1>4, <2>1, <2>2 DEF Ascending
  <2>4. u \in Labels /\ Wrap(cases[next] - u) = cases[next] - u
    BY <1>2, <2>2, SpansWrap DEF IInv
  <2> QED
    BY <2>3, <2>4, LabelInt
<1> QED
  BY <1>2, <1>3, <1>5

\* A new bucket holds the next case alone.
LEMMA OpenCut ==
    ASSUME IInv, OpenBucket, Spans
    PROVE  WellCut(buckets', cases', next') /\ OnlyFirstGrows'
<1> DEFINE v == cases[next]
<1>1. /\ phase = "bucket" /\ next <= Len(cases) /\ cases' = cases /\ next' = next + 1
      /\ buckets' = Append(buckets, NewBucket(v))
  BY DEF OpenBucket
<1>2. next \in 1 .. Len(cases) /\ buckets \in Seq(Bucket) /\ Len(buckets) \in Nat
  BY <1>1 DEF IInv, TypeOK
<1>3. /\ v \in Labels /\ v \in Int /\ WellCut(buckets, cases, next)
      /\ \A k \in 1 .. Len(buckets) : \A u \in buckets[k].cases : u \in Int /\ u < v
  BY <1>1, NextCaseFacts
<1> DEFINE n == Len(buckets)
<1>4. /\ Len(buckets') = n + 1
      /\ buckets'[n + 1] = NewBucket(v)
      /\ \A k \in 1 .. n : buckets'[k] = buckets[k]
  BY <1>1, <1>2
<1>5. /\ NewBucket(v).cases = {v} /\ NewBucket(v).ncase = 1
      /\ NewBucket(v).minVal = v /\ NewBucket(v).maxVal = v
  BY DEF NewBucket
<1> HIDE DEF v, n
<1>6. WellFormed(buckets'[n + 1]) /\ buckets'[n + 1].ncase < next'
  <2>1. IsFiniteSet({v}) /\ Cardinality({v}) = 1
    BY FS_Singleton
  <2> QED
    BY <1>1, <1>2, <1>3, <1>4, <1>5, <2>1 DEF WellFormed
<1>7. \A k \in 1 .. n + 1 : WellFormed(buckets'[k]) /\ buckets'[k].ncase < next'
  <2> SUFFICES ASSUME NEW k \in 1 .. n PROVE WellFormed(buckets'[k]) /\ buckets'[k].ncase < next'
    BY <1>2, <1>6 DEF n
  <2>1. buckets[k] \in Bucket /\ buckets[k].ncase < next /\ WellFormed(buckets[k])
    BY <1>2, <1>3 DEF WellCut, n
  <2>2. buckets[k].ncase \in Nat
    BY <2>1 DEF Bucket
  <2>3. next \in Nat
    BY DEF IInv, TypeOK
  <2>4. buckets'[k] = buckets[k] /\ next' = next + 1
    BY <1>1, <1>4
  <2> QED
    BY <2>1, <2>2, <2>3, <2>4
<1>8. \A k, l \in 1 .. n + 1 : k < l => buckets'[k].maxVal < buckets'[l].minVal
  <2> SUFFICES ASSUME NEW k \in 1 .. n, NEW l \in 1 .. n + 1, k < l
               PROVE  buckets'[k].maxVal < buckets'[l].minVal
    BY <1>2 DEF n
  <2>1. CASE l = n + 1
    <3>1. buckets[k].maxVal \in buckets[k].cases
      BY <1>3 DEF WellCut, WellFormed, n
    <3> QED
      BY <1>3, <1>4, <1>5, <2>1, <3>1 DEF n
  <2>2. CASE l \in 1 .. n
    BY <1>3, <1>4, <2>2 DEF WellCut, n
  <2> QED
    BY <1>2, <2>1, <2>2 DEF n
<1>9. \A k \in 1 .. n + 1 : \A u \in buckets'[k].cases : \E i \in 1 .. next : u = cases[i]
  <2> SUFFICES ASSUME NEW k \in 1 .. n + 1, NEW u \in buckets'[k].cases
               PROVE  \E i \in 1 .. next : u = cases[i]
    OBVIOUS
  <2>1. CASE k = n + 1
    BY <1>2, <1>4, <1>5, <2>1 DEF v
  <2>2. CASE k \in 1 .. n
    <3>1. PICK i \in 1 .. next - 1 : u = cases[i]
      BY <1>3, <1>4, <2>2 DEF WellCut, n
    <3> QED
      BY <1>2, <3>1
  <2> QED
    BY <1>2, <2>1, <2>2 DEF n
<1>10. \A i \in 1 .. next : \E k \in 1 .. n + 1 : cases[i] \in buckets'[k].cases
  <2> SUFFICES ASSUME NEW i \in 1 .. next
               PROVE  \E k \in 1 .. n + 1 : cases[i] \in buckets'[k].cases
    OBVIOUS
  <2>1. CASE i = next
    BY <1>2, <1>4, <1>5, <2>1 DEF v, n
  <2>2. CASE i \in 1 .. next - 1
    <3>1. PICK k \in 1 .. n : cases[i] \in buckets[k].cases
      BY <1>3, <2>2 DEF WellCut, n
    <3> QED
      BY <1>2, <1>4, <3>1 DEF n
  <2> QED
    BY <1>2, <2>1, <2>2
<1>11. next' - 1 = next
  BY <1>1, <1>2
<1>12. OnlyFirstGrows'
  <2> SUFFICES ASSUME NEW k \in 2 .. n + 1 PROVE buckets'[k].ncase = 1
    BY <1>4 DEF OnlyFirstGrows
  <2>1. CASE k = n + 1
    BY <1>4, <1>5, <2>1
  <2>2. CASE k \in 2 .. n
    BY <1>1, <1>2, <1>4, <2>2 DEF IInv, OnlyFirstGrows, n
  <2> QED
    BY <1>2, <2>1, <2>2 DEF n
<1> QED
  BY <1>1, <1>4, <1>7, <1>8, <1>9, <1>10, <1>11, <1>12 DEF WellCut

LEMMA OpenIInv == ASSUME IInv, OpenBucket PROVE IInv'
<1>1. /\ phase = "bucket" /\ next <= Len(cases) /\ next' = next + 1
      /\ buckets' = Append(buckets, NewBucket(cases[next]))
      /\ UNCHANGED <<phase, unsigned, cases, defStmt, choice, left, right, target>>
  BY DEF OpenBucket
<1>2. TypeOK'
  <2>1. cases[next] \in Labels /\ next' \in 1 .. Len(cases) + 1
    BY <1>1 DEF IInv, TypeOK
  <2>2. NewBucket(cases[next]) \in Bucket
    BY <2>1 DEF NewBucket, Bucket
  <2>3. buckets' \in Seq(Bucket)
    BY <1>1, <2>2 DEF IInv, TypeOK
  <2> QED
    BY <1>1, <2>1, <2>3 DEF IInv, TypeOK
<1>3. Counted' /\ Sorted' /\ CutRight' /\ OnlyFirstGrows'
  <2>1. Spans' = Spans
    BY <1>1 DEF Spans
  <2> QED
    BY <1>1, <2>1, OpenCut DEF IInv, Counted, Sorted, CutRight, OnlyFirstGrows
<1>4. SearchRange' /\ Unbuilt' /\ Narrowing' /\ TablesFit' /\ DispatchRight'
  BY <1>1 DEF SearchRange, Unbuilt, Narrowing, TablesFit, DispatchRight
<1> QED
  BY <1>2, <1>3, <1>4 DEF IInv

\* The last bucket with the next case.
LEMMA JoinFacts ==
    ASSUME IInv, phase = "bucket", next <= Len(cases), Joins(cases[next])
    PROVE  /\ buckets # <<>> /\ Len(buckets) \in Nat \ {0}
           /\ Last(buckets) = buckets[Len(buckets)] /\ Last(buckets) \in Bucket
           /\ cases[next] \in Labels
           /\ LET d == Join(Last(buckets), cases[next])
              IN  /\ d \in Bucket
                  /\ d.cases = Last(buckets).cases \cup {cases[next]}
                  /\ d.ncase = Last(buckets).ncase + 1
                  /\ d.minVal = Last(buckets).minVal
                  /\ d.maxVal = cases[next]
<1>1. buckets # <<>> /\ buckets \in Seq(Bucket)
  BY DEF IInv, TypeOK, Joins
<1>2. Len(buckets) \in Nat \ {0} /\ Last(buckets) = buckets[Len(buckets)] /\ Last(buckets) \in Bucket
  BY <1>1 DEF Last
<1>3. cases[next] \in Labels
  BY DEF IInv, TypeOK
<1> DEFINE b == Last(buckets)
           v == cases[next]
           d == Join(b, v)
<1>4. b.cases \cup {v} \in SUBSET Labels /\ b.ncase + 1 \in Nat
  BY <1>2, <1>3 DEF Bucket
<1>5. b \in Bucket /\ v \in Labels
  BY <1>2, <1>3
<1> HIDE DEF b, v
<1>6. /\ d.cases = b.cases \cup {v} /\ d.ncase = b.ncase + 1
      /\ d.minVal = b.minVal /\ d.maxVal = v
  BY <1>5 DEF Join, Bucket
<1>7. d \in Bucket
  BY <1>4, <1>5 DEF Join, Bucket
<1> QED
  BY <1>1, <1>2, <1>3, <1>6, <1>7 DEF b, v

\* The bucket that takes the next case keeps its bounds, count and density.
LEMMA JoinWellFormed ==
    ASSUME IInv, phase = "bucket", next <= Len(cases), Joins(cases[next]), Spans
    PROVE  WellFormed(Join(Last(buckets), cases[next]))
<1> DEFINE v == cases[next]
           b == Last(buckets)
<1>1. /\ Len(buckets) \in Nat \ {0} /\ b = buckets[Len(buckets)] /\ b \in Bucket
      /\ Join(b, v).cases = b.cases \cup {v} /\ Join(b, v).ncase = b.ncase + 1
      /\ Join(b, v).minVal = b.minVal /\ Join(b, v).maxVal = v
  BY JoinFacts
<1>2. /\ v \in Labels /\ v \in Int /\ WellFormed(b)
      /\ \A u \in b.cases : u \in Int /\ u < v /\ Wrap(v - u) = v - u
  BY <1>1, NextCaseFacts DEF WellCut
<1>3. (b.ncase + 1) * 2 > Wrap(v - b.minVal)
  BY DEF Joins
<1> HIDE DEF v, b
<1>4. v \notin b.cases
  BY <1>2
<1>5. IsFiniteSet(b.cases \cup {v}) /\ Cardinality(b.cases \cup {v}) = b.ncase + 1
  BY <1>2, <1>4, FS_AddElement DEF WellFormed
<1>6. v - b.minVal < 2 * (b.ncase + 1)
  <2>1. b.minVal \in b.cases /\ b.ncase \in Nat
    BY <1>1, <1>2 DEF WellFormed, Bucket
  <2> QED
    BY <1>2, <1>3, <2>1
<1>7. \A u \in b.cases \cup {v} : b.minVal <= u /\ u <= v
  BY <1>2 DEF WellFormed
<1>8. b.minVal \in b.cases
  BY <1>2 DEF WellFormed
<1>9. WellFormed(Join(b, v))
  BY <1>1, <1>5, <1>6, <1>7, <1>8 DEF WellFormed
<1> QED
  BY <1>9 DEF b, v

\* JoinBucket finds no other bucket: with one before it, the bucket would merge.
LEMMA JoinFirst ==
    ASSUME IInv, JoinBucket, Spans
    PROVE  Len(buckets) = 1
<1> DEFINE v == cases[next]
           b == Join(Last(buckets), v)
           a == Last(Front(buckets))
<1>1. phase = "bucket" /\ next <= Len(cases) /\ Joins(v) /\ ~Merges(b)
  BY DEF JoinBucket
<1>2. /\ buckets # <<>> /\ Len(buckets) \in Nat \ {0} /\ buckets \in Seq(Bucket)
      /\ Last(buckets) = buckets[Len(buckets)]
      /\ b \in Bucket /\ b.ncase = Last(buckets).ncase + 1
      /\ b.minVal = Last(buckets).minVal /\ b.maxVal = v
  BY <1>1, JoinFacts DEF IInv, TypeOK
<1>3. WellFormed(b)
  BY <1>1, JoinWellFormed
<1>4. v - Last(buckets).minVal \in Int /\ Wrap(v - Last(buckets).minVal) = v - Last(buckets).minVal
  <2>1. Last(buckets).minVal \in Last(buckets).cases
    BY <1>1, <1>2, NextCaseFacts DEF WellCut, WellFormed
  <2> QED
    BY <1>1, <1>2, <2>1, NextCaseFacts
<1>5. ASSUME Len(buckets) > 1 PROVE FALSE
  <2>1. Front(buckets) \in Seq(Bucket) /\ Len(Front(buckets)) = Len(buckets) - 1
    BY <1>2, FrontFacts
  <2>2. Front(buckets) # <<>>
    BY <1>2, <1>5, <2>1
  <2>3. a \in Bucket
    BY <2>1, <2>2 DEF Last
  <2>4. a.ncase \in Nat /\ b.ncase \in Nat /\ b.minVal = Last(buckets).minVal /\ b.maxVal = v
    BY <1>2, <2>3 DEF Bucket
  <2>5. b.maxVal - b.minVal < 2 * b.ncase
    BY <1>3 DEF WellFormed
  <2>6. (a.ncase + b.ncase + 1) * 2 > Wrap(b.maxVal - b.minVal)
    <3> HIDE DEF a, b, v
    <3> QED
      BY <1>4, <2>4, <2>5
  <2> QED
    BY <1>1, <1>5, <2>6 DEF Merges
<1> DEFINE n == Len(buckets)
<1>6. ~(n > 1)
  BY <1>5
<1>7. n \in Nat /\ n # 0
  BY <1>2
<1> HIDE DEF n
<1>8. n = 1
  BY <1>6, <1>7
<1> QED
  BY <1>8 DEF n

LEMMA JoinCut ==
    ASSUME IInv, JoinBucket, Spans
    PROVE  WellCut(buckets', cases', next') /\ OnlyFirstGrows'
<1> DEFINE v == cases[next]
           a == Last(buckets)
           b == Join(a, v)
<1>1. /\ phase = "bucket" /\ next <= Len(cases) /\ cases' = cases /\ next' = next + 1
      /\ Joins(v) /\ buckets' = Append(Front(buckets), b)
  BY DEF JoinBucket
<1>2. /\ buckets # <<>> /\ buckets \in Seq(Bucket) /\ Len(buckets) = 1
      /\ a = buckets[1] /\ a \in Bucket
      /\ b \in Bucket /\ b.cases = a.cases \cup {v} /\ b.ncase = a.ncase + 1
      /\ b.minVal = a.minVal /\ b.maxVal = v
  BY <1>1, JoinFacts, JoinFirst DEF IInv, TypeOK
<1>3. Len(buckets') = 1 /\ buckets'[1] = b
  BY <1>1, <1>2, FrontFacts
<1>4. WellFormed(b)
  BY <1>1, JoinWellFormed
<1>5. WellCut(buckets, cases, next)
  BY <1>1, NextCaseFacts
<1> HIDE DEF v, a, b
<1>6. a.ncase \in Nat /\ next \in Nat /\ a.ncase < next
  BY <1>2, <1>5 DEF Bucket, WellCut, IInv, TypeOK
<1>7. b.ncase < next'
  BY <1>1, <1>2, <1>6
<1>8. \A u \in b.cases : \E i \in 1 .. next : u = cases[i]
  <2> SUFFICES ASSUME NEW u \in b.cases PROVE \E i \in 1 .. next : u = cases[i]
    OBVIOUS
  <2>1. CASE u = v
    BY <1>1, <2>1 DEF v, IInv, TypeOK
  <2>2. CASE u \in a.cases
    <3>1. PICK i \in 1 .. next - 1 : u = cases[i]
      BY <1>2, <1>5, <2>2 DEF WellCut
    <3> QED
      BY <1>6, <3>1
  <2> QED
    BY <1>2, <2>1, <2>2
<1>9. \A i \in 1 .. next : cases[i] \in b.cases
  <2> SUFFICES ASSUME NEW i \in 1 .. next PROVE cases[i] \in b.cases
    OBVIOUS
  <2>1. CASE i = next
    BY <1>2, <2>1 DEF v
  <2>2. CASE i \in 1 .. next - 1
    <3>1. PICK k \in 1 .. Len(buckets) : cases[i] \in buckets[k].cases
      BY <1>5, <2>2 DEF WellCut
    <3>2. k = 1
      BY <1>2
    <3> QED
      BY <1>2, <3>1, <3>2
  <2> QED
    BY <1>6, <2>1, <2>2
<1>10. next' - 1 = next
  BY <1>1, <1>6
<1>11. \A k \in 1 .. Len(buckets') : k = 1
  BY <1>3
<1>12. OnlyFirstGrows'
  BY <1>3 DEF OnlyFirstGrows
<1>13. \A k \in 1 .. Len(buckets') : WellFormed(buckets'[k]) /\ buckets'[k].ncase < next'
  BY <1>3, <1>4, <1>7, <1>11
<1>14. \A k, l \in 1 .. Len(buckets') : k < l => buckets'[k].maxVal < buckets'[l].minVal
  BY <1>11
<1>15. \A k \in 1 .. Len(buckets') :
          \A u \in buckets'[k].cases : \E i \in 1 .. next' - 1 : u = cases'[i]
  BY <1>1, <1>3, <1>8, <1>10, <1>11
<1>16. \A i \in 1 .. next' - 1 : \E k \in 1 .. Len(buckets') : cases'[i] \in buckets'[k].cases
  <2>1. 1 \in 1 .. Len(buckets')
    BY <1>3
  <2> QED
    BY <1>1, <1>3, <1>9, <1>10, <2>1
<1> QED
  BY <1>12, <1>13, <1>14, <1>15, <1>16 DEF WellCut

LEMMA JoinIInv == ASSUME IInv, JoinBucket PROVE IInv'
<1>1. /\ phase = "bucket" /\ next <= Len(cases) /\ next' = next + 1 /\ Joins(cases[next])
      /\ buckets' = Append(Front(buckets), Join(Last(buckets), cases[next]))
      /\ UNCHANGED <<phase, unsigned, cases, defStmt, choice, left, right, target>>
  BY DEF JoinBucket
<1>2. TypeOK'
  <2>1. next' \in 1 .. Len(cases) + 1
    BY <1>1 DEF IInv, TypeOK
  <2>2. buckets' \in Seq(Bucket)
    BY <1>1, JoinFacts, FrontFacts DEF IInv, TypeOK
  <2> QED
    BY <1>1, <2>1, <2>2 DEF IInv, TypeOK
<1>3. Counted' /\ Sorted' /\ CutRight' /\ OnlyFirstGrows'
  <2>1. Spans' = Spans
    BY <1>1 DEF Spans
  <2> QED
    BY <1>1, <2>1, JoinCut DEF IInv, Counted, Sorted, CutRight, OnlyFirstGrows
<1>4. SearchRange' /\ Unbuilt' /\ Narrowing' /\ TablesFit' /\ DispatchRight'
  BY <1>1 DEF SearchRange, Unbuilt, Narrowing, TablesFit, DispatchRight
<1> QED
  BY <1>2, <1>3, <1>4 DEF IInv

\* After a merge only the types are left to say.
LEMMA MergeIInv == ASSUME IInv, MergeSwitchBucket PROVE IInv'
<1> DEFINE b == Join(Last(buckets), cases[next])
           a == Last(Front(buckets))
<1>1. /\ phase = "bucket" /\ next <= Len(cases) /\ phase' = "wild" /\ Joins(cases[next])
      /\ Merges(b)
      /\ buckets' = Append(Front(Front(buckets)), Merge(a, b))
      /\ UNCHANGED <<unsigned, cases, defStmt, next, choice, left, right, target>>
  BY DEF MergeSwitchBucket
<1>2. buckets' \in Seq(Bucket)
  <2>1. b \in Bucket /\ buckets # <<>> /\ buckets \in Seq(Bucket)
    BY <1>1, JoinFacts DEF IInv, TypeOK
  <2>2. Front(buckets) \in Seq(Bucket) /\ Front(buckets) # <<>>
    <3>1. Front(buckets) \in Seq(Bucket) /\ Len(Front(buckets)) = Len(buckets) - 1
      BY <2>1, FrontFacts
    <3>2. Len(buckets) \in Nat /\ Len(buckets) > 1
      BY <1>1, <2>1 DEF Merges
    <3>3. Len(Front(buckets)) # 0
      BY <3>1, <3>2
    <3> QED
      BY <3>1, <3>3
  <2>3. a \in Bucket
    BY <2>1, <2>2, FrontFacts
  <2>4. a.cases \cup b.cases \in SUBSET Labels /\ a.ncase + b.ncase \in Nat /\ b.maxVal \in Labels
    BY <2>1, <2>3 DEF Bucket
  <2> HIDE DEF a, b
  <2>5. Merge(a, b) \in Bucket
    BY <2>1, <2>3, <2>4 DEF Merge, Bucket
  <2> QED
    BY <1>1, <2>1, <2>2, <2>5, FrontFacts
<1>3. TypeOK'
  BY <1>1, <1>2 DEF IInv, TypeOK, Phases
<1>4. Counted' /\ Sorted'
  BY <1>1 DEF IInv, Counted, Sorted, Spans
<1>5. /\ SearchRange' /\ Unbuilt' /\ CutRight' /\ Narrowing' /\ TablesFit' /\ DispatchRight'
      /\ OnlyFirstGrows'
  BY <1>1 DEF SearchRange, Unbuilt, CutRight, Narrowing, TablesFit, DispatchRight, OnlyFirstGrows
<1> QED
  BY <1>3, <1>4, <1>5 DEF IInv

-----------------------------------------------------------------------------
(* ... the search                                                           *)

LEMMA StartIInv == ASSUME IInv, NEW x \in Values, StartSearch(x) PROVE IInv'
<1>1. /\ phase = "bucket" /\ next > Len(cases) /\ choice' = x
      /\ UNCHANGED <<unsigned, cases, defStmt, buckets, next>>
  BY DEF StartSearch
<1>2. /\ cases \in Seq(Labels) /\ Len(cases) \in Nat /\ next = Len(cases) + 1
      /\ buckets \in Seq(Bucket) /\ Len(buckets) \in Nat
  BY <1>1 DEF IInv, TypeOK
<1>3. Counted' /\ Sorted' /\ Spans' = Spans /\ Plain' = Plain
  BY <1>1 DEF IInv, Counted, Sorted, Spans, Plain
<1>4. Spans => WellCut(buckets, cases, next)
  BY <1>1 DEF IInv, CutRight
<1>5. Spans => OnlyFirstGrows'
  BY <1>1 DEF IInv, OnlyFirstGrows
<1>6. CASE \E k \in 1 .. Len(buckets) : ~Fits(buckets[k])
  <2>1. phase' = "overrun" /\ UNCHANGED <<left, right, target>>
    BY <1>6 DEF StartSearch
  <2>2. ~Spans
    BY <1>4, <1>6, CutFits DEF IInv
  <2>3. TypeOK'
    BY <1>1, <2>1 DEF IInv, TypeOK, Phases
  <2>4. TablesFit'
    BY <1>3, <2>2 DEF TablesFit
  <2>5. SearchRange' /\ Unbuilt' /\ CutRight' /\ Narrowing' /\ DispatchRight' /\ OnlyFirstGrows'
    BY <2>1 DEF SearchRange, Unbuilt, CutRight, Narrowing, DispatchRight, OnlyFirstGrows
  <2> QED
    BY <1>3, <2>3, <2>4, <2>5 DEF IInv
<1>7. CASE (\A k \in 1 .. Len(buckets) : Fits(buckets[k])) /\ buckets = <<>>
  <2>1. phase' = "done" /\ target' \in {Body, Default} /\ UNCHANGED <<left, right>>
    BY <1>7 DEF StartSearch, Reach
  <2>2. TypeOK'
    BY <1>1, <2>1 DEF IInv, TypeOK, Phases
  <2>3. DispatchRight'
    <3> SUFFICES ASSUME Plain, cases # <<>> PROVE FALSE
      BY <1>1, <1>3 DEF DispatchRight
    <3>1. WellCut(buckets, cases, next)
      BY <1>4 DEF Plain
    <3>2. Len(cases) # 0
      BY <1>2
    <3>3. 1 \in 1 .. next - 1
      BY <1>2, <3>2
    <3>4. Len(buckets) = 0
      BY <1>7
    <3> QED
      BY <3>1, <3>3, <3>4 DEF WellCut
  <2>4. /\ SearchRange' /\ Unbuilt' /\ CutRight' /\ Narrowing' /\ TablesFit'
        /\ OnlyFirstGrows'
    BY <2>1 DEF SearchRange, Unbuilt, CutRight, Narrowing, TablesFit, OnlyFirstGrows
  <2> QED
    BY <1>3, <2>2, <2>3, <2>4 DEF IInv
<1>8. CASE (\A k \in 1 .. Len(buckets) : Fits(buckets[k])) /\ buckets # <<>>
  <2>1. phase' = "search" /\ left' = 1 /\ right' = Len(buckets) /\ UNCHANGED target
    BY <1>8 DEF StartSearch
  <2>2. Len(buckets) # 0
    BY <1>2, <1>8
  <2>3. TypeOK'
    BY <1>1, <1>2, <2>1 DEF IInv, TypeOK, Phases
  <2>4. SearchRange'
    BY <1>1, <1>2, <2>1, <2>2 DEF SearchRange, Values
  <2>5. CutRight'
    BY <1>1, <1>3, <1>4 DEF CutRight
  <2>6. Narrowing'
    BY <1>1, <1>2, <2>1 DEF Narrowing, Narrowed
  <2>7. OnlyFirstGrows'
    BY <1>3, <1>5 DEF OnlyFirstGrows
  <2>8. Unbuilt' /\ TablesFit' /\ DispatchRight'
    BY <2>1 DEF Unbuilt, TablesFit, DispatchRight
  <2> QED
    BY <1>3, <2>3, <2>4, <2>5, <2>6, <2>7, <2>8 DEF IInv
<1> QED
  BY <1>6, <1>7, <1>8

\* The order of a bucket's labels and the value, as the generated code compares them.
LEMMA CompareFacts ==
    ASSUME IInv, phase = "search", Plain
    PROVE  /\ Spans /\ WellCut(buckets, cases, next) /\ next = Len(cases) + 1
           /\ Number(choice) \in Int
           /\ \A k \in 1 .. Len(buckets) : \A v \in buckets[k].cases :
                 v \in Int /\ Number(v) = v
           /\ \A v \in Int : Number(choice) = v /\ v <= IntMax => choice = v
<1>1. Spans /\ WellCut(buckets, cases, next) /\ next = Len(cases) + 1 /\ choice \in Values
  BY DEF IInv, Plain, CutRight, SearchRange
<1>2. choice \in Int /\ -IntMax - 1 <= choice /\ choice <= IntMax /\ IntMax \in Int /\ IntMax > 0
  BY <1>1, LabelInt DEF Values
<1>3. Number(choice) \in Int
  BY <1>2 DEF Number
<1>4. ASSUME NEW k \in 1 .. Len(buckets), NEW v \in buckets[k].cases
      PROVE  v \in Int /\ Number(v) = v
  <2>1. v \in ToSet(cases) /\ v \in Int
    BY <1>1, <1>4, BucketFacts DEF IInv
  <2> QED
    BY <2>1 DEF Plain, Number
<1>5. \A v \in Int : Number(choice) = v /\ v <= IntMax => choice = v
  BY <1>2 DEF Number
<1> QED
  BY <1>1, <1>3, <1>4, <1>5

\* A range with no bucket left: the value is no label.
LEMMA NoneLeft ==
    ASSUME IInv, phase = "search", Plain, NEW l \in Int, NEW r \in Int, l > r, Narrowed(l, r)
    PROVE  choice \notin ToSet(cases)
<1> SUFFICES ASSUME choice \in ToSet(cases) PROVE FALSE
  OBVIOUS
<1>1. WellCut(buckets, cases, next) /\ next = Len(cases) + 1 /\ Len(cases) \in Nat
  BY CompareFacts DEF IInv, TypeOK
<1>2. PICK i \in 1 .. Len(cases) : choice = cases[i]
  BY DEF ToSet, IInv, TypeOK
<1>3. PICK k \in 1 .. Len(buckets) : choice \in buckets[k].cases
  <2>1. i \in 1 .. next - 1
    BY <1>1
  <2> QED
    BY <1>1, <1>2, <2>1 DEF WellCut
<1>4. WellFormed(buckets[k])
  BY <1>1 DEF WellCut
<1>5. buckets[k].minVal \in Int /\ buckets[k].maxVal \in Int /\ choice \in Int
      /\ Number(buckets[k].minVal) = buckets[k].minVal
      /\ Number(buckets[k].maxVal) = buckets[k].maxVal
      /\ Number(choice) = choice
  BY <1>3, <1>4, CompareFacts DEF WellFormed
<1>6. buckets[k].minVal <= choice /\ choice <= buckets[k].maxVal
  BY <1>3, <1>4 DEF WellFormed
<1>7. k < l \/ k > r
  OBVIOUS
<1> QED
  BY <1>5, <1>6, <1>7 DEF Narrowed, Less

\* The bucket in the middle, and where the value is if it is not below or above it.
LEMMA MiddleFacts ==
    ASSUME IInv, phase = "search"
    PROVE  /\ left \in 1 .. Len(buckets) /\ right \in 1 .. Len(buckets)
           /\ Middle \in Int /\ left <= Middle /\ Middle <= right
           /\ Middle \in 1 .. Len(buckets) /\ buckets[Middle] \in Bucket
           /\ Len(buckets) \in Nat /\ choice \in Values
<1>1. /\ left \in 1 .. Len(buckets) /\ right \in 1 .. Len(buckets) /\ left <= right
      /\ choice \in Values /\ buckets \in Seq(Bucket) /\ Len(buckets) \in Nat
  BY DEF IInv, SearchRange, TypeOK
<1>2. Middle \in Int /\ left <= Middle /\ Middle <= right
  BY <1>1 DEF Middle
<1>3. Middle \in 1 .. Len(buckets)
  BY <1>1, <1>2
<1> QED
  BY <1>1, <1>2, <1>3

\* The table of the bucket the value lies in names the right statement.
LEMMA EntryRight ==
    ASSUME IInv, phase = "search", Plain, NEW k \in 1 .. Len(buckets),
           ~Less(choice, buckets[k].minVal), ~Less(buckets[k].maxVal, choice)
    PROVE  LET b == buckets[k]
           IN  /\ choice \in Int /\ b.minVal <= choice /\ choice <= b.maxVal
               /\ TableIndex(b, choice) = choice - b.minVal
               /\ TableEntry(b, choice - b.minVal) =
                      IF choice \in ToSet(cases) THEN choice ELSE Default
<1> DEFINE b == buckets[k]
<1>1. /\ Spans /\ WellCut(buckets, cases, next) /\ next = Len(cases) + 1
      /\ \A v \in b.cases : v \in Int /\ Number(v) = v /\ v \in Labels
      /\ WellFormed(b) /\ Number(choice) \in Int
      /\ \A v \in b.cases : TableIndex(b, v) = v - b.minVal
  BY CompareFacts, BucketFacts DEF IInv
<1>2. b.minVal \in b.cases /\ b.maxVal \in b.cases
  BY <1>1 DEF WellFormed
<1>3. b.minVal <= Number(choice) /\ Number(choice) <= b.maxVal /\ b.maxVal <= IntMax
      /\ b.minVal \in Int /\ b.maxVal \in Int /\ b.minVal \in Labels
  BY <1>1, <1>2, LabelInt DEF Less
<1>4. choice = Number(choice) /\ choice \in Int
  BY <1>1, <1>3, CompareFacts, LabelInt
<1>5. b.minVal <= choice /\ choice <= b.maxVal
  BY <1>3, <1>4
<1>6. TableIndex(b, choice) = choice - b.minVal
  <2>1. b.maxVal - b.minVal <= IntMax
    <3>1. b.minVal \in ToSet(cases) /\ b.maxVal \in ToSet(cases)
      BY <1>1, <1>2, BucketFacts DEF IInv
    <3> QED
      BY <1>1, <3>1 DEF Spans
  <2>2. choice - b.minVal \in Int /\ 0 <= choice - b.minVal /\ choice - b.minVal <= IntMax
    BY <1>3, <1>4, <1>5, <2>1, LabelInt
  <2>3. -IntMax - 1 <= choice - b.minVal
    BY <2>2, LabelInt
  <2> HIDE DEF b
  <2> QED
    BY <2>2, <2>3, WrapFits DEF TableIndex
<1>7. \A v \in b.cases : TableIndex(b, v) = choice - b.minVal <=> v = choice
  <2> SUFFICES ASSUME NEW v \in b.cases
               PROVE  TableIndex(b, v) = choice - b.minVal <=> v = choice
    OBVIOUS
  <2>1. v \in Int /\ TableIndex(b, v) = v - b.minVal
    BY <1>1
  <2> QED
    BY <1>3, <1>4, <2>1
<1>8. TableEntry(b, choice - b.minVal) = IF choice \in b.cases THEN choice ELSE Default
  <2> HIDE DEF b
  <2>1. CASE choice \in b.cases
    <3> DEFINE c == CHOOSE v \in b.cases : TableIndex(b, v) = choice - b.minVal
    <3>1. \E v \in b.cases : TableIndex(b, v) = choice - b.minVal
      BY <1>7, <2>1
    <3>2. c \in b.cases /\ TableIndex(b, c) = choice - b.minVal
      BY <3>1
    <3>3. c = choice
      BY <1>7, <3>2
    <3> QED
      BY <2>1, <3>1, <3>3 DEF TableEntry
  <2>2. CASE choice \notin b.cases
    <3>1. ~\E v \in b.cases : TableIndex(b, v) = choice - b.minVal
      BY <1>7, <2>2
    <3> QED
      BY <2>2, <3>1 DEF TableEntry
  <2> QED
    BY <2>1, <2>2
<1>9. choice \in b.cases <=> choice \in ToSet(cases)
  <2>1. choice \in b.cases => choice \in ToSet(cases)
    BY <1>1, BucketFacts DEF IInv
  <2>2. ASSUME choice \in ToSet(cases) PROVE choice \in b.cases
    <3>1. PICK i \in 1 .. next - 1 : choice = cases[i]
      BY <1>1, <2>2 DEF ToSet, IInv, TypeOK
    <3>2. PICK m \in 1 .. Len(buckets) : choice \in buckets[m].cases
      BY <1>1, <3>1 DEF WellCut
    <3>3. WellFormed(buckets[m])
      BY <1>1 DEF WellCut
    <3>4. buckets[m].minVal \in Int /\ buckets[m].maxVal \in Int
          /\ buckets[m].minVal <= choice /\ choice <= buckets[m].maxVal
      BY <3>2, <3>3, CompareFacts DEF WellFormed
    <3>5. m < k => buckets[m].maxVal < b.minVal
      BY <1>1 DEF WellCut
    <3>6. k < m => b.maxVal < buckets[m].minVal
      BY <1>1 DEF WellCut
    <3>7. ~(m < k) /\ ~(k < m)
      BY <1>3, <1>4, <1>5, <3>4, <3>5, <3>6
    <3>8. m = k
      BY <3>7
    <3> QED
      BY <3>2, <3>8
  <2> QED
    BY <2>1, <2>2
<1> QED
  BY <1>4, <1>5, <1>6, <1>8, <1>9

LEMMA ReachIInv ==
    ASSUME IInv, phase = "search", NEW t \in Labels \cup {Default}, Reach(t),
           UNCHANGED <<unsigned, cases, defStmt, buckets, next, choice>>,
           Plain => t = IF choice \in ToSet(cases) THEN choice ELSE Default
    PROVE  IInv'
<1>1. phase' = "done" /\ target' = t /\ UNCHANGED <<left, right>>
  BY DEF Reach
<1>2. TypeOK'
  BY <1>1 DEF IInv, TypeOK, Phases
<1>3. Counted' /\ Sorted' /\ Plain' = Plain
  BY DEF IInv, Counted, Sorted, Spans, Plain
<1>4. DispatchRight'
  BY <1>1, <1>3 DEF DispatchRight
<1>5. SearchRange' /\ Unbuilt' /\ CutRight' /\ Narrowing' /\ TablesFit' /\ OnlyFirstGrows'
  BY <1>1 DEF SearchRange, Unbuilt, CutRight, Narrowing, TablesFit, OnlyFirstGrows
<1> QED
  BY <1>2, <1>3, <1>4, <1>5 DEF IInv

LEMMA SearchInIInv ==
    ASSUME IInv, phase = "search", NEW l \in 1 .. Len(buckets) + 1, NEW r \in 0 .. Len(buckets),
           SearchIn(l, r), UNCHANGED <<unsigned, cases, defStmt, buckets, next, choice>>,
           Plain => Narrowed(l, r)
    PROVE  IInv'
<1>1. Len(buckets) \in Nat /\ buckets \in Seq(Bucket)
  BY DEF IInv, TypeOK
<1>2. CASE l > r
  <2>1. Reach(Default)
    BY <1>2 DEF SearchIn
  <2>2. Plain => choice \notin ToSet(cases)
    BY <1>2, NoneLeft
  <2> QED
    BY <2>1, <2>2, ReachIInv
<1>3. CASE ~(l > r)
  <2>1. left' = l /\ right' = r /\ UNCHANGED <<phase, target>>
    BY <1>3 DEF SearchIn
  <2>2. l \in 1 .. Len(buckets) /\ r \in 1 .. Len(buckets) /\ l <= r /\ l \in Nat /\ r \in Nat
    BY <1>1, <1>3
  <2>3. TypeOK' /\ SearchRange'
    BY <2>1, <2>2 DEF IInv, TypeOK, SearchRange, Values
  <2>4. Counted' /\ Sorted' /\ Plain' = Plain /\ Spans' = Spans
    BY DEF IInv, Counted, Sorted, Spans, Plain
  <2>5. CutRight' /\ OnlyFirstGrows'
    BY <2>1, <2>4 DEF IInv, CutRight, OnlyFirstGrows
  <2>6. Narrowing'
    BY <2>1, <2>4 DEF Narrowing, Narrowed, Less, Number
  <2>7. Unbuilt' /\ TablesFit' /\ DispatchRight'
    BY <2>1 DEF IInv, Unbuilt, TablesFit, DispatchRight
  <2> QED
    BY <2>3, <2>4, <2>5, <2>6, <2>7 DEF IInv
<1> QED
  BY <1>2, <1>3

\* Below the bucket in the middle, no bucket from there on has the value.
LEMMA LeftIInv ==
    ASSUME IInv, phase = "search", Less(choice, buckets[Middle].minVal), LeftHalf,
           UNCHANGED <<unsigned, cases, defStmt, buckets, next, choice>>
    PROVE  IInv'
<1> DEFINE m == Middle
<1>1. /\ left \in 1 .. Len(buckets) /\ m \in 1 .. Len(buckets) /\ m \in Int
      /\ Len(buckets) \in Nat
  BY MiddleFacts
<1>2. left \in 1 .. Len(buckets) + 1 /\ m - 1 \in 0 .. Len(buckets)
  BY <1>1
<1>3. ASSUME Plain PROVE Narrowed(left, m - 1)
  <2> SUFFICES ASSUME NEW k \in 1 .. Len(buckets)
               PROVE  /\ k < left => Less(buckets[k].maxVal, choice)
                      /\ k > m - 1 => Less(choice, buckets[k].minVal)
    BY DEF Narrowed
  <2>1. k < left => Less(buckets[k].maxVal, choice)
    BY <1>3 DEF IInv, Narrowing, Narrowed
  <2>2. ASSUME k > m PROVE Less(choice, buckets[k].minVal)
    <3>1. WellFormed(buckets[m]) /\ WellFormed(buckets[k]) /\ buckets[m].maxVal < buckets[k].minVal
      BY <1>1, <1>3, <2>2, CompareFacts DEF WellCut
    <3>2. /\ buckets[m].minVal \in buckets[m].cases /\ buckets[m].maxVal \in buckets[m].cases
          /\ buckets[k].minVal \in buckets[k].cases /\ buckets[m].minVal <= buckets[m].maxVal
      BY <3>1 DEF WellFormed
    <3>3. /\ buckets[m].minVal \in Int /\ Number(buckets[m].minVal) = buckets[m].minVal
          /\ buckets[m].maxVal \in Int
          /\ buckets[k].minVal \in Int /\ Number(buckets[k].minVal) = buckets[k].minVal
          /\ Number(choice) \in Int
      BY <1>1, <1>3, <3>2, CompareFacts
    <3> QED
      BY <3>1, <3>2, <3>3 DEF Less
  <2>3. k > m - 1 => k = m \/ k > m
    BY <1>1
  <2> QED
    BY <2>1, <2>2, <2>3
<1>4. SearchIn(left, m - 1)
  BY DEF LeftHalf
<1> HIDE DEF m
<1> QED
  BY <1>2, <1>3, <1>4, SearchInIInv

\* Above it, no bucket up to there has the value.
LEMMA RightIInv ==
    ASSUME IInv, phase = "search", Less(buckets[Middle].maxVal, choice), RightHalf,
           UNCHANGED <<unsigned, cases, defStmt, buckets, next, choice>>
    PROVE  IInv'
<1> DEFINE m == Middle
<1>1. /\ right \in 1 .. Len(buckets) /\ m \in 1 .. Len(buckets) /\ m \in Int
      /\ Len(buckets) \in Nat
  BY MiddleFacts
<1>2. m + 1 \in 1 .. Len(buckets) + 1 /\ right \in 0 .. Len(buckets)
  BY <1>1
<1>3. ASSUME Plain PROVE Narrowed(m + 1, right)
  <2> SUFFICES ASSUME NEW k \in 1 .. Len(buckets)
               PROVE  /\ k < m + 1 => Less(buckets[k].maxVal, choice)
                      /\ k > right => Less(choice, buckets[k].minVal)
    BY DEF Narrowed
  <2>1. k > right => Less(choice, buckets[k].minVal)
    BY <1>3 DEF IInv, Narrowing, Narrowed
  <2>2. ASSUME k < m PROVE Less(buckets[k].maxVal, choice)
    <3>1. WellFormed(buckets[m]) /\ WellFormed(buckets[k]) /\ buckets[k].maxVal < buckets[m].minVal
      BY <1>1, <1>3, <2>2, CompareFacts DEF WellCut
    <3>2. /\ buckets[m].minVal \in buckets[m].cases /\ buckets[m].maxVal \in buckets[m].cases
          /\ buckets[k].maxVal \in buckets[k].cases /\ buckets[m].minVal <= buckets[m].maxVal
      BY <3>1 DEF WellFormed
    <3>3. /\ buckets[m].maxVal \in Int /\ Number(buckets[m].maxVal) = buckets[m].maxVal
          /\ buckets[m].minVal \in Int
          /\ buckets[k].maxVal \in Int /\ Number(buckets[k].maxVal) = buckets[k].maxVal
          /\ Number(choice) \in Int
      BY <1>1, <1>3, <3>2, CompareFacts
    <3> QED
      BY <3>1, <3>2, <3>3 DEF Less
  <2>3. k < m + 1 => k = m \/ k < m
    BY <1>1
  <2> QED
    BY <2>1, <2>2, <2>3
<1>4. SearchIn(m + 1, right)
  BY DEF RightHalf
<1> HIDE DEF m
<1> QED
  BY <1>2, <1>3, <1>4, SearchInIInv

\* What a jump table holds is a statement of the switch.
LEMMA EntryType ==
    ASSUME NEW b \in Bucket, NEW i
    PROVE  TableEntry(b, i) \in Labels \cup {Default}
<1>1. b.cases \subseteq Labels
  BY DEF Bucket
<1> QED
  BY <1>1 DEF TableEntry

\* One label left in one bucket: a single comparison decides.
LEMMA LoneIInv ==
    ASSUME IInv, phase = "search", SearchStep,
           TableLen(buckets[Middle]) = 1, left > Middle - 1, Middle + 1 > right
    PROVE  IInv'
<1> DEFINE b == buckets[Middle]
           t == IF choice # b.minVal THEN Default ELSE TableEntry(b, 0)
<1>1. Reach(t) /\ UNCHANGED <<unsigned, cases, defStmt, buckets, next, choice>>
  BY DEF SearchStep
<1>2. Middle \in 1 .. Len(buckets) /\ b \in Bucket
  BY MiddleFacts
<1>3. t \in Labels \cup {Default}
  BY <1>2, EntryType
<1>4. ASSUME Plain PROVE t = IF choice \in ToSet(cases) THEN choice ELSE Default
  <2>1. /\ Spans /\ WellCut(buckets, cases, next) /\ WellFormed(b)
        /\ Narrowed(left, right) /\ Number(choice) \in Int
    BY <1>2, <1>4, CompareFacts DEF IInv, Narrowing, WellCut
  <2>2. /\ b.minVal \in b.cases /\ b.maxVal \in b.cases
        /\ TableLen(b) = b.maxVal - b.minVal + 1
    BY <1>2, <2>1, BucketFacts DEF IInv, WellFormed
  <2>3. b.minVal \in Int /\ b.maxVal \in Int /\ Number(b.minVal) = b.minVal /\ Number(b.maxVal) = b.maxVal
    BY <1>2, <1>4, <2>2, CompareFacts
  <2>4. b.minVal = b.maxVal
    BY <2>2, <2>3
  <2>5. CASE choice = b.minVal
    <3>1. ~Less(choice, b.minVal) /\ ~Less(b.maxVal, choice)
      BY <2>3, <2>4, <2>5 DEF Less
    <3>2. TableEntry(b, choice - b.minVal) = IF choice \in ToSet(cases) THEN choice ELSE Default
      BY <1>2, <1>4, <3>1, EntryRight
    <3>3. choice - b.minVal = 0
      BY <2>3, <2>5
    <3> QED
      BY <2>5, <3>2, <3>3
  <2>6. CASE choice # b.minVal
    <3>1. Less(choice, b.minVal) \/ Less(b.maxVal, choice)
      <4>1. ASSUME Number(choice) = b.minVal PROVE FALSE
        <5>1. b.minVal <= IntMax
          BY <1>2, <2>1, <2>2, BucketFacts, LabelInt DEF IInv
        <5> QED
          BY <1>4, <2>3, <2>6, <4>1, <5>1, CompareFacts
      <4> QED
        BY <2>1, <2>3, <2>4, <4>1 DEF Less
    <3>2. /\ left \in Int /\ right \in Int /\ Middle \in Int
          /\ left <= Middle /\ Middle <= right
      BY MiddleFacts
    <3>3. left = Middle /\ right = Middle
      BY <3>2
    <3>4. CASE Less(choice, b.minVal)
      <4>1. Narrowed(Middle, Middle - 1)
        <5>1. \A k \in 1 .. Len(buckets) : k > Middle - 1 => k = Middle \/ k > Middle
          BY <3>2
        <5> QED
          BY <2>1, <3>3, <3>4, <5>1 DEF Narrowed
      <4> QED
        BY <1>4, <2>6, <3>2, <4>1, NoneLeft
    <3>5. CASE Less(b.maxVal, choice)
      <4>1. Narrowed(Middle + 1, Middle)
        <5>1. \A k \in 1 .. Len(buckets) : k < Middle + 1 => k = Middle \/ k < Middle
          BY <3>2
        <5> QED
          BY <2>1, <3>3, <3>5, <5>1 DEF Narrowed
      <4> QED
        BY <1>4, <2>6, <3>2, <4>1, NoneLeft
    <3> QED
      BY <3>1, <3>4, <3>5
  <2> QED
    BY <2>5, <2>6
<1> HIDE DEF t
<1> QED
  BY <1>1, <1>3, <1>4, ReachIInv

\* The value lies in the bucket in the middle: its table decides.
LEMMA TableIInv ==
    ASSUME IInv, phase = "search",
           ~Less(choice, buckets[Middle].minVal), ~Less(buckets[Middle].maxVal, choice),
           Reach(TableEntry(buckets[Middle],
                     IF TableLen(buckets[Middle]) = 1 THEN 0 ELSE TableIndex(buckets[Middle], choice))),
           UNCHANGED <<unsigned, cases, defStmt, buckets, next, choice>>
    PROVE  IInv'
<1> DEFINE b == buckets[Middle]
           i == IF TableLen(b) = 1 THEN 0 ELSE TableIndex(b, choice)
           t == TableEntry(b, i)
<1>1. Middle \in 1 .. Len(buckets) /\ b \in Bucket
  BY MiddleFacts
<1>2. t \in Labels \cup {Default}
  BY <1>1, EntryType
<1>3. ASSUME Plain PROVE t = IF choice \in ToSet(cases) THEN choice ELSE Default
  <2>1. /\ choice \in Int /\ b.minVal <= choice /\ choice <= b.maxVal
        /\ TableIndex(b, choice) = choice - b.minVal
        /\ TableEntry(b, choice - b.minVal) =
               IF choice \in ToSet(cases) THEN choice ELSE Default
    BY <1>1, <1>3, EntryRight
  <2>2. TableLen(b) = b.maxVal - b.minVal + 1 /\ b.minVal \in Int /\ b.maxVal \in Int
    <3>1. Spans /\ WellCut(buckets, cases, next) /\ WellFormed(b)
      BY <1>1, <1>3, CompareFacts DEF WellCut
    <3> QED
      BY <1>1, <3>1, BucketFacts DEF IInv, WellFormed
  <2>3. i = choice - b.minVal
    BY <2>1, <2>2
  <2> QED
    BY <2>1, <2>3
<1>4. Reach(t)
  OBVIOUS
<1> HIDE DEF t
<1> QED
  BY <1>2, <1>3, <1>4, ReachIInv

\* Outside a table too the other conjuncts would keep.
LEMMA AstrayIInv ==
    ASSUME IInv, phase = "search", phase' = "astray", UNCHANGED <<left, right, target>>,
           UNCHANGED <<unsigned, cases, defStmt, buckets, next, choice>>
    PROVE  IInv'
<1>1. TypeOK'
  BY DEF IInv, TypeOK, Phases
<1>2. Counted' /\ Sorted'
  BY DEF IInv, Counted, Sorted, Spans
<1>3. /\ SearchRange' /\ Unbuilt' /\ CutRight' /\ Narrowing' /\ TablesFit' /\ DispatchRight'
      /\ OnlyFirstGrows'
  BY DEF SearchRange, Unbuilt, CutRight, Narrowing, TablesFit, DispatchRight, OnlyFirstGrows
<1> QED
  BY <1>1, <1>2, <1>3 DEF IInv

LEMMA SearchIInv == ASSUME IInv, SearchStep PROVE IInv'
<1> DEFINE b == buckets[Middle]
           single == TableLen(b) = 1
           lone == single /\ left > Middle - 1 /\ Middle + 1 > right
<1>1. phase = "search" /\ UNCHANGED <<unsigned, cases, defStmt, buckets, next, choice>>
  BY DEF SearchStep
<1>2. CASE lone
  BY <1>1, <1>2, LoneIInv
<1>3. CASE ~lone /\ Less(choice, b.minVal)
  <2>1. LeftHalf
    BY <1>3 DEF SearchStep
  <2> QED
    BY <1>1, <1>3, <2>1, LeftIInv
<1>4. CASE ~lone /\ ~Less(choice, b.minVal) /\ Less(b.maxVal, choice)
  <2>1. RightHalf
    BY <1>4 DEF SearchStep, Beyond
  <2> QED
    BY <1>1, <1>4, <2>1, RightIInv
<1>5. CASE ~lone /\ ~Less(choice, b.minVal) /\ ~Less(b.maxVal, choice)
  <2> DEFINE i == IF single THEN 0 ELSE TableIndex(b, choice)
  <2>1. JumpTable(b, i)
    BY <1>5 DEF SearchStep, Beyond
  <2>2. CASE i \in 0 .. TableLen(b) - 1
    BY <1>1, <1>5, <2>1, <2>2, TableIInv DEF JumpTable
  <2>3. CASE i \notin 0 .. TableLen(b) - 1
    <3> HIDE DEF i
    <3> QED
      BY <1>1, <2>1, <2>3, AstrayIInv DEF JumpTable
  <2> QED
    BY <2>2, <2>3
<1> QED
  BY <1>2, <1>3, <1>4, <1>5

-----------------------------------------------------------------------------
(* The tables, whatever the labels: an invariant of its own                 *)

\* The bounds of a bucket are labels of it
Bounded == \A k \in 1 .. Len(buckets) : {buckets[k].minVal, buckets[k].maxVal} \subseteq buckets[k].cases

\* The tables the generated code uses were filled without leaving them
AllFit == phase = "search" => \A k \in 1 .. Len(buckets) : Fits(buckets[k])

TInv == Bounded /\ AllFit /\ JumpsInTable

\* Differences that wrap: if maxVal has an entry in the table, so has every value JL and JG
\* let through, signed or unsigned.
LEMMA IndexInTable ==
    ASSUME NEW b \in Bucket, unsigned \in BOOLEAN, choice \in Values,
           TableIndex(b, b.maxVal) \in 0 .. TableLen(b) - 1,
           ~Less(choice, b.minVal), ~Less(b.maxVal, choice)
    PROVE  TableIndex(b, choice) \in 0 .. TableLen(b) - 1
<1> DEFINE lo == b.minVal
           hi == b.maxVal
<1>1. /\ lo \in Int /\ -IntMax - 1 <= lo /\ lo <= IntMax
      /\ hi \in Int /\ -IntMax - 1 <= hi /\ hi <= IntMax
      /\ choice \in Int /\ -IntMax - 1 <= choice /\ choice <= IntMax
      /\ IntMax \in Int /\ IntMax > 0
  BY LabelInt DEF Bucket, Values
<1>2. Wrap(hi - lo) \in 0 .. Wrap(Wrap(hi - lo) + 1) - 1
  BY DEF TableIndex, TableLen
<1>3. Number(lo) <= Number(choice) /\ Number(choice) <= Number(hi)
  BY <1>1 DEF Less, Number
<1> HIDE DEF lo, hi
<1>4. /\ Wrap(hi - lo) \in Int /\ Wrap(hi - lo) >= 0 /\ Wrap(hi - lo) <= IntMax
      /\ Wrap(Wrap(hi - lo) + 1) = Wrap(hi - lo) + 1
  <2>1. Wrap(hi - lo) \in Int /\ Wrap(hi - lo) <= IntMax /\ Wrap(hi - lo) >= -IntMax - 1
    BY <1>1 DEF Wrap
  <2>2. Wrap(hi - lo) >= 0
    BY <1>2, <2>1
  <2>3. CASE Wrap(hi - lo) < IntMax
    <3> DEFINE w == Wrap(hi - lo)
    <3>1. w \in Int /\ w + 1 <= IntMax /\ w + 1 >= -IntMax - 1
      BY <1>1, <2>1, <2>2, <2>3
    <3> HIDE DEF w
    <3>2. Wrap(w + 1) = w + 1
      BY <1>1, <3>1, WrapFits
    <3> QED
      BY <2>1, <2>2, <3>2 DEF w
  <2>4. CASE Wrap(hi - lo) = IntMax
    <3> DEFINE w == Wrap(hi - lo)
    <3>1. Wrap(w + 1) = -IntMax - 1
      BY <1>1, <2>4 DEF Wrap
    <3> QED
      BY <1>1, <1>2, <2>4, <3>1
  <2> QED
    BY <1>1, <2>1, <2>2, <2>3, <2>4
<1>5. /\ Wrap(hi - lo) = Number(hi) - Number(lo)
      /\ Wrap(choice - lo) = Number(choice) - Number(lo)
      /\ Number(lo) \in Int /\ Number(hi) \in Int /\ Number(choice) \in Int
  <2>1. CASE unsigned
    BY <1>1, <1>3, <1>4, <2>1 DEF Wrap, Number
  <2>2. CASE ~unsigned
    BY <1>1, <1>3, <1>4, <2>2 DEF Wrap, Number
  <2> QED
    BY <2>1, <2>2
<1>6. Wrap(choice - lo) \in 0 .. Wrap(Wrap(hi - lo) + 1) - 1
  BY <1>3, <1>4, <1>5
<1> QED
  BY <1>6 DEF TableIndex, TableLen, lo, hi

\* The bounds of every bucket stay among its cases.
LEMMA BoundedStep == ASSUME IInv, Bounded, Next PROVE Bounded'
<1>1. buckets \in Seq(Bucket) /\ Len(buckets) \in Nat
  BY DEF IInv, TypeOK
<1>2. CASE UNCHANGED buckets
  BY <1>2 DEF Bounded
<1>3. CASE OpenBucket
  <2> DEFINE v == cases[next]
             n == Len(buckets)
  <2>1. buckets' = Append(buckets, NewBucket(v))
    BY <1>3 DEF OpenBucket
  <2>2. /\ Len(buckets') = n + 1 /\ buckets'[n + 1] = NewBucket(v)
        /\ \A k \in 1 .. n : buckets'[k] = buckets[k]
    BY <1>1, <2>1
  <2>3. {NewBucket(v).minVal, NewBucket(v).maxVal} \subseteq NewBucket(v).cases
    BY DEF NewBucket
  <2> HIDE DEF v
  <2>4. \A k \in 1 .. n + 1 : k = n + 1 \/ k \in 1 .. n
    BY <1>1
  <2> QED
    BY <2>2, <2>3, <2>4 DEF Bounded
<1>4. CASE JoinBucket
  <2> DEFINE d == Join(Last(buckets), cases[next])
             n == Len(buckets)
  <2>1. phase = "bucket" /\ next <= Len(cases) /\ Joins(cases[next])
        /\ buckets' = Append(Front(buckets), d)
    BY <1>4 DEF JoinBucket
  <2>2. /\ buckets # <<>> /\ n \in Nat \ {0} /\ Last(buckets) = buckets[n] /\ d \in Bucket
        /\ d.cases = Last(buckets).cases \cup {cases[next]}
        /\ d.minVal = Last(buckets).minVal /\ d.maxVal = cases[next]
    BY <2>1, JoinFacts
  <2>3. {d.minVal, d.maxVal} \subseteq d.cases
    BY <2>2 DEF Bounded
  <2> HIDE DEF d
  <2>4. /\ Len(buckets') = n /\ buckets'[n] = d
        /\ \A k \in 1 .. n - 1 : buckets'[k] = buckets[k]
    BY <1>1, <2>1, <2>2, FrontFacts
  <2>5. \A k \in 1 .. n : k = n \/ k \in 1 .. n - 1
    BY <2>2
  <2> QED
    BY <2>3, <2>4, <2>5 DEF Bounded
<1>5. CASE MergeSwitchBucket
  <2> DEFINE b == Join(Last(buckets), cases[next])
             f == Front(buckets)
             a == Last(f)
             n == Len(buckets)
  <2>1. phase = "bucket" /\ next <= Len(cases) /\ Joins(cases[next]) /\ Merges(b)
        /\ buckets' = Append(Front(f), Merge(a, b))
    BY <1>5 DEF MergeSwitchBucket
  <2>2. /\ buckets # <<>> /\ n \in Nat \ {0} /\ Last(buckets) = buckets[n] /\ b \in Bucket
        /\ b.cases = Last(buckets).cases \cup {cases[next]} /\ b.maxVal = cases[next]
    BY <2>1, JoinFacts
  <2>3. f \in Seq(Bucket) /\ Len(f) = n - 1 /\ \A k \in 1 .. n - 1 : f[k] = buckets[k]
    BY <1>1, <2>2, FrontFacts
  <2>4. n > 1
    BY <2>1 DEF Merges
  <2>5. f # <<>>
    BY <2>2, <2>3, <2>4
  <2> HIDE DEF b, f
  <2>6. a = f[n - 1] /\ a \in Bucket
    BY <2>2, <2>3, <2>5, FrontFacts
  <2>7. a.minVal \in a.cases
    BY <2>2, <2>3, <2>4, <2>6 DEF Bounded
  <2> HIDE DEF a
  <2>8. /\ Merge(a, b).cases = a.cases \cup b.cases /\ Merge(a, b).minVal = a.minVal
        /\ Merge(a, b).maxVal = b.maxVal /\ Merge(a, b) \in Bucket
    <3>1. a.cases \cup b.cases \in SUBSET Labels /\ a.ncase + b.ncase \in Nat /\ b.maxVal \in Labels
      BY <2>2, <2>6 DEF Bucket
    <3> QED
      BY <2>2, <2>6, <3>1 DEF Merge, Bucket
  <2>9. {Merge(a, b).minVal, Merge(a, b).maxVal} \subseteq Merge(a, b).cases
    BY <2>2, <2>7, <2>8
  <2>10. /\ Len(buckets') = n - 1 /\ buckets'[n - 1] = Merge(a, b)
         /\ \A k \in 1 .. n - 2 : buckets'[k] = buckets[k]
    <3>1. /\ Len(buckets') = Len(f) /\ buckets'[Len(f)] = Merge(a, b)
          /\ \A k \in 1 .. Len(f) - 1 : buckets'[k] = f[k]
      <4> DEFINE m == Merge(a, b)
      <4>1. m \in Bucket /\ buckets' = Append(Front(f), m)
        BY <2>1, <2>8
      <4> HIDE DEF m
      <4>2. /\ Len(Append(Front(f), m)) = Len(f) /\ Append(Front(f), m)[Len(f)] = m
            /\ \A k \in 1 .. Len(f) - 1 : Append(Front(f), m)[k] = f[k]
        <5>1. \A g \in Seq(Bucket), e \in Bucket :
                 g # <<>> => /\ Len(Append(Front(g), e)) = Len(g) /\ Append(Front(g), e)[Len(g)] = e
                             /\ \A k \in 1 .. Len(g) - 1 : Append(Front(g), e)[k] = g[k]
          BY FrontFacts
        <5>2. f \in Seq(Bucket) /\ f # <<>> /\ m \in Bucket
          BY <2>3, <2>5, <4>1
        <5> QED
          BY <5>1, <5>2
      <4> QED
        BY <4>1, <4>2 DEF m
    <3>2. n - 1 - 1 = n - 2 /\ \A k \in 1 .. n - 2 : k \in 1 .. n - 1
      BY <2>2
    <3> QED
      BY <2>3, <3>1, <3>2
  <2>11. \A k \in 1 .. n - 1 : k = n - 1 \/ k \in 1 .. n - 2
    BY <2>2
  <2> QED
    BY <2>9, <2>10, <2>11 DEF Bounded
<1>6. UNCHANGED buckets \/ OpenBucket \/ JoinBucket \/ MergeSwitchBucket
  BY DEF Next, Check, Build, Run, AddDefault, EndCheck, AddCase, RepeatedCase, SearchStep, StartSearch
<1> QED
  BY <1>2, <1>3, <1>4, <1>5, <1>6

\* The last comparison leads to an entry of the table.
LEMMA SearchInTable == ASSUME IInv, TInv, SearchStep PROVE AllFit' /\ JumpsInTable'
<1> DEFINE b == buckets[Middle]
           i == IF TableLen(b) = 1 THEN 0 ELSE TableIndex(b, choice)
<1>1. /\ phase = "search" /\ buckets' = buckets
      /\ Middle \in 1 .. Len(buckets) /\ b \in Bucket /\ choice \in Values /\ unsigned \in BOOLEAN
  <2>1. phase = "search" /\ buckets' = buckets
    BY DEF SearchStep
  <2> QED
    BY <2>1, MiddleFacts DEF IInv, TypeOK
<1>2. AllFit'
  <2>1. \A k \in 1 .. Len(buckets) : Fits(buckets[k])
    BY <1>1 DEF TInv, AllFit
  <2>2. buckets' = buckets
    BY <1>1
  <2> QED
    BY <2>1, <2>2 DEF AllFit, Fits, TableIndex, TableLen, Wrap
<1>3. TableIndex(b, b.maxVal) \in 0 .. TableLen(b) - 1
  BY <1>1 DEF TInv, AllFit, Bounded, Fits
<1>4. ASSUME ~Less(choice, b.minVal), ~Less(b.maxVal, choice) PROVE i \in 0 .. TableLen(b) - 1
  BY <1>1, <1>3, <1>4, IndexInTable
<1>5. ASSUME phase' = "astray" PROVE FALSE
  <2>1. ~Less(choice, b.minVal) /\ ~Less(b.maxVal, choice) /\ JumpTable(b, i)
    BY <1>1, <1>5 DEF SearchStep, LeftHalf, RightHalf, SearchIn, Reach, Beyond
  <2>2. i \in 0 .. TableLen(b) - 1
    BY <1>4, <2>1
  <2> HIDE DEF i
  <2> QED
    BY <1>5, <2>1, <2>2 DEF JumpTable, Reach
<1> QED
  BY <1>2, <1>5 DEF JumpsInTable

-----------------------------------------------------------------------------
(* The theorems                                                             *)

\* Every step from AddCase to the last comparison keeps the invariant.
THEOREM SwitchInvariance == Spec => []IInv
<1>1. ASSUME IInv, [Next]_vars PROVE IInv'
  <2>1. CASE \E v \in Labels : AddCase(v)
    BY <1>1, <2>1, AddCaseIInv
  <2>2. CASE (\E v \in Labels : RepeatedCase(v)) \/ AddDefault
    BY <1>1, <2>2, RejectIInv
  <2>3. CASE EndCheck
    BY <1>1, <2>3, EndCheckIInv
  <2>4. CASE OpenBucket
    BY <1>1, <2>4, OpenIInv
  <2>5. CASE JoinBucket
    BY <1>1, <2>5, JoinIInv
  <2>6. CASE MergeSwitchBucket
    BY <1>1, <2>6, MergeIInv
  <2>7. CASE SearchStep
    BY <1>1, <2>7, SearchIInv
  <2>8. CASE \E x \in Values : StartSearch(x)
    BY <1>1, <2>8, StartIInv
  <2>9. CASE UNCHANGED vars
    BY <1>1, <2>9 DEF vars, IInv, TypeOK, SearchRange, Counted, Unbuilt, Sorted, Spans, Plain,
                      CutRight, Narrowing, Narrowed, Less, Number, TablesFit, DispatchRight,
                      OnlyFirstGrows
  <2> QED
    BY <1>1, <2>1, <2>2, <2>3, <2>4, <2>5, <2>6, <2>7, <2>8, <2>9 DEF Next, Check, Build, Run
<1> QED
  BY <1>1, InitIInv, PTL DEF Spec

\* Labels, buckets, positions and targets keep their types.
THEOREM TypeCorrect == Spec => []TypeOK
<1>1. IInv => TypeOK
  BY DEF IInv
<1> QED
  BY <1>1, SwitchInvariance, PTL

\* The code TranslateSwitchBuckets generates for a switch with a case label reaches the
\* right statement for every value, whatever the labels, their number and the int width.
THEOREM DispatchCorrect == Spec => []DispatchRight
<1>1. IInv => DispatchRight
  BY DEF IInv
<1> QED
  BY <1>1, SwitchInvariance, PTL

\* No jump table is written outside its bounds.
THEOREM NoOverrun == Spec => []TablesFit
<1>1. IInv => TablesFit
  BY DEF IInv
<1> QED
  BY <1>1, SwitchInvariance, PTL

\* The generated code never jumps outside a jump table, for every int width, every label
\* set, signed or unsigned: no assumption is made on the differences of the labels.
THEOREM JumpsStayInTables == Spec => []JumpsInTable
<1>1. Init => TInv
  <2> SUFFICES ASSUME Init PROVE TInv
    OBVIOUS
  <2>1. phase = "check" /\ Len(buckets) = 0
    BY DEF Init
  <2> QED
    BY <2>1 DEF TInv, Bounded, AllFit, JumpsInTable
<1>2. ASSUME IInv, TInv, [Next]_vars PROVE TInv'
  <2>1. CASE SearchStep
    <3>1. Bounded'
      BY <1>2, <2>1, BoundedStep DEF TInv, Next, Run
    <3> QED
      BY <1>2, <2>1, <3>1, SearchInTable DEF TInv
  <2>2. CASE \E x \in Values : StartSearch(x)
    <3> DEFINE unfit == \E k \in 1 .. Len(buckets) : ~Fits(buckets[k])
    <3>1. Bounded'
      BY <1>2, <2>2, BoundedStep DEF TInv, Next, Run
    <3>2. buckets' = buckets /\ phase' \in {"overrun", "done", "search"} /\ (phase' = "search" => ~unfit)
      BY <2>2 DEF StartSearch, Reach
    <3>3. AllFit'
      BY <3>2 DEF AllFit, Fits, TableIndex, TableLen, Wrap
    <3> QED
      BY <3>1, <3>2, <3>3 DEF TInv, JumpsInTable
  <2>3. CASE Check \/ Build
    <3>1. Bounded'
      BY <1>2, <2>3, BoundedStep DEF TInv, Next
    <3>2. phase' \in {"check", "error", "bucket", "wild"}
      BY <2>3 DEF Check, Build, AddDefault, EndCheck, AddCase, RepeatedCase, OpenBucket, JoinBucket,
                  MergeSwitchBucket
    <3> QED
      BY <3>1, <3>2 DEF TInv, AllFit, JumpsInTable
  <2>4. CASE UNCHANGED vars
    BY <1>2, <2>4 DEF vars, TInv, Bounded, AllFit, JumpsInTable, Fits, TableIndex, TableLen, Wrap
  <2> QED
    BY <1>2, <2>1, <2>2, <2>3, <2>4 DEF Next, Run
<1>3. TInv => JumpsInTable
  BY DEF TInv
<1> QED
  BY <1>1, <1>2, <1>3, SwitchInvariance, PTL DEF Spec

\* No switch that compiles ever has a second jump table: from the second bucket on
\* each has a single label, since two buckets never pass MergeSwitchBucket's test.
THEOREM OneTable == Spec => []OnlyFirstGrows
<1>1. IInv => OnlyFirstGrows
  BY DEF IInv
<1> QED
  BY <1>1, SwitchInvariance, PTL

\* The buckets cut the list into ascending ranges.
THEOREM CutCorrect == Spec => []BucketsOrdered
<1>1. IInv => BucketsOrdered
  <2> SUFFICES ASSUME IInv, phase \in {"bucket", "search"}, Spans
               PROVE  BucketsOrdered
    BY DEF BucketsOrdered
  <2>1. WellCut(buckets, cases, next) /\ Len(buckets) \in Nat
    BY DEF IInv, CutRight, TypeOK
  <2>2. UNION {buckets[k].cases : k \in 1 .. Len(buckets)} = {cases[i] : i \in 1 .. next - 1}
    BY <2>1 DEF WellCut
  <2>3. ASSUME NEW k \in 1 .. Len(buckets)
        PROVE  /\ {buckets[k].minVal, buckets[k].maxVal} \subseteq buckets[k].cases
               /\ \A v \in buckets[k].cases : v \in buckets[k].minVal .. buckets[k].maxVal
               /\ buckets[k].ncase = Cardinality(buckets[k].cases)
               /\ \A l \in k + 1 .. Len(buckets) : buckets[k].maxVal < buckets[l].minVal
    <3>1. WellFormed(buckets[k])
      BY <2>1, <2>3 DEF WellCut
    <3>2. \A v \in buckets[k].cases : v \in Int
      BY <2>1, <2>3, BucketFacts DEF IInv
    <3>3. \A v \in buckets[k].cases : v \in buckets[k].minVal .. buckets[k].maxVal
      BY <3>1, <3>2 DEF WellFormed
    <3>4. \A l \in k + 1 .. Len(buckets) : buckets[k].maxVal < buckets[l].minVal
      <4> SUFFICES ASSUME NEW l \in k + 1 .. Len(buckets)
                   PROVE  buckets[k].maxVal < buckets[l].minVal
        OBVIOUS
      <4>1. l \in 1 .. Len(buckets) /\ k < l
        BY <2>1, <2>3
      <4> QED
        BY <2>1, <2>3, <4>1 DEF WellCut
    <3> QED
      BY <3>1, <3>3, <3>4 DEF WellFormed
  <2> QED
    BY <2>2, <2>3 DEF BucketsOrdered
<1> QED
  BY <1>1, SwitchInvariance, PTL
=============================================================================
