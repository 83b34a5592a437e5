------------------------------- MODULE Switch -------------------------------
(***************************************************************************)
(* The switch statement of UCC, from the checker to the code that runs:    *)
(*                                                                         *)
(*   "check"   the case labels of the statement are linked in ascending    *)
(*             order (stmtchk.c, AddCase)                                  *)
(*   "bucket"  the list is cut into buckets, each to become a jump table   *)
(*             (transtmt.c, TranslateSwitchStatement)                      *)
(*   "search"  the generated code looks for the bucket of the value by     *)
(*             binary search (transtmt.c, TranslateSwitchBuckets)          *)
(*   "done"    control has reached target                                  *)
(*                                                                         *)
(* A label and a value of the switch expression are int bit patterns, read *)
(* as a number of -IntMax - 1 .. IntMax; differences of labels are         *)
(* computed in int and wrap.  If the expression is unsigned the generated  *)
(* code compares the patterns as unsigned numbers.                         *)
(***************************************************************************)
EXTENDS Integers, SequencesExt

CONSTANTS
    IntMax,     \* INT_MAX
    Labels,     \* the case labels a program may use
    MaxCases,   \* the case statements of the switch
    Default,    \* defBB: the default statement, or what follows the switch
    Body,       \* the first statement of the switch body
    NULL

ASSUME SwitchAssumption ==
    /\ IntMax \in Nat \ {0}
    /\ MaxCases \in Nat /\ 2 * (MaxCases + 1) <= IntMax  \* the density tests count in int
    /\ Labels \subseteq (-IntMax - 1) .. IntMax
    /\ {Default, Body, NULL} \cap ((-IntMax - 1) .. IntMax) = {}
    /\ Default # Body /\ Default # NULL

VARIABLES
    phase,
    unsigned,   \* switchStmt->expr->ty is unsigned
    cases,      \* the list from switchStmt->cases along nextCase
    defStmt,    \* whether switchStmt->defStmt is set
    buckets,    \* the chain of buckets, the current bucket last
    next,       \* the position in cases of the case to place next
    choice,     \* the value of the switch expression
    left, right,
    target

vars == <<phase, unsigned, cases, defStmt, buckets, next, choice, left, right, target>>

-----------------------------------------------------------------------------
(* int                                                                      *)

Values == (-IntMax - 1) .. IntMax

\* The int a sum or difference of two ints becomes
Wrap(x) ==
    IF x > IntMax THEN x - 2 * (IntMax + 1)
    ELSE IF x < -IntMax - 1 THEN x + 2 * (IntMax + 1)
    ELSE x

\* The number the bit pattern x stands for in the type of the expression
Number(x) == IF unsigned /\ x < 0 THEN x + 2 * (IntMax + 1) ELSE x

\* Mutant of Less: JLE and JGE
LessOrEqual(x, y) == Number(x) <= Number(y)

\* JL and JG, signed or unsigned by choice->ty
Less(x, y) == Number(x) < Number(y)

-----------------------------------------------------------------------------
(* stmtchk.c: CheckCaseStatement and CheckDefaultStatement                  *)

\* AddCase links v before the first label that is not less
AddCase(v) ==
    /\ phase = "check"
    /\ Len(cases) < MaxCases
    /\ \E i \in 1 .. Len(cases) + 1 :
          /\ \A j \in 1 .. i - 1 : Wrap(v - cases[j]) > 0
          /\ i <= Len(cases) => Wrap(v - cases[i]) < 0
          /\ cases' = InsertAt(cases, i, v)
    /\ UNCHANGED <<phase, unsigned, defStmt, buckets, next, choice, left, right, target>>

\* "Repeated constant in a switch statement": the compilation ends
RepeatedCase(v) ==
    /\ phase = "check"
    /\ \E i \in 1 .. Len(cases) :
          /\ \A j \in 1 .. i - 1 : Wrap(v - cases[j]) > 0
          /\ Wrap(v - cases[i]) = 0
    /\ phase' = "error"
    /\ UNCHANGED <<unsigned, cases, defStmt, buckets, next, choice, left, right, target>>

\* A second default label is an error too
AddDefault ==
    /\ phase = "check"
    /\ defStmt' = TRUE
    /\ phase' = IF defStmt THEN "error" ELSE phase
    /\ UNCHANGED <<unsigned, cases, buckets, next, choice, left, right, target>>

EndCheck ==
    /\ phase = "check"
    /\ phase' = "bucket"
    /\ next' = 1
    /\ UNCHANGED <<unsigned, cases, defStmt, buckets, choice, left, right, target>>

-----------------------------------------------------------------------------
(* transtmt.c: TranslateSwitchStatement                                     *)

\* Mutant of NewBucket: the bounds start at 1
NewBucketFromOne(v) == [cases |-> {v}, ncase |-> 1, minVal |-> 1, maxVal |-> 1]

NewBucket(v) == [cases |-> {v}, ncase |-> 1, minVal |-> v, maxVal |-> v]

\* Mutant of Joins: the density is that of the bucket with two more cases
JoinsSparse(v) ==
    /\ buckets # <<>>
    /\ (Last(buckets).ncase + 2) * 2 > Wrap(v - Last(buckets).minVal)

\* The current bucket takes the next case
Joins(v) ==
    /\ buckets # <<>>
    /\ (Last(buckets).ncase + 1) * 2 > Wrap(v - Last(buckets).minVal)

\* Mutant of Join: maxVal is not raised
JoinKeepsMax(b, v) == [b EXCEPT !.cases = @ \cup {v}, !.ncase = @ + 1]

Join(b, v) ==
    [b EXCEPT !.cases = @ \cup {v}, !.ncase = @ + 1, !.maxVal = v]

\* Mutant of Merges: the density of the merged bucket is asked for
MergesDense(b) ==
    /\ Len(buckets) > 1
    /\ (Last(Front(buckets)).ncase + b.ncase + 1) * 2 >
           Wrap(b.maxVal - Last(Front(buckets)).minVal)

\* The loop condition of MergeSwitchBucket for the current bucket b
Merges(b) ==
    /\ Len(buckets) > 1
    /\ (Last(Front(buckets)).ncase + b.ncase + 1) * 2 > Wrap(b.maxVal - b.minVal)

Merge(a, b) ==
    [a EXCEPT !.cases = @ \cup b.cases, !.ncase = @ + b.ncase, !.maxVal = b.maxVal]

OpenBucket ==
    /\ phase = "bucket"
    /\ next <= Len(cases)
    /\ ~Joins(cases[next])
    /\ buckets' = Append(buckets, NewBucket(cases[next]))
    /\ next' = next + 1
    /\ UNCHANGED <<phase, unsigned, cases, defStmt, choice, left, right, target>>

JoinBucket ==
    /\ phase = "bucket"
    /\ next <= Len(cases)
    /\ Joins(cases[next])
    /\ LET b == Join(Last(buckets), cases[next])
       IN  /\ ~Merges(b)
           /\ buckets' = Append(Front(buckets), b)
    /\ next' = next + 1
    /\ UNCHANGED <<phase, unsigned, cases, defStmt, choice, left, right, target>>

(***************************************************************************)
(* The bucket is merged into the one before it, and the loop goes on with  *)
(* (SwitchBucket)bucket->tail, an address inside a case statement: what is *)
(* read and overwritten from there on is no bucket, and nothing more can   *)
(* be said of the run.                                                     *)
(***************************************************************************)
MergeSwitchBucket ==
    /\ phase = "bucket"
    /\ next <= Len(cases)
    /\ Joins(cases[next])
    /\ LET b == Join(Last(buckets), cases[next])
       IN  /\ Merges(b)
           /\ buckets' = Append(Front(Front(buckets)), Merge(Last(Front(buckets)), b))
    /\ phase' = "wild"
    /\ UNCHANGED <<unsigned, cases, defStmt, next, choice, left, right, target>>

-----------------------------------------------------------------------------
(* transtmt.c: TranslateSwitchBuckets, and the code it generates            *)

\* Mutant of TableLen: the table has no entry for maxVal
TableLenShort(b) == Wrap(b.maxVal - b.minVal)

\* The entries of the jump table of bucket b
TableLen(b) == Wrap(Wrap(b.maxVal - b.minVal) + 1)

TableIndex(b, v) == Wrap(v - b.minVal)

\* Every case of b has its entry inside the table
Fits(b) == \A v \in b.cases : TableIndex(b, v) \in 0 .. TableLen(b) - 1

\* The statement the table has at index i
TableEntry(b, i) ==
    IF \E v \in b.cases : TableIndex(b, v) = i
    THEN CHOOSE v \in b.cases : TableIndex(b, v) = i
    ELSE Default

Reach(t) ==
    /\ target' = t
    /\ phase' = "done"
    /\ UNCHANGED <<left, right>>

\* Control goes to the code for buckets l .. r, which is defBB if there are none
SearchIn(l, r) ==
    IF l > r THEN Reach(Default)
    ELSE /\ left' = l
         /\ right' = r
         /\ UNCHANGED <<phase, target>>

\* All buckets are built and the generated code runs for the value x.  Without
\* a bucket nothing is generated, and control falls through into the body.
StartSearch(x) ==
    /\ phase = "bucket"
    /\ next > Len(cases)
    /\ choice' = x
    /\ IF \E k \in 1 .. Len(buckets) : ~Fits(buckets[k])
       THEN phase' = "overrun" /\ UNCHANGED <<left, right, target>>
       ELSE IF buckets = <<>>
       THEN Reach(IF defStmt THEN Body ELSE Default)
       ELSE /\ phase' = "search"
            /\ left' = 1
            /\ right' = Len(buckets)
            /\ UNCHANGED target
    /\ UNCHANGED <<unsigned, cases, defStmt, buckets, next>>

Middle == (left + right) \div 2

LeftHalf == SearchIn(left, Middle - 1)

\* Mutant of RightHalf: the bucket in the middle is searched again
RightHalfAgain == SearchIn(Middle, right)

RightHalf == SearchIn(Middle + 1, right)

\* Mutant of Beyond: JG is generated only where buckets are left above
BeyondIfMore(b) == Middle < right /\ Less(b.maxVal, choice)

\* JG: the value is above the labels of bucket b
Beyond(b) == Less(b.maxVal, choice)

\* The jump through entry i of the table of bucket b, which has nothing to jump to
\* outside the table
JumpTable(b, i) ==
    IF i \in 0 .. TableLen(b) - 1 THEN Reach(TableEntry(b, i))
    ELSE phase' = "astray" /\ UNCHANGED <<left, right, target>>

\* JNE where a single label is all there is left, else JL and JG, then the table
SearchStep ==
    /\ phase = "search"
    /\ LET b      == buckets[Middle]
           single == TableLen(b) = 1
           lone   == single /\ left > Middle - 1 /\ Middle + 1 > right
       IN  IF lone
           THEN Reach(IF choice # b.minVal THEN Default ELSE TableEntry(b, 0))
           ELSE IF Less(choice, b.minVal) THEN LeftHalf
           ELSE IF Beyond(b) THEN RightHalf
           ELSE JumpTable(b, IF single THEN 0 ELSE TableIndex(b, choice))
    /\ UNCHANGED <<unsigned, cases, defStmt, buckets, next, choice>>

-----------------------------------------------------------------------------
Init ==
    /\ phase = "check"
    /\ unsigned \in BOOLEAN
    /\ cases = <<>>
    /\ defStmt = FALSE
    /\ buckets = <<>>
    /\ next = 1
    /\ choice = NULL
    /\ left = 0 /\ right = 0
    /\ target = NULL

Check == AddDefault \/ EndCheck \/ \E v \in Labels : AddCase(v) \/ RepeatedCase(v)

Build == OpenBucket \/ JoinBucket \/ MergeSwitchBucket

Run == SearchStep \/ \E x \in Values : StartSearch(x)

Next == Check \/ Build \/ Run

\* The compiler works through the list and the compiled program runs on
Spec == Init /\ [][Next]_vars /\ WF_vars(Build) /\ WF_vars(Run)

-----------------------------------------------------------------------------
(* Properties                                                               *)

Phases == {"check", "error", "bucket", "wild", "overrun", "search", "astray", "done"}

Bucket ==
    [cases : SUBSET Labels, ncase : Nat, minVal : Labels, maxVal : Labels]

\* The list, the chain, the range searched and the target stay in their types.
TypeOK ==
    /\ phase \in Phases
    /\ unsigned \in BOOLEAN /\ defStmt \in BOOLEAN
    /\ cases \in Seq(Labels)
    /\ buckets \in Seq(Bucket)
    /\ next \in 1 .. Len(cases) + 1
    /\ choice \in Values \cup {NULL}
    /\ left \in Nat /\ right \in Nat
    /\ target \in Labels \cup {Default, Body, NULL}

\* No two labels are so far apart that their difference overflows
Spans == \A v, w \in ToSet(cases) : v - w <= IntMax

\* ... and they read the same as signed and as unsigned numbers
Plain == Spans /\ (unsigned => \A v \in ToSet(cases) : v >= 0)

\* A switch with a case label reaches the statement labelled with the value of
\* its expression, and the default where no label matches: the binary search over
\* the buckets TranslateSwitchBuckets generates and the tables agree with the list.
DispatchRight ==
    phase = "done" /\ Plain /\ cases # <<>> =>
        target = IF choice \in ToSet(cases) THEN choice ELSE Default

\* The buckets cut the cases placed so far into ascending, disjoint ranges, each with
\* its own bounds and count: what the binary search and the tables rely on.
BucketsOrdered ==
    phase \in {"bucket", "search"} /\ Spans =>
        /\ UNION {buckets[k].cases : k \in 1 .. Len(buckets)} =
               {cases[i] : i \in 1 .. next - 1}
        /\ \A k \in 1 .. Len(buckets) :
              /\ {buckets[k].minVal, buckets[k].maxVal} \subseteq buckets[k].cases
              /\ \A v \in buckets[k].cases : v \in buckets[k].minVal .. buckets[k].maxVal
              /\ buckets[k].ncase = Cardinality(buckets[k].cases)
              /\ \A l \in k + 1 .. Len(buckets) : buckets[k].maxVal < buckets[l].minVal

\* TranslateSwitchBuckets never writes a jump table entry outside the table
\* it allocated.
TablesFit == Spans => phase # "overrun"

\* The code TranslateSwitchBuckets generates never jumps through an entry outside its
\* table, whatever the labels: where their differences wrap or the comparisons are
\* unsigned too, what JL and JG let through and the index SUB computes agree.
JumpsInTable == phase # "astray"

\* Merging never stops at the density test of MergeSwitchBucket: a switch that is
\* compiled at all has one bucket that grew, the first, and single cases after it.
OnlyFirstGrows ==
    phase \in {"bucket", "search"} /\ Spans =>
        \A k \in 2 .. Len(buckets) : buckets[k].ncase = 1

\* The search generated by TranslateSwitchBuckets halves its range until it
\* ends, and the loop over the cases ends before it: every switch reaches a target
\* or one of the two places where the compiler loses control.
SearchEnds == (phase = "bucket") ~> (phase \in {"done", "wild", "overrun"})

\* doc/stmt_switch.md: after a merge the previous bucket, now the merged one, is
\* the current bucket, and the loop goes on from there.
MergeGoesOn == Spans => phase # "wild"

\* doc/stmt_switch.md: if the value matches no case, control goes to the default
\* statement, or leaves the switch where there is none.
DefaultTaken ==
    phase = "done" /\ Plain /\ choice \notin ToSet(cases) => target = Default

\* doc/stmt_switch.md: nextCase links the case statements in ascending order of
\* their values.
CasesAscend ==
    ~unsigned => \A i, j \in 1 .. Len(cases) : i < j => cases[i] < cases[j]

\* The same for an unsigned expression, whose labels FoldCast made unsigned.
UnsignedCasesAscend ==
    unsigned => \A i, j \in 1 .. Len(cases) : i < j => Less(cases[i], cases[j])
=============================================================================
