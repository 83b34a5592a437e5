# UCC in TLA+

This directory is a verification project for UCC, the C compiler under
`src/ucl/src`: TLA+ modules of its stages, TLC configurations that check them on
small instances, and proofs, checked by the TLA+ proof system, of what holds for
every instance.

UCC is a sequential program that compiles its input files one after another. It
has no threads and no messages. Two things are hard about it. One is *state kept across
many small steps*: an allocator that decides with counters other passes maintain,
blocks that are recycled, scopes that are saved and restored, cursors that walk two
structures at once. The other is that its passes are *many small cases that meet in
combinations* no test lists: an operator below an operator, with operands of certain
types, in a certain place of a statement. The first is modelled as state machines whose
every sequence of steps is explored. The second is modelled as functions of the source,
composed into a pipeline: a program is checked, translated and run step by step, and its
run is compared with what C says it means.

## Inventory

| component | state it keeps | operations | how it interacts | what makes it correct |
|---|---|---|---|---|
| driver (`ucl.c`, `error.c`) | `CurrentHeap`, `ErrorCount`, `ASMFile` | `Compile`, `Initialize`, `Finalize` | runs the passes on each file; frees `FileHeap` | nothing that survives a file points into it or depends on it |
| heap (`alloc.c`) | `FreeBlocks`, blocks of each heap | `HeapAllocate`, `FreeHeap` | every pass allocates from `CurrentHeap` | allocations of a heap never overlap, a block has one owner |
| names and vectors (`str.c`, `vector.c`) | `NameBuckets` | `InternName`, `AppendSTR`, insertions | names are compared by pointer everywhere | one pointer per name, never freed |
| lexer (`lex.c`, `input.c`) | `Input.cursor`, `TokenValue`, peek point | `GetNextToken`, `BeginPeekToken`, `EndPeekToken` | the parser pulls tokens | a peek leaves no trace; every input ends |
| parser (`decl.c`, `expr.c`, `stmt.c`) | typedef-name lists | `Parse*` | typedef names steer declarations against expressions | an identifier is a typedef name exactly where C says so |
| symbol table (`symbol.c`) | `Identifiers`, `Tags`, `Level`, saved parameter scope | `EnterScope`, `ExitScope`, `Add*`, `Lookup*`, save and restore | used by parser, checks, translation | a lookup finds the innermost declaration; scopes nest |
| types (`type.c`) | interned basic types | `EndRecord`, `CompositeType`, ... | checks and layout | layout respects alignment and order |
| declaration checks (`declchk.c`) | current function, initialiser cursor | `Check*` | symbol table, types | linkage and storage as declared |
| expression checks (`exprchk.c`), folding (`fold.c`, `simp.c`) | none | `Check*`, `Fold*`, `Simplify` | rewrite the tree | the value of the expression is kept |
| statement checks (`stmtchk.c`) | `CURRENTF->switches`, `loops`, `breakable` | `CheckStatement`, `AddCase` | feed the translation | each jump has its target; case labels ascend |
| translation (`transtmt.c`, `tranexpr.c`) | `CurrentBB`, rewritten trees | `Translate*` | checked tree to IR through `gen.c` | the control flow of C; every temporary defined before use |
| IR (`gen.c`) | basic blocks, `ref` of symbols | `Generate*`, `StartBBlock` | `ref` is what the allocator decides by | `ref` counts the occurrences in the IR |
| register allocator (`reg.c`) | `UsedRegs`, `link`, `reg`, `needwb`, `ref` | `GetReg`, `SpillReg`, `ClearRegs` | called by every emitter | no live value is ever lost or misnamed |
| emitter (`x86.c`) | the above, the current instruction | `Emit*`, `EmitBBlock` | IR to assembly | each operand printed names the operand's value |
| data emission (`emit.c`, `x86linux.c`, `output.c`) | `ORG`, output buffer, `TempNum` | `EmitGlobals`, `Align`, `PutString`, `Flush` | symbols to assembly | offsets add up; output is in order |

The hard behaviours: long sequences of legal IR instructions that leave the
allocator in a state an instruction does not expect; counters (`ref`) incremented in
one pass and decremented in another; the same relation kept twice (`p->reg` and
`reg->link`); results defined on two control-flow paths; pointers that outlive what
they point to; `int` arithmetic on case labels at the ends of the range; trees
rewritten while they are walked. `PROJECT.json` lists them at their lines.

## Modules

### RegAlloc.tla and X86Emit.tla: register allocation and emission

`RegAlloc` holds `reg.c` and the helpers of `x86.c` as operators from machines to
machines; a *machine* is the record of the symbols' fields (`link`, `reg`,
`needwb`, `ref`), `UsedRegs`, and four history fields that say what the emitted
assembly has done so far: which operand's value each register holds (`rval`),
whether a temporary's frame slot holds its value (`mval`), which live temporaries an
EXT cast defined (`wide`), and what went wrong in the last instruction (`wrong`).
The history never feeds back into a decision of the allocator.

`X86Emit` has one action per `Emit*` function and operand shape, each a whole
iteration of `EmitBBlock`: `UsedRegs = 0`, the emission, the decrements of `ref`.
The variables beside `mach` say what the IR still holds:

| TLA+ | code |
|---|---|
| `mach.link[r]`, `mach.reg[t]` | `X86Regs[r]->link`, `t->reg` |
| `mach.needwb`, `mach.ref`, `mach.used` | `needwb`, `ref`, `UsedRegs` |
| `left[t]` | occurrences of `t` in the instructions still to be emitted |
| `pend[t]` | `t` is the result of `?:`, `&&`, `==` ...: two definitions, in two blocks |
| `index` | the jump table index between its SUB and its IJMP, which `ref` does not count |
| `boundary` | the last instruction ended its basic block (`ClearRegs`) |

What the translator guarantees is stated as guards, named and few: a temporary is
defined before it is read (`Readable`), two operands of one instruction come from
two subexpressions (`Distinct`), a dividend and a called address are at their last
use (`LastUse`), `CLR` comes at the start of a statement, a `RET` when nothing else is
live. A temporary that no instruction mentions again is put back to a normal form
(`Settle`), so that there is one state where the program has many; its place on the
register's list, the only thing the allocator still looks at, is kept.

Abstracted: instruction text; which variable or constant an operand is (they are
all memory or immediate operands to the allocator); 1-, 2-, 8-byte and struct
temporaries, which never get a register; calls with more than two arguments
(pushes only read and decrement, one after another).

### Switch.tla: the switch statement

One switch statement on its way from the checker to the processor. `phase` says
where it is; the first two phases are the compiler's, the third is the program it
generated.

| TLA+ | code |
|---|---|
| `cases` | the list from `switchStmt->cases` along `nextCase` |
| `AddCase`, `RepeatedCase`, `AddDefault`, `EndCheck` | `AddCase`, its error exit, `CheckDefaultStatement`, the end of `CheckSwitchStatement` |
| `buckets`, `next` | the buckets along `prev`, the current one last; the cursor `p` of `TranslateSwitchStatement` |
| `OpenBucket`, `JoinBucket` | the two branches of its loop, with the call of `MergeSwitchBucket` |
| `MergeSwitchBucket` | the same call when its loop is entered and does not break |
| `StartSearch`, `SearchStep` | the code `TranslateSwitchBuckets` generates: one step for the comparisons and the table of one bucket |
| `left`, `right`, `Middle` | its parameters and `mid`: the call that generated the code control is in |
| `target` | where control goes: a case statement (named by its label), the default, or the body |

Labels and values are bit patterns of a signed `int` whose width is a constant. Every
difference the code computes is wrapped to that width. `Number` is how the
generated comparisons read a pattern when the expression is unsigned. Two outcomes
end a behaviour because the C program has no state afterwards: `"wild"`, where
`MergeSwitchBucket` takes an address inside a case statement for a bucket, and
`"overrun"`, where a jump table entry is written outside the table.

Abstracted: the statements between the labels; the `IJMP` through the table,
which is an action of `X86Emit`; the upper half of a case constant, which the code
does not read.

### Heap.tla and Arena.tla: memory

`Heap` is `alloc.c` with its pointers: `next` of every block and of the head of every
heap, `last` of every heap, `FreeBlocks`. An address is a block and an offset from the
block's `begin`, so `avail` and `end` are offsets too; the head of a heap is written as
the heap and has no room.

| TLA+ | code |
|---|---|
| `HeapAllocate(h, size)`, `request` | a call, up to its loop; the call that is under way |
| `TakeFree`, `Malloc(b)`, `Exhausted` | one iteration of the loop: a recycled block, a new one, `Fatal` |
| `Grant` | the return |
| `FreeHeap(h)` | the whole function, with its call of `InitHeap` |
| `live`, `owner` | history: what was returned from each heap; where each block belongs |

`Arena` is what the callers rely on, with no blocks in sight: `Allocate` returns a region
apart from every region not yet released, whichever heap that came from; `Free` releases
all regions of one heap. `ImplementsArena` states that `Heap` implements it, with `live`
mapped to itself and everything else hidden.

A block, once returned by `malloc`, is never given back, so an element of `Blocks` is
used for the first time at most once. When all of them are in use `malloc` can only
fail; it may fail earlier too. Abstracted: what is stored in the memory, and sizes near
`INT_MAX`, for which the sum handed to `malloc` would wrap.

### Typedefs.tla: the typedef names

The parser has to know whether an identifier is a typedef name before it can tell a
declaration from an expression and a cast from a parenthesis, and it has no symbol table
yet. It keeps one entry for a name, marked as overloaded while a block uses the name for
something else. `Typedefs` is that bookkeeping, driven by every way a source file
can open and close blocks and declare names.

| TLA+ | code |
|---|---|
| `TypedefNames[id]` | the `TDName` of `id`, `NULL` if there is none |
| `OverloadNames` | the entries in the vector of that name (repetitions do not matter) |
| `IsTypedefName`, `Typedef(S)`, `Declare(S)` | the test; `PreCheckTypedef` for a declaration of the names `S` |
| `Function(params)` | the head of a definition in `ParseExternalDeclaration` up to the `Level++` of its body |
| `OpenBlock`, `CloseBlock` | the two ends of `ParseCompoundStatement`, the second with `PostCheckTypedef` |
| `declaring` | the first loop of `ParseCompoundStatement`: declarations come before statements |
| `scopes`, `local`, `nested` | history: what the source declared in the open scopes; the names a block made a typedef; the names a block redeclared within a block that did |

Every file starts with two new vectors (`ParseTranslationUnit`), so a behaviour is one
file. Abstracted: the declarators, of which only the outermost name is read, and
enumerators, which the code does not pass to `CheckTypedefName`.

### Scoping.tla and SymbolTable.tla: scopes and linkage

`Scoping` is what C says: a stack of scopes, the innermost declaration is the visible one, a
name with linkage is one thing however often it is declared. `SymbolTable` is what the code
does, one action per form of declaration or use, each with every call of `symbol.c` that
`declchk.c` or `exprchk.c` makes for it.

| TLA+ | code |
|---|---|
| `tab.scopes`, `tab.Level`, `tab.saved` | the chains of `Identifiers` and `Tags`, `Level`, the table kept by `SaveParameterListTable` |
| `tab.symbols`, `tab.Globals`, `tab.functions`, `tab.FSYM` | the symbols with their `level`, `sclass`, `defined` and `ref`; the lists the emitter walks; the current function |
| `LookedUpID`, `LookupID` | a lookup, which writes the level of the table into the symbol, and what it returns |
| `GlobalVariables`, `GlobalFunction`, `Typedef`, `Enumerator`, `TagReference`, `TagDefinition` | declarations outside and inside functions |
| `DefinitionList`, `PrototypeList`, `LeaveParameterList`, `StartBody` | the parameter lists: the one of a definition is saved and restored with its body |
| `OpenBlock`, `CloseBlock`, `LocalVariable`, `LocalExtern`, `LocalFunction`, `Use`, `Call` | inside a body |
| `EmittedObjects`, `EmittedFunctions`, `Exported`, `AccessName` | what `emit.c` and `x86linux.c` make of a symbol afterwards |
| `env`, `envSaved`, `linked` | what C says of the same program; the table never reads them |

The declaration of a function in a block compares an uninitialised `sym` with what the lookup
returns instead of assigning it (`declchk.c:841`): the outcome is the nondeterministic `equal`. Types are left out: everything is an `int`, so that
redeclarations are compatible. `inParameterList` is set and never read. A declaration at file
scope has one declarator or two, and a definition up to two parameters: the loop of
`CheckGlobalDeclaration` carries nothing but the storage class from one declarator to the next
(`GlobalDeclarator`, `Declared`), that of `CheckFunction` nothing. No name is `"none"`, which
stands for no name (`NamesAssumption`).

With `AnyExtern` set to FALSE a few programs are left out, because the code confuses them: a
list of `extern` variables whose first one is defined already (the storage class it inherits stays for the
others, `declchk.c:930`); a block that declares `extern` a name that is, or later becomes, a
typedef, an enumerator or static at file scope; a prototype in a block of a static
function. `linked[n].plain` leaves out of the properties the names that a block
declares `extern`: a definition that follows such a declaration is never emitted, and neither
is a static function that is only called through a prototype in a block.

### Layout, CTypes, Expressions, Statements, Translation, CMemory, CSemantics, Compilation: a function compiled and run

| module | code |
|---|---|
| `Layout` | the sums of sizes: fields in a structure (`EndRecord`), parameters and locals in a frame (`LayoutFrame`), arguments that a call pushes (`EmitCall`) |
| `CTypes` | `type.c`: types with their sizes, alignments and offsets, promotions; the arithmetic of the machine's types |
| `Expressions` | `exprchk.c` and `fold.c`: the tree with types, conversions and folded constants; the compatibility of types |
| `Statements` | `stmtchk.c`: targets of jumps, labels of switches, locals |
| `Translation` | `tranexpr.c`, `transtmt.c`, `gen.c`, `simp.c`: the tree, which is rewritten on the way, into basic blocks; the context holds the blocks, the order in which they were started, the current one and the temporaries |
| `CMemory` | the memory: the scalars the variables consist of, each at its address |
| `CSemantics` | the reference: what C says the tree means; nothing of the compiler's |
| `Compilation` | the state machine: `CheckFunctionBody`, `TranslateBody`, `Run` with chosen inputs, then one action for each kind of instruction, with the effect that `x86.c` and the templates of `x86linux.tpl` give it |
| `UclTests` | the functions of `test_case/TestUcl.cpp` and the assembly the tests expect |

A behaviour is one function on its way through the compiler and one run of its code. A step
that the generated code cannot take (an instruction for which the emitter has no form, a
temporary that was never stored, an access beside the objects or of the wrong size, a symbol read
from a tree that is none) leads to `"fault"`. A division of constants that traps in the
compiler itself (`fold.c:83-91`) leads to `"crashed"`. `Run` takes only inputs for which the C program
has a defined meaning. What the called functions return is read from a list, no longer than the
source needs, and what they are called with is recorded, on both sides.

The passes over trees are mutually recursive in the code. Each such family is one recursive
operator that dispatches on the node, as `CheckExpression` and `TranslateExpression` do through
their tables.

Words are narrow so that all their values are cheap to enumerate: `Bits` gives the width of an
object of 1, 2 and 4 bytes. Sizes in bytes are the real ones. Addresses are outside this
arithmetic. In `expressions` every object has memory of its own; in `statements` the parameters
and the locals lie where `Layout` puts them relative to `%ebp`: `MCStatements` gives the numbers,
and its `FrameAssumption`, which TLC evaluates, says that they are those of `Layout`.

`Layout`, `CTypes` and `DataEmission` have no `RECURSIVE` operator, because they are proved about: the walks
along a list are recursive functions, and a type carries its size, alignment and offsets, as the
code's own types do, instead of having them computed from its parts on each use.

The functions of `UclTests` are compiled and not run. Their code is compared with the test's
block by block: operations, jumps and calls in order, without registers, frame slots and
moves, which are `X86Emit`'s.

### Parser.tla and Grammar.tla: tokens to trees

`Parser` is the recursive descent of `expr.c`, `stmt.c` and `decl.c`, one operator per function,
with the peek after a left parenthesis and the table of precedences. `Grammar` writes a tree
as tokens in two ways, with all parentheses or with those alone that the grammar asks for, and
`ParsesBack` says that the parser reads what was written. Which names are types is
fixed in a file here; how that changes is the subject of `Typedefs`. An error is
`ok = FALSE`; the tokens that are skipped after one are not modelled.

### Declarations, DataEmission and CData: declarations to data

`Declarations` is the part of `declchk.c` that computes types, layouts and the offsets of
initialisers. `DataEmission` drives it, file after file, and then walks strings and variables as
`emit.c` does; the directives of `x86linux.c` fill the image of the data section. What
the checks compute are constants of `DataEmission` (`CheckedType`, `CheckedInitializer`, `Compatible`, `NameOfString`):
the walks of `Declarations` over declarators and initialisers are recursive, and what becomes of their
result is a question of its own, proved for whatever they give. The configuration puts the operators
of `Declarations` in their place, so that the run checks the code's two parts together.

| TLA+ | code |
|---|---|
| `CheckGlobalDeclaration`, `EndOfChecks` | `CheckGlobalDeclaration` for one declarator; the end of `CheckTranslationUnit` |
| `EmitString`, `EmitGlobal` | one iteration of `EmitStrings`, of `EmitGlobals` |
| `SkipGlobal`, `DefineCommData`, `EmitDataGlobal` | the three branches of the latter |
| `NextFile` | the next call of `Compile`: everything is new but `ORG` |
| `globals`, `strings`, `org` | the lists of symbols, `ORG` |
| `loc`, `labels`, `image`, `common` | the assembler: its location counter, and what it has placed |

`CData` is the reference. A declarator promises the type of the expression it looks like;
every initialiser that can be written for a value, with and without inner braces and with the tail left
out, stands for that value.

### MC modules and proof modules

The modules `MC...` give the constants of finite instances: the programs, files and trees that
are explored, for the front end. `RegAllocProofs`, `X86EmitProofs`, `SwitchProofs`, `HeapProofs`,
`TypedefsProofs`, `PlacementProofs` and, in two parts, `SymbolTableLemmas` and `SymbolTableProofs` hold
the theorems. See *Proofs* below.

## Runs

| run | instance | shows |
|---|---|---|
| `emit_core` | EAX, ECX, EDX; four temporaries; up to 2 uses each | the allocator loses no value, misnames no operand, miscounts nothing |
| `stale_slot` | 3 registers, 3 temporaries, 1 use | a documented meaning of `needwb` that EXT breaks |
| `switch_dispatch` | five-bit `int`, eight labels, up to five cases, every value | the list, the buckets, the tables and the search agree |
| `heap_blocks` | two heaps, three blocks, requests of 0, 2 and 6 units, up to two per heap | memory handed out never overlaps, blocks are neither lost nor shared, requests end |
| `typedef_names` | two names, blocks three deep | where the parser knows the typedef names |
| `symbol_table` | two names, a tag, three symbols, scopes three deep | lookups, addresses, rejections and emission are C's |
| `symbol_field` | the same | a field of a static local is addressed in the frame |
| `expressions` | words of 3, 4 and 7 bits; every operator on every type, two deep | the code of an expression computes its meaning |
| `halving` | the same | a negative number divided by a power of two is rounded the wrong way |
| `statements` | words of 3, 4 and 6 bits; statements in statements; 60 functions of the test suite | control goes where the source says and ends where it ends; the tests' code is what they expect |
| `parser` | 5 372 files, each written in two ways | what was written is read back |
| `declarations` | 2 398 compilations | types, layout and data are C's; the data stand under their labels, apart and aligned |

Bounds. Three registers are the smallest file the code works with (EAX, ECX and EDX
are named by divide, shift and call) and the one with the most pressure: with four
temporaries an instruction with three temporaries finds every register taken and
has to spill. EBX, ESI and EDI behave alike in `GetReg`. `MaxUse` bounds the uses of a
temporary after its definition: two, because
`ref` is compared with 0, with 1, and summed. `FewOccurrences` (a state constraint of
`emit_core`) keeps at most one temporary with two occurrences to come, the case
that occurs in the IR (an address kept for `+=`, a switch selector). Temporaries are
symmetric: no definition names one. The proofs need none of these bounds.

In the switch runs the `int` has five bits: that is enough for labels whose
difference overflows (-16 and 15), for two dense groups, for labels just outside the
density test (4 and 9), and for unsigned values above every label. Five cases are two
groups that could merge and a label of their own; a binary search over five buckets
is three deep. The proofs hold for every width.

In `heap_blocks` a new block has two units of room beyond the request that made it. A
block made for an empty request or for two units is too small for six, so a request of
six units on recycled blocks goes round the loop several times and leaves blocks
behind, which is the hard case. An empty request on an empty heap needs no block at all.
Two heaps and three blocks let one heap recycle what the other freed while it is in use
itself. `MaxAllocs` bounds the history only. The proofs hold for all numbers.

In the typedef runs a third level is the first at which a block that redeclares a name lies
within another one that does. Entries of different names meet only in `OverloadNames`,
which is emptied when the last of them ends, and two names are enough for that. The proofs
hold for any names and any nesting.

In `symbol_table` two names are what it takes for a second declarator to inherit from the first.
Three symbols are a declaration at file scope, one that hides it and one that is declared in
between or afterwards; three scopes are the file, a parameter list or body, and a block in it.
The saved parameter table is in the state only until the body restores it (`VIEW Live`), and at most
one identifier is declared beside a tag (`FewBesideTags`). The proofs need none of these bounds.

In `expressions` a program is one expression whose operands range over all types and whose subexpressions are
operators again, plus initialised locals. Inputs are the least and greatest values of a word, -1,
0 and 1 (-64 and 63 in seven bits), so that conversions, wrapping and signs all matter. Two operators deep
is where a rewriting of the tree, or a temporary shared by two uses, first meets a
second operator. In `statements` every statement stands in every other; up to three answers, each 0, 1
or 2, steer the branches, and `Fuel` bounds the iterations of loops that the source may take, so
that a loop can be left at once, repeated, and left from inside.

In `parser` every operator stands at every side of every other operator, declarators are three deep, statements
two. In `declarations` there are all orders of the specifiers' words, with illegal ones; all declarators
three deep, with illegal ones; structures of up to three members of differing alignment; and for each of eight
aggregate types every way to write an initialiser, next to too many values.

`CHECK_DEADLOCK` stays on in the emitter runs, where an emitter can always take another
instruction, and in the typedef run, where a file can always go on. It is off in
`switch_dispatch`, where a behaviour ends when control has reached its target or the compiler has stopped with an error; in
`heap_blocks`, where it ends with `Fatal`; in the runs of the compilation, the parser and the
declarations, where it ends with the program or its last file; and in those of the symbol table, where the source file may end
and the number of symbols is bounded.

Fairness. None is stated for the emitter, the typedef names and the symbol table: the IR and the source file
are finite and chosen by the program being compiled, so nothing has to happen next; all
their properties are safety. `Switch` has weak
fairness on `Build` and on `Run`: the compiler's loop and the compiled program are
sequential and are not waiting for anything. `Check` has none, since the number of labels
is up to the source. `Heap` has it on `Loop`, the loop of a sequential function; that a
heap is freed or asked for more is up to the callers. `Compilation` has it on `Step`: the
processor that runs the compiled program keeps executing instructions. The compiler's own phases have none.

## What is checked

Registers and instructions (`emit_core`):

* `LinkAgrees`: the two copies of the register assignment agree, which `ModifyVar` and
  `SpillReg` rely on.
* `LiveValueHeld`: spilling any register at any moment loses no value. It excludes the
  temporaries an EXT cast defined, for which it is false (`stale_slot`).
* `OperandsRight`: what an instruction reads is the operand's value, whatever was
  spilled or overwritten to make room for the other operands.
* `NeverOutOfRegisters`: the assertion in `SeclecSpillReg` cannot fail.
* `RefExact`: every emitter decrements each occurrence exactly once.
* `BoundaryInMemory`: blocks agree on where values are.

Switch (`switch_dispatch`):

* `DispatchRight`: the answer of the whole switch machinery. It is stated for labels
  whose differences fit an `int` (`Spans`) and that read alike as signed and unsigned
  (`Plain`), and for a switch with at least one case label; the code is wrong outside each.
* `BucketsOrdered`, `TablesFit`: what the search and the tables rely on, where no difference of labels wraps.
* `JumpsInTable`: the search never jumps through an entry outside a table, whatever the labels, where
  their differences wrap and where the comparisons are unsigned too.
* `SearchEnds`: the loop over the cases and the generated search terminate.

Heaps (`heap_blocks`):

* `ImplementsArena`: no sequence of allocations and frees hands out memory twice.
* `NoBlockLost`: the lists are exactly the blocks each owner has. It is what keeps the
  compiler's memory bounded over many files, and it fails if one pointer is left
  behind when a block changes its list.
* `LiveIsOwned`: freeing one heap leaves the memory of the others theirs.
* `Aligned`; `RequestEnds`: the loop consumes `FreeBlocks` and then one block of `malloc`.

Typedef names (`typedef_names`):

* `FileScopeRight`: whatever a file did before, between functions the parser is right
  about every name.
* `BlockScopeRight`: inside functions it is right about the names that are typedefs at file
  scope only and are not redeclared within a block that redeclares them. About those the
  parser is wrong (`MCTypedefsDoc.cfg`): there is one flag for a name.
* `OverloadsListed`: the vector is emptied when the last overload has ended, not before
  and not after the function.

Symbols (`symbol_table`):

* `ResolvesRight`: a lookup finds the declaration that C makes visible.
* `AccessRight`: a variable is addressed by its label, by a private label or in the frame, as
  its declaration says, whatever lookups have written into its `level`.
* `AcceptsValid`: no valid program is rejected.
* `EmittedRight`: at the end of the file exactly what it defines is emitted, once and with its linkage.

Compilation (`expressions`, `statements`):

* `ChecksRight`: a function is rejected exactly when a jump or label stands where it must not or a call
  has too few or too many arguments, every expression has the type C gives it, and none stops the compiler.
* `RunsRight`: a run leaves the memory, makes the calls and returns the value that the source
  means, and never faults.
* `BlocksPlaced`: the label of every block that is jumped to is defined exactly once.
* `AsTested`: the code of the functions in the test suite is what the tests expect.
* `Terminates`: the run of a program that ends, ends.

Parser, declarations and data (`parser`, `declarations`):

* `ParsesBack`: writing and parsing are inverse to each other.
* `TypesRight`: declarators and specifiers mean what C says, and what C forbids is reported.
* `DataRight`: errors are reported exactly in files that have one; otherwise each variable that is
  defined has, at its label, the bytes of its initialiser and zeroes elsewhere, or
  is left to the linker with its size if it has none; what is only declared has neither. A file without
  errors also leaves the emitter its values in order (`DataInOrder`).
* `PlacementRight`: if the values are in order, each variable that has data, but no address before its
  symbol, and each string has one label, with its values behind it, zeros between them and nothing else in its room; in the first file the
  label is on the alignment of its type. It relates what `ORG`, a running size and the offsets of the checks
  count to what the directives really write.

### Where the code is wrong

Three runs are violations: the code parts from a statement of its own documentation, comments or
tests (`stale_slot`, `symbol_field`, `halving`; `PROJECT.json` quotes the lines). Further configurations can
be run by hand. They are no runs of the project, to keep it to one run for each question:

| configuration | shows |
|---|---|
| `MCX86EmitMoves.cfg` | `AddressesRight` violated: an indirect store through a register already reused; `BlockSourceRight` violated: a struct copy from the wrong address |
| `MCSwitchMerge.cfg` | `MergeGoesOn` violated: the second merge follows a wrong pointer (`transtmt.c:218`) |
| `MCSwitchOverflow.cfg` | `CasesAscend` violated: labels whose difference overflows are out of order |
| `MCSwitchDefault.cfg` | `DefaultTaken` violated: no jump to the default of a switch without a case (`transtmt.c:231`) |
| `MCSwitchUnsigned.cfg` | `UnsignedCasesAscend` violated: labels sorted as signed (`stmtchk.c:16`), searched as unsigned |
| `MCTypedefsDoc.cfg` | `TypedefEnds`, `RedeclaredIsNoType` violated: two places where `doc/typedef.md` does not hold |
| `MCSymbolTableExtern.cfg` | `ExternsNotEmitted` violated: with the forms of `extern` left out of `symbol_table`, what is only declared is emitted |

Two of these name two properties; `tlc -continue` shows the violation of each.

The models of the front end cover more of C than the code gets right. The instances leave out
the forms below. Where a form can be written in the models, they get it wrong as the code does, most of
them with a fault; a property that fails for it is stated without it.

Expressions:

* compound assignment, `++` and `--` of a member of a structure or of an element with a constant
  index; `*p += x` and `++*p`, which store into `p`; `a[i]++` and `++a[i]`, which count
  `a[0]`; `(*p)++` used as a value, which is the address; the value of `*p = 5`, likewise.
* `p->n[i] = x` crashes the compiler, `p->n[1] = x` stores into a temporary, `q = s.n` loads the
  contents; `&m[i][1]`, `m[i]` as a pointer and `&p->a` crash; `(*p).a` and `p->s.a` as left operands.
* an `enum` and an `unsigned` give a pointer type; `(char)1 && 1` folds to 0; `(unsigned char)-1` stays -1.
* a constant as a condition (`if (1)`, `1 ? a : b`, `4 && i`, `(u && 1) ? a : b`) is a comparison of two constants, which has no
  encoding.
* division of a negative number by a power of two (`halving`).
* division of a constant by a constant 0, and of the smallest `int` by -1, is done as the compiler folds, and
  stops it (`fold.c:84-91`, `Crash` in `Expressions`).
* the comma operator drops its left operand and evaluates the right one twice.
* `-` and `~` of an `unsigned`, for which the emitter has no case.

Statements: a switch without labels runs the statements before its default.

Parser: an equality with a relation as its right operand (both have precedence 9,
`opinfo.h:28`); `volatile` at the start of a declaration, which is not in `FIRST_DECLARATION`; a
typedef name in parentheses as the declarator of a parameter; an operand that is missing, which becomes the
constant 0 without an error; a function declarator without parameters that neither `;` nor `{` follows, which begins a
function and loses that token (`decl.c:562`).

Declarations: `1 < 2` and `~0` as initialisers, which are not folded; `&a[3] - 1`, which keeps its
subtraction; a negative offset, printed as `- -n`, which adds `n` (`emit.c:42`, `DefineAddress` in `DataEmission`); `s.arr` and `&s.arr[1]` as addresses; a
typedef of an array without a length, which the first initialiser completes for all; anonymous structures three
deep; a flexible array before an unnamed structure (`declchk.c:251`); a `const` variable of a structure type without an
initialiser; `extern int a[]; int a[2];`, which reserves nothing, because the call of `CompositeType` is commented out
(`declchk.c:943`); members of type `void`; `int char x` and `unsigned T`, accepted silently.

Output: a string longer than the buffer is written ahead of the text still in it (`output.c:101`; it
takes a name of more than 4096 characters), and `Print` cuts a label or directive to 1023
characters, its end of line included. No model covers the buffer: these were found by reading.

## Proofs

### Register allocation and emission

For every register file containing EAX, ECX and EDX, every finite set of temporaries
and every `MaxUse` (assumptions `RegAllocAssumption` and `X86EmitAssumption`),
`X86EmitProofs` proves each of the seven invariants of `emit_core`, and `AtMostOneTemp` (a
register's list never holds two temporaries), for all behaviours.

None of them is inductive alone: that a spill loses nothing depends on `needwb`, on
`ref` being exact and on the lists agreeing; that a register is found depends on
`UsedRegs` being empty between instructions. `IInv` conjoins these eight with
`MachineInv`: a linked live temporary is in exactly the register that holds its value;
nothing is marked used; a pending temporary is in memory or in its register; the
jump table index is the one temporary whose `ref` is 0 and that is still to be read.
The argument has two layers. `RegAllocProofs` shows for each operator of the allocator
what it keeps and what it establishes (`SpillReg`, `GetReg`, `AllocateSrc`, ...), in the
middle of an instruction where `IInv` does not hold; `X86EmitProofs` composes these for
each emitter and closes each action with `IInv'`. TLC checked each conjunct first.

### The switch statement

For every `int` width, every set of labels of that width and every number of cases that
`int` can count (`SwitchAssumption`), `SwitchProofs` proves
`TypeOK`, `DispatchRight`, `BucketsOrdered`, `TablesFit`, `JumpsInTable` and `OneTable`. The invariant `IInv` adds to them: the list ascends where no difference
overflows (`Sorted`); the buckets hold exactly the labels placed so far, in ascending
ranges that are at least half full (`CutRight`); no bucket outside `left .. right` can
hold the value (`Narrowing`); and there is no bucket before the list is complete
(`Unbuilt`). `WrapFits` and `SpansWrap` turn wrapped differences into exact ones; the
bound of a table (`BucketFacts`) comes from the density test, which keeps
`maxVal - minVal` below twice the number of cases. A search that runs out of buckets has
excluded every label (`NoneLeft`), one that stays in a bucket finds the entry of the value
(`EntryRight`).

`JumpsStayInTables` rests on none of this, for it also holds where the list is out of order: the ends of a
bucket are labels of it, every label had its place in the table (`AllFit`, or the compiler had written
outside it before), so what lies between the two comparisons lies between two numbers of which the table
has both ends, whichever way they are compared (`IndexInTable`). Its invariant `TInv` is apart from `IInv`.

### The heaps

For any heaps, blocks, sizes and alignment (`HeapAssumption`), `HeapProofs` proves
`TypeOK`, `NoBlockLost`, `LiveIsOwned`, `Aligned` and that `Heap` implements `Arena` (`Refinement`). The
lists call for an induction along `next`, which is out of the prover's reach; the invariant
avoids it. It is local: a pointer in the list of an owner leads to a block of that owner
(`PointersStay`), no block is the target of two pointers (`OnePointer`), a block `malloc` has
not returned points nowhere, `last` belongs to its heap and ends it (`Ends`). With that, a
block that joins a heap belonged to no heap before, so nothing live is in it, and a heap that
is freed takes only its own blocks along. `LiveIsOwned` says that the live regions of a block end
at `avail` or before, so what `Grant` returns is past all of them (`GrantFacts`). `MakeLastIInv` is
the common part of recycling a block and of a new one.

That no block is lost is about reachability. `From(p)` is the least set that holds `p` and is closed
under `next`, and the invariant says it without the least set: whatever is closed and holds the first
block of an owner's list has all blocks of that owner (`AllReached`). A step preserves this because
a set that is closed after it, cut down to the blocks of one owner or without the block that
moved, was closed before it. With `PointersStay`, which says that the blocks of an owner are
such a closed set, `AllReached` is `NoBlockLost`.

### The typedef names

For any set of names and any bound on the nesting (`TypedefsAssumption`), `TypedefsProofs`
proves the four invariants of `typedef_names`. The invariant `IInv` relates the entries to the
scopes of the source: an overloaded entry is overloaded by a block that is open
(`Within`); level 0 marks exactly the typedefs at file scope (`FileLevel`); a name outside
`local` is a typedef at file scope or not at all (`LocalOnly`); and a name that is also not
nested is declared by one open block at most, which is the block the entry says
(`OneBlock`). `CloseBlockIInv` is where they meet: the overloads that end are those of the
block that closes, because of `Within`, and all of them are found, because of
`OverloadsListed`.

### The symbol table

For any names and tags, any nesting and any number of symbols, and programs without the forms of
`extern` that the table confuses (`AnyExtern = FALSE`, the hypothesis of each theorem; with them
`ExternsNotEmitted` and `EmittedRight` are false), `SymbolTableProofs` proves all five
invariants of `symbol_table`. The hypothesis restricts the programs and nothing else; the table
is that of the code.

None of the five is inductive: each lookup rewrites levels, a declaration in a block touches the
file's table, and a parameter scope that was left comes back. The invariant `IInv` is that the
table mirrors C's environment, scope by scope (`TabInv`), with what the context adds (`CtxInv`: the
kinds of the open scopes; `HeadInv`: the function whose body is to come may be defined; `SavedInv`: the
saved parameter scope is detached from the open ones). The parts of `TabInv`:

| part | says |
|---|---|
| `Framed`, `Named` | as many tables as scopes, with ascending levels; symbols stand under their names |
| `TagsAgree`, `OwnAgree` | tags, and names without linkage, have in each table the symbol C gives them |
| `InNoOther`, `Deep` | such a symbol is in one table only, and its level is never 0 inside a function, so that a lookup cannot make it look global |
| `Inner` | inside functions a table has nothing that C's scope has not, and an object there is an `extern` |
| `LinkedAgree`, `FileAgree` | a name has one kind and one linkage, and the file's table knows them, and whether it is defined |
| `Sole` | no other symbol of level 0 has the name of one that no block declares `extern` |

`SymbolTableLemmas` shows what each function of `symbol.c` changes (`Relevelled` by a lookup, `Placed` by a
declaration, `Retagged`, `Pushed`) and which of these changes keep `TabInv`; `SymbolTableProofs` composes them, first for each
form of declaration, then for each action, and reads the five invariants off `IInv`. A lookup
changes levels only, and the level it writes is that of a table the symbol is in, which
`InNoOther` makes the right one. `CheckFunction` is the longest: a symbol that may be
new, its marks, the saved scope and the parameters, where `SavedInv` and
`Detached` say that the scope that comes back holds nothing of the scopes that stayed. `EmissionCorrect` needs
`Sole`, for a count of one.

TLC checked `IInv` on a smaller instance before it was proved.

### Places in memory

`PlacementProofs` has two parts. The first is about `Layout`, for lists of any length and sizes of any
value: `ParametersApart` and `LocalsApart` (each in a slot of its own, aligned, the parameters behind
the saved registers and the return address, the locals within what the prologue leaves),
`ArgumentsAtParameters` (what `EmitCall` pushes from the last argument to the first stands where `LayoutFrame`
counts the parameters from the first to the last), and `FieldsApart` (the fields lie in the structure, in
order and apart, aligned wherever the structure is; an array of it stays aligned). Alignments are 1, 2 and
4, those of the types there are. A result that is a structure puts a first parameter and a last push
of four bytes in front of both lists, which the theorems allow for. `ArgumentsAtParameters` asks for sizes that are not 0, and that
is a finding: for a structure without members the caller pushes nothing, and the function skips a slot (`x86.c:640`).

The second part is `DataPlaced`: `PlacementRight` for every sequence of files, and for all that the
checks may give. Like the property it speaks of the variables without an address before its symbol
(`NoneBefore`): of such an address the emitter writes another one. Its hypothesis `DataInOrder` says what the emitter relies on: values ascend, do not overlap, end within the
variable, are as wide as their types, and names of strings are no one else's. That the
checks leave the data so is part of `DataRight`, which the run checks; an array
without a length at the end of a structure, given values, is the case where they do not (`emit.c:53`).

`PlacementRight` speaks of the end of a file only. The invariant `IInv` says of every moment of the emission that labels
and values lie before the location counter (`Books`), that in the first file `ORG` is the location counter (`Follows`), that what
is written stands and what is not has no label yet (`WrittenIn`), and that a variable is in the list once
(`GlobalsApart`). `Adding` is its core: a label and values behind the end disturb nothing that stands. `EmitDataIs` says
what the loop of `EmitGlobals` comes to for a list of any length: everything is
written at the offset the checks gave it, and the running size is what has been written. TLC checked `IInv` first.

The prover cannot instantiate the library's theorems on induction, because they take an operator. The proofs use
`SetInduction` instead, over a set of numbers, which follows from the well-foundedness of the natural numbers; that a recursive
function exists is shown with it (`TotalExists`, `SizeWithExists`), or by giving the function (`EmitDataIs`).

### Only model-checked

Liveness (`SearchEnds`, `RequestEnds`, `Terminates`), which is out of the prover's reach;
and what the compilation, the parser and the checks of declarations compute (`TypeOK`, `ChecksRight`, `RunsRight` and `BlocksPlaced` of
`Compilation`, `AsTested`, `ParsesBack`, `DataRight`, `TypesRight`): their operators are
recursive over trees, so that what they compute for every tree would need an induction the prover
does not have. All other properties of the runs that pass are theorems.

`X86EmitProofs` also proves `AtMostOneTemp` (`OneTempPerRegister`), and `SwitchProofs` proves
`OneTable`: the density test in `MergeSwitchBucket` weighs the current bucket
alone, which has just passed a stricter test, so it never stops a merge. Since a merge
crashes the compiler, every switch that compiles has one table, its first bucket.

## Plan

1. The output buffer (`output.c`), as a queue that keeps the order of the text, with its proof; the
   scanner (`lex.c`): characters to tokens.
2. Action properties of the allocator and of the symbol table (which symbols a block may
   touch) from the invariants that are proved.
3. The search that the switch generates in the instructions of `X86Emit`, as one refinement.

## Not modelled and why

* The text of the prologue and the epilogue.
* `str.c` and `vector.c`: containers. Names and sequences stand in their place.
* Scanning characters into tokens (`lex.c`, `input.c`). Read and noted while modelling the parser: a `//` comment makes
  `SkipWhiteSpace` loop for ever, a literal with leading zeroes is read as decimal, an unknown escape is not
  consumed, and a string literal has a buffer of 512 bytes.
* The output buffer: it matters only when it is exactly full and for a string longer than its 4096 bytes.
* The text of instructions, names and diagnostics; options and exit status of the driver; alignment in
  files after the first, which depends on the `ORG` the file before left (`x86linux.c:168`).
* Recovery after an error; `goto` and labels, which the parser does not have; floating point and `long`, which the
  type system does not have.
* Qualifiers and incomplete types; calls through pointers, and structures as arguments or results;
  strings within larger expressions, addresses of functions and flexible arrays in
  initialisers; more than one declarator in a declaration of data.
* The tests of the suite that print declarations only, and those of the forms listed above as wrong
  (`Unary_Address`, `Unary_Deref`, `Return`, `Fig1_42`, `Fig5_30`, the tests of switches, `Init`, `Unsigned`, `Auto`,
  `Typedef`).
