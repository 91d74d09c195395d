# Verification of SysYCompiler

TLA+ models of the parts of the SysY compiler that carry its logic, checked
with TLC on small instances, and theorems about them proved with TLAPS. All
paths below are paths of the repository; `src/` is its root, so the front end
is `src/src/frontend`.

Contents

1. The system: its parts, their state and how they interact
2. The modules and how they correspond to the code
3. The runs: what each checks, its bounds, what it shows
4. Fairness
5. The proofs
6. What the code gets wrong
7. What is not modelled, and why
8. Plan

## 1. The system

The compiler is one sequential process: parse, resolve, fold, lower to IR,
lower to ARM. Nothing is concurrent and nothing persists. What is hard is
*shared mutable state across mutual recursion*: static stacks, tables that a
call five levels down changes, offsets relative to a pointer that moves, and
lists patched long after they were filled.

| part | code | state it keeps | operations | properties that make it correct |
|---|---|---|---|---|
| Lexer | `frontend/sysy.l` | token table of the `SourceManager` | one token for each match | tokens are numbered in the order of the text |
| Grammar | `frontend/sysy.y`, `parser.cc` | semantic values: lists of locations | semantic actions build nodes from the leaves up | a node's children exist before it; scopes nest |
| AST | `frontend/ast_manager.{h,cc}` | `ast_list` (arena), parents, identifier tables | `AddNode`, `Link`, `SetDef`, `AddDecl` | every node below the root has a parent; tables hold the scope's declarations |
| Name resolution | `ast_manager.cc` `Visit`, `FindRef` | `ref`, `has_ref` of each use | traversal after the parse, climb over parents | a use refers to the declaration in force where it stands; the climb ends |
| Arrays | `ast_manager.cc` `Format`, `GetInitMap*`, `GetInitValue`; `TranslateDeclRefExpr` | formatted copies of the lists; the pointer each name stands for | formatted at `VarDecl::Visit`, read by the lowering; `getelementptr` for elements and arguments | each cell gets the value the braces give it; an element is found where the source names it, in each function |
| Constant evaluation | `ast_manager.cc` `CalculateValue` | `is_const`, `value` of each expression | at the end of each `Visit` | the value is the one the emitted code would compute |
| AST to IR | `frontend/ast_to_ir.cc` | `break_stack`, `continue_stack`, `true_stack`, `false_stack` (static), `tmp_id`, the block list of `FuncDef` | 17 mutually recursive `Translate*` functions | every jump reaches the block its statement means; blocks are well formed; numbers are consecutive |
| IR | `ir/ir.{h,cc}`, `type`, `value` | instruction and block lists | append, dump, type checks | one terminator, at the end of each block |
| IR to ARM | `backend/asm.cc` | `reg_state`, `var_state`, `stack_state`, `ptr_state` of `Function` | `Translate*Inst`, `GetReg` | the tables agree with each other and with the machine; the code computes what the IR means |
| Instructions | `backend/instruction.*`, `operand.*` | classes of an immediate | `CheckImm8m`, `CheckImm16m`, `CheckImm`, dump | an immediate fits the instruction that takes it |
| Source manager, utilities, drivers, library | `source_manager.cc`, `comm/`, `*_tool.cc`, `lib/` | lines and token texts | I/O | – |

How they interact: the parser calls `ASTManager::AddNode`; when `yyparse`
returns, the root is visited once, which resolves names, formats initialisers
and evaluates constants in one pass, so that each reads what another has left
in a node visited earlier; `TranslateTranslationUnit` then reads the finished
tree and writes the `ir::Module`; `backend::Translate` reads the module and
writes functions and global variables, which are dumped as text.

Where the hard behaviours are (the list with lines is `hazards` in
`PROJECT.json`):

- *Long sequences of legal calls.* The four static stacks survive from one
  function to the next; one early return without its `pop` corrupts everything
  after it.
- *Ordering.* Labels are numbered when a block is created, temporaries when an
  instruction is added, and the blocks of a condition are filled in turns.
  A name is looked up after all tables are complete. The parameters join the
  table of the body after the body's own declarations.
- *Stale state.* A back-patch list holds blocks, not jumps; a register is
  taken over while its variable lives; a constant is read out of an
  initialiser that must have been visited before.
- *Numeric edges.* Stack offsets that start from one or from zero,
  row-major offsets, rotated immediates, runs of values that end early.
- *Partial failure.* Constructors that throw on a constant end the compilation
  half way.
- *Termination* of the recursion and of the climb over parents.

## 2. The modules

| module | models | lines of code it stands for |
|---|---|---|
| `AstToIR` | lowering of a function body to basic blocks | `ast_to_ir.cc`, blocks and terminators of `ir.h` |
| `ControlFlow` | `AstToIR` with the source it lowers; then the source and its control-flow graph run side by side | branches and returns of `ir.h`; the tree of `sysy.y` |
| `IRToAsm` | ARM code of a basic block, and its execution | `asm.cc`, `Function` and `GetReg` of `instruction.*` |
| `IRBlock` | what a block of IR promises: the abstract specification of `IRToAsm` | instruction classes of `ir.h` |
| `Immediates` | classes of a 32-bit constant, choice and check of instructions | `operand.cc`, `CheckImm` of `instruction.cc`, guards of `asm.cc` |
| `NameResolution` | the tree, its tables, the traversal, `FindRef` | `ast_manager.*`, actions of `sysy.y` |
| `Initialisers` | initialiser lists from the braces to memory | `ast_manager.*`, the two `Translate*VarDecl`, `GlobalVar::Dump` |
| `ArrayRefs` | `Initialisers` with references: addresses of elements, parts of arrays passed to functions | `TranslateDeclRefExpr`, parameter types and spills |
| `Expressions` | constant evaluation, then the lowering of an expression and the run of its code | `CalculateValue` of `ast_manager.cc`, `TranslateExpr` and its callees, the instruction checks of `ir.cc` |
| `AstToIRProofs`, `IRToAsmProofs`, `ImmediatesProofs`, `ExpressionsProofs`, `NameResolutionProofs` | theorems about the module named | |
| `BackpatchingProofs` | theorems about the blocks `AstToIR` builds and their numbers (extends `AstToIRProofs`) | |
| `OpenJumpProofs` | theorems about the jumps it leaves open and patches (extends `BackpatchingProofs`) | |
| `IRToAsmRefinement` | theorems about memory, values and the refinement of `IRBlock` (extends `IRToAsmProofs`) | |
| `MC*` | values of the constants for TLC | |

The modules meet in data: the trees `NameResolution` and `Initialisers` finish
are what `AstToIR` walks; the straight-line code that `AstToIR` abstracts to
the numbers it takes is what `Expressions` computes; the blocks `AstToIR` builds are what `IRToAsm`
translates one at a time; `ControlFlow` and `ArrayRefs` extend `AstToIR` and
`Initialisers`, so their runs are runs of the modules they extend as well;
`IRToAsm` has immediates as the three classes that
`Immediates` computes from bits. They are separate because each pass runs to
its end before the next begins: no step of one sees the middle of another.

In each module a definition whose name has a suffix after an underscore
(`AddBlock_Forgotten`) is a wrong form of the definition that follows it. No
action uses it. It is there to confirm that a property notices the fault.

### AstToIR

The code is a set of mutually recursive functions. The model makes the
recursion explicit: `frames` is the C++ call stack (a frame keeps the locals
that live across a call: the condition's value, the blocks of the branches,
the lists an operand left), `pc` says which call or return is due, `cur` is
the block passed to or returned by a statement, `val` what an expression
returned (nothing, an `i1`, an `i32`). One action is the code a function runs
between two recursive calls. For instance `TranslateWhileStmt` is `WhileStmt`
(entry: jump, check block, push of four lists), `WhileBody` (after the
condition), `WhileEnd` (after the body: repair of breaks and continues,
patches, four pops); `WhileFalse` and `WhileTrue` are its paths for a constant
condition. `TranslateBinaryOperatorExpr` on `&&` and `||` is `CondOperator`,
`CondRhs`, `CondEnd`.

The source program is not fixed. Each call of `TranslateStmt` or
`TranslateExpr` picks the kind of the node it meets, so the behaviours range
over all programs of at most `MaxNodes` nodes of the chosen `Kinds`.
Straight-line code is abstracted to the instructions that take the next number
and those that take none.

A block carries the role for which it was created (`<<n, "then">>` is the
then-branch of node n) and a jump the roles it is meant to reach. This is
history: no guard reads it. It is what makes "the jump goes where the
statement means" expressible while the label in the jump is still a
placeholder.

`DeadCode = FALSE` keeps statements from following a jump in the same block;
with `TRUE` they may, as in SysY, which is where the repair of break goes
wrong (section 6).

### ControlFlow

Each action of `AstToIR` that meets a node also appends it to `tree`, with its
parent (`path` is the path of open nodes) and, if it computes, tests or
returns something, the place of its first instruction. When the function is
finished, `here` walks the tree by the rules of the language (`After` a
statement, `Tested` with a result, `EnclosingLoop` for break and continue; no
blocks, no lists) and `at` walks the graph by the rules of the IR. `Silent`
moves whichever of the two has nothing to show; `Compute`, `Test` and `Return`
move both, when their next events are the same. The truth of a condition is
chosen anew at each test, so every path of the graph is taken, also those that
no data would lead to.

### IRToAsm

Three things run side by side. The *IR program*: the value of each name, the
content of each cell of memory, what each pointer points to. The *translator*:
the four tables of class `Function`. The *machine*: registers, stack and data
section, on which each ARM instruction is executed as soon as it is emitted;
in straight-line code that is the run of the finished code. Values are
symbols, the name of the instruction that computes them, so a register holds
the right value exactly when it holds the right symbol. Each action is one
`Translate*Inst` of `asm.cc` with every `GetReg` it calls, which pushes the
variable that lives in a register.

`operands` is the evaluation stack of the front end: temporaries are used
once, in the order in which the tree is walked, and a statement begins with
none. Expressions whose value nobody uses emit no code. `BinaryOpThrows` is the form `x op imm`, on which the code throws
`bad_cast`. Array shapes come from `Dims` and, for globals, from `GlobalDims`;
operators from `RegOps` and `ImmOps`.

`GetelementptrGlobal` is `getelementptr` on a global array, as the front end
emits it for `g[i]`. The code looks the array up in `ptr_state`, where no
global is, so that `operator[]` makes an entry 0 and the result is taken for an
address in the frame. `elements` is the cell that the IR means by such a
pointer. Loads and stores through it are actions only if `UseElements` is
TRUE, since the code directs them to the wrong memory: `asm_globals` shows it,
and the other runs and the theorems about values leave them out (section 6).

`IRBlock` is the same block without registers, stack pointer or tables: names
that keep their value, cells that only a store to that very cell changes, a
result. `IRToAsm` implements it under the mapping `Block`: the content of a
cell is the word of the machine's stack at the offset of its alloca (or of the
data section), the value of a name that has a register is what the register
holds, the result is `r0`. `ImplementsBlock` therefore says at once that a
store changes one word and no other, that a load through a translated pointer
reads the right word, and that no push, reload or overwritten register shows.

### Immediates

A word is the set of its bits that are one. `Fit`, `Rotate` and `NoFit` are
the loop of `CheckImm8m` with its window; `Emit`, `Load` and `Refuse` are the
guard in `asm.cc` and the check of the instruction's constructor, for the
eight uses of a constant that some instruction may refuse.

### NameResolution

The arena is `nodes`, numbered from 1 (location 0 in the code), with `parent`,
`kids` and `table` beside it. The parser's actions build it from the leaves
up: `VarDef` (the initialiser's use, then the declaration), `FuncHead`,
`OpenBlock`, `Use`, `CloseBlock` (the `CompoundStmt` with its `Link` and its
table) and `CloseBody` (`FunctionDecl::SetDef`, then `TranslationUnit::AddDecl`).
`todo` is the recursion of `Visit`, with `-d` for the return of
`VarDecl::Visit` of d; `cur` is the loop variable of `FindRef`. `env` and
`meant` are history: the scopes open where the parser has reached and what a
name means there: an initialiser means what its names mean before the declaration.
The code lets the scope of a name begin right after its identifier, so in
`int c = c;` the use finds the new c. The comment in `FindRef` lists just this
as a bug ("bug: int c = c;"). The property follows it: `RefIsLexical` excepts
a variable named in its own initialiser (`NamesItself`) from what is lexical,
and says of it that it always finds itself.

`Init` is the unit after the constructor of `TranslationUnit` has declared the
library: it does so before it has a location, so the library's functions get
the parent 0, which makes a cycle of the first function and its parameter.

### Initialisers

The parser's stack of open lists runs beside the reference: `cells`, built a
token at a time by the rule of the language (a value goes to the next cell, a
brace takes the next element of the array it stands in, what is not named is
zero). A brace may stand in the middle of an element, as SysY allows; `at`
keeps for each open list the dimension it stands for. `Format`, `GetInitMap`, `GetInitMapExpr` and `GetInitValue` are
translated as recursive operators; `DumpZero`, `DumpValue`, `DumpEnd` are the
loop of `GlobalVar::Dump` with its count of zeros held back; `Store` and
`StoreEnd` the loop of `TranslateLocalVarDecl`.

### ArrayRefs

The array's name has a `pointer` (a cell) whose pointee has the dimensions
`pointee`; a `getelementptr` is the address arithmetic of the IR on these two.
`meant` is the part of the array that the name stands for in the source.
`PassVar` and `PassParam` are the two paths of `TranslateDeclRefExpr` for an
argument, followed by the callee's `TranslateParamVarDecl`: the name then is
the parameter, and may be passed on. `AddressOf` is the path for an element.

### Expressions

Three things are compared. The *meaning of the source* is computed while the
parser builds the tree, because the order of its reductions is the order of
evaluation: `meant` is the value of each node, `source` the variables and the
calls made so far, `srcTrap` tells whether something undefined happened, and a
pending `&&` or `||` on `stack` whose left operand decides makes the source
skip what follows. *CalculateValue* folds each node in the same order
(`const`, `value` of a node): nothing reads a value between the parse and the
traversal, so the two may be run together; `Crashes` is the division by zero
inside the compiler. *The lowering* starts at `Begin`, with a stack of frames,
one for each call of a `Translate*` function, and each instruction is executed
when it is emitted (`run`), which in one block is the run of the finished
code. Operands carry their width and instructions the widths of their
operands, which is what the `Check` functions of `ir.cc` look at.

An int has the values `-Half .. Half - 1` and wraps around. The shape of the
recursion is kept: `FetchConst` and `FetchExpr` are the test that each
`Translate*` function makes for each operand; parentheses, and `&&` or `||`
with a neutral constant, are tail calls (`Instead`); the others return an
operand (`Return`).

## 3. The runs

| run | module | instance | question |
|---|---|---|---|
| `statements` | ControlFlow | 14 kinds of nodes, statements after jumps, 4 nodes, fair | stacks, a terminator in each block, with dead code as well; numbering up to the dead code; the graph does what the source does, and neither waits for ever |
| `conditions` | ControlFlow | conditions only, 5 nodes | are all jumps of nested `&&`, `\|\|`, `if`, `while` linked as meant; are the tests made in the order of the source |
| `loops` | ControlFlow | loops, branches, breaks, 6 nodes | the same for break and continue, and the control-flow graph at the end |
| `dead_code_break` | AstToIR | dead code after break, 5 nodes | **violation**: a placeholder `ret` is left in a loop |
| `asm_values` | IRToAsm | one parameter, local int[2][2], a global int and a global int[2] of which no element is loaded or stored, 6 names | tables typed, `sp` counted, registers never shared; registers, memory and the result hold what the IR means; the code implements `IRBlock` |
| `asm_globals` | IRToAsm | a global int[2] with loads and stores of its elements, 4 names | **violation**: a store to an element does not reach the data section |
| `asm_pushed` | IRToAsm | ints, 6 names | **violation**: a pushed variable is not where the table says |
| `immediates` | Immediates | runs, pairs of bits, complements, 0..520 bytes | the loop knows exactly the constants that one of its 15 windows covers, or their complements; which ones end the compilation |
| `immediates_ror30` | Immediates | same | **violation**: the last rotation is not tried |
| `names` | NameResolution | two user names, a library name, 9 nodes, fair | lexical scoping, initialisers visited before they are read, search ends |
| `expressions` | Expressions | 3-bit ints, three literals, one variable, a constant array, 5 nodes | folding is exact, operands typed, the code does what the source says |
| `init_lists` | ArrayRefs | six shapes of up to three dimensions | each cell has its value in the tables, in the data section and on the stack; an element is at its address in every function the array is passed to |

What the properties say:

- `StackDiscipline`: each open loop owns one list of breaks and one of
  continues, each open if, loop and operator one list of true and one of false
  jumps, after every step.
- `Numbering`: numbers of parameters, temporaries and labels are handed out in
  textual order, none skipped, none twice, up to the first code that follows a
  terminator in its block. There the IR begins a block with an implicit number
  (`doc/IR Reference.md:175`), which the translator does not count (section 6).
  Without code after a jump that is the whole function, as in `conditions`.
- `NoLostJump`: a jump reaches the block its statement means, or is the last
  instruction of a block in the list that will patch it. `OpenJumpIsLast`:
  those lists hold nothing else. `ResolvedJumpsStay` (action property): a jump
  once linked is never changed.
- `EveryBlockTerminated`, `WellFormedBlocks`, `NoStrayRet`: the finished
  function has a terminator at the end of each block, nowhere else, and no
  placeholder.
- `CodeFollowsSource`: on every path, the next thing the graph computes, tests
  or returns is the next thing that the source does. `NeitherIsStuck`: neither
  turns in silent circles while the other waits. Graphs that the repair of a
  break has spoilt (section 6) are not run.
- `SpMatchesTable`, `RegistersAgree`, `TopInRegister`: the tables of `Function`
  against the machine and each other.
- `RegistersHold`, `MemoryHolds`: the code computes what the IR means, if it
  loads and stores no element of a global array;
  `ImplementsBlock`: the same, with the returned value, as a refinement of
  `IRBlock`; `GlobalsHold`: the data section holds what the IR's globals do
  (a part of `MemoryHolds`, violated on its own in `asm_globals`);
  `PushedWhereRecorded`: a pushed variable is at its offset.
- `ClassIsExact`: what the loop of `CheckImm8m` calls an imm8m is covered by
  one of its 15 windows, or its complement is, and every such constant is
  called one. This is the code's class, not the documented one: the
  complements (section 6). `ThrownOnlyForImm16`: which constants, in which
  uses, end the compilation. `EncodableIsImm8m`: every documented #<imm8m> is
  known to the loop.
- `RefIsLexical`: a use refers to what the scopes open at its place give it,
  unless it is a variable's name in its own initialiser, which finds that
  variable; a name is reported missing only if it is. `InitialiserReady` (action
  property): a constant's value is read only after the visit of its
  declaration has returned. `SearchEnds`: the climb ends.
- `FoldingExact`: a folded node has the value the language gives it.
  `CrashMeansTrap`: folding divides by zero only where the source does, or in
  an operand it would skip. `OperandsTyped`: arithmetic gets two `i32`, a
  comparison two operands of one type, `zext` and `br` an `i1`; only a return
  can be refused. `LoweringExact`: the same calls in the same order, the same
  variables, result and trap as the source, unless the expression is one of
  the three kinds that the lowering gets wrong (section 6), which
  `Regular` excludes.
- `ElementsFound` (an element named by constant indices has the value of its
  cell), `WordsInPlace` (the directives load it), `StoresInPlace` (the stores
  write it); the three exclude lists that go on after a brace in the middle of
  an element (`cut`, section 6). `ElementsAddressed`: through whatever calls a
  part of an array has gone, `getelementptr` names the element that the source
  names, and the argument has the parameter's type; excluded is what follows
  the passing of a part of a parameter (`astray`, section 6).

Why the bounds are enough:

- `MaxNodes`: a handler's behaviour depends on its own frame, the top of the
  stacks and what the frames directly around it want. Four nodes give each
  construct inside each other, in each of its places, with code after it; five
  nodes of conditions give an operator in both operands of an operator in the
  condition of an if or a loop, with a statement in its body; six nodes of
  loops give two jumps out of one loop, and a break under an if under a loop
  in a loop. `StmtVals` is one number of instructions, since
  only the numbers they take matter. The runs of the graph are not bounded:
  the blocks are finitely many, and so are the pairs of places.
- `MaxNames` 6: a load, a second load that pushes, an operator that
  pushes again and a store need five names; the parameter is the sixth. Variables
  are put in the registers 1, 6 and 7 only, so every eviction that the code
  can make occurs.
- `names`: the unit and the library take three nodes, a function and its body
  two. Four remain for an inner block and parameters, declarations or uses: a
  global, an inner declaration of the same name and a use of it inside a
  block, in any order; or a declaration whose initialiser names itself. Two
  names besides the library's let the function have one and the use the other,
  which may then be undeclared.
- `init_lists`: three dimensions are the fewest where a list stands for an
  element that is itself an array of arrays; the sizes 1, 2 and 3 give short,
  exact and empty lists at each level, and 2, 2, 2 a brace in the middle of an
  element. A chain of calls is not bounded: each call that does not pass the
  whole takes a dimension away.
- `expressions`: five nodes are an operator over two operators, or a call in
  each operand of an operator, or a constant, its declaration and an
  expression that uses it under `&&`. With `Half = 4` the literals 0, -4 and 1
  are zero, the least int (`0x80000000` in the source) and one, which reach
  both traps of a division, the negation that overflows, and sums that wrap.
- `immediates`: the window has eight bits and turns by two, so runs of up to
  17 bits at each position, their ends alone, pairs across the end of the word
  and all complements lie on both sides of each test.

## 4. Fairness

`FairSpec` of `NameResolution` adds `WF_vars(Next)`: one thread runs the pass
and is never blocked, so while a step is possible one is taken. Nothing
stronger is assumed: which step is a choice of the input, the tree that the
pass meets, and its size is bounded, since a source file is finite. Liveness
(`SearchEnds`) therefore says that no chain of steps within a finite tree is
endless.

`FairCFSpec` of `ControlFlow` adds `WF_allVars(Silent)` only: a machine that
has an instruction due executes it. The events need none, since
`NeitherIsStuck` promises no event, only that both runs come to one; in
particular no test is assumed to turn out false some day, and a loop may run
for ever. The other runs need no fairness.

No run turns the deadlock check off: each specification has an explicit last
step (`Finished`, `Stopped`) that is possible only where the code has
returned, thrown, or reached the bound, so a handler without a next step would
be reported.

## 5. The proofs

Each theorem holds for all values of the constants, under the assumptions
named in the module: no bound on the program, the names, the array types, the
parameters or the constants.

| theorem | statement | argument |
|---|---|---|
| `AstToIRProofs!TypeCorrect` | `Spec => []TypeOK` | from `IInv` |
| `AstToIRProofs!StacksMirrorRecursion` | `Spec => []StackDiscipline` | from `IInv` |
| `IRToAsmProofs!TablesTyped` | `Spec => []TypeOK` | from `IInv` |
| `IRToAsmProofs!SpIsCounted` | `Spec => []SpMatchesTable` | from `IInv` |
| `IRToAsmProofs!RegistersNeverShared` | `Spec => []RegistersAgree` | from `IInv` |
| `IRToAsmProofs!TopNeverPushed` | `Spec => []TopInRegister` | from `IInv` |
| `BackpatchingProofs!BlocksTerminated` | `Spec => []EveryBlockTerminated` | from `TInv` |
| `BackpatchingProofs!NumbersInOrder` | `Spec => []Numbering` (up to code after a terminator) | from `NInv` |
| `OpenJumpProofs!NoJumpIsLost` | `~DeadCode` implies `Spec => []NoLostJump` | from `KInv` |
| `OpenJumpProofs!ListsHoldOpenJumps` | `~DeadCode` implies `Spec => []OpenJumpIsLast` | from `KInv` |
| `OpenJumpProofs!BlocksWellFormed` | `~DeadCode` implies `Spec => []WellFormedBlocks` | from `KInv` and `BlocksTerminated` |
| `OpenJumpProofs!NoRetIsStray` | `~DeadCode` implies `Spec => []NoStrayRet` | from `KInv` |
| `OpenJumpProofs!ResolvedJumpsAreFinal` | `~DeadCode` implies `Spec => ResolvedJumpsStay` | from `KInv`, step by step |
| `IRToAsmProofs!OffsetIsRowMajor` | the code's offset of an element is the row-major one, up to two dimensions | arithmetic |
| `IRToAsmRefinement!RegistersHoldValues` | `Supported => (Spec => []RegistersHold)` | from `IInv` and `Correspondence` |
| `IRToAsmRefinement!MemoryIsRight` | `Supported => (Spec => []MemoryHolds)` | the same |
| `IRToAsmRefinement!TranslationImplementsBlock` | `Supported => (Spec => ImplementsBlock)` | the same, one step at a time |
| `ImmediatesProofs!TypeCorrect` | `Spec => []TypeOK` | inductive as it stands |
| `ImmediatesProofs!ClassExact` | `Spec => []ClassIsExact` | from `WindowRotated` and `Verdict` |
| `ImmediatesProofs!OnlyImm16Throws` | `Spec => []ThrownOnlyForImm16` | from `Verdict` |
| `ExpressionsProofs!TypeCorrect` | `Spec => []TypeOK` | from `IInv` |
| `ExpressionsProofs!FoldingIsExact` | `Spec => []FoldingExact` | from `IInv` |
| `ExpressionsProofs!CrashesOnlyOnTraps` | `Spec => []CrashMeansTrap` | from `IInv` |
| `ExpressionsProofs!OperandsAlwaysTyped` | `Spec => []OperandsTyped` | from `IInv` |
| `ExpressionsProofs!LoweringIsExact` | `Spec => []LoweringExact` | from `XInv` |
| `NameResolutionProofs!TypeCorrect` | `Spec => []TypeOK` | from `IInv` |
| `NameResolutionProofs!ReferencesAreLexical` | `Spec => []RefIsLexical` | from `IInv` and `AllEntered` |
| `NameResolutionProofs!InitialisersAreReady` | `Spec => InitialiserReady` | from `IInv` and `EarlierEntered` |

**AstToIR.** `StackDiscipline` alone is not inductive: a pop on the way out of
an if is right only if the frame on top is that if, and types are preserved
only if the blocks that frames and lists name exist. `IInv` is `TypeOK`,
`Mirrors` (frames and lists name existing blocks; each stack is as deep as
there are frames of the kinds that own its lists) and `ExprCalls` (an
expression is called only from a frame that waits for one). Blocks only grow
(`Grows`), so what names a block keeps naming one: the lemmas on `Grows` carry
`Mirrors` over each action, and one lemma for each action counts the frames.
Assumptions used: `NumParamsAssumption`, `StmtValsAssumption`.

**The blocks of AstToIR.** Every program is covered, those with unreachable
statements too. A block is closed by a statement that may begin many calls
later, so `EveryBlockTerminated` needs to know who will close each block that
is still open. `TInv` is `IInv` and: `Placed` (`Waits` of a frame are the
blocks it has still to close, and they exist; a loop's are newer than those
of the frames below it; an operand is translated in the block its caller
tests), `Current` (the block in hand is the newest one, and an operand that
left no value has closed it) and: every block is closed unless it is `cur` or some
frame waits for it. Two facts make the loop hard: `WhileEnd` takes the
placeholder off the blocks of its list before it closes them, so they are open
in between, and such a block may be `cur` itself. The lemmas `LoopEndTypes`
and `LoopEndBlocks` follow the blocks through the five operators into which the
handler is divided.

`Numbering` needs more, because that repair removes the *last* instruction of
each listed block, whatever it is. That no number gets lost rests on the block
being closed, so that the last instruction is a terminator, which takes no
number. `NInv` is `TInv`, `LoopLists` (a break or continue list holds blocks
of its own loop only: they are not older than its check block, so the repair
touches none that an outer frame keeps open) and `Numbered`, the numbering
stated block by block and for any position in them, dead code included: the
translator's own numbers are dense to the end of the function, and what comes
before a place that `Numbering` rules is ruled by it too. The lemmas on
`Numbered` say what an added block, added instructions, a replaced and a
patched terminator do to it; `Takes` says which numbers straight-line code
takes. Assumptions used: `NumParamsAssumption`, `StmtValsAssumption`.

**The open jumps of AstToIR.** The five theorems of `OpenJumpProofs` are about
programs in which no statement follows a return, break or continue in the same
block: `~DeadCode`. The hypothesis is needed, since `dead_code_break` refutes
`NoStrayRet` for the others; within it there is no bound on the size of the
program or on the nesting. `KInv` is `~DeadCode`, `NInv` and `Kept`, in whose
definition a jump is open for a role (the block it is meant to reach) and a
list of a frame holds the open jumps for one role: `WantOf` and `LhsWant` say
which. Its parts:

- `Graph`: labels name one block each; a terminator is the last instruction of
  its block; each jump leads to a block of the role it is meant for, or is in
  the list for that role; and each block in a list ends in an unresolved jump
  for the role of the list (`WaitsTrue`, `WaitsFalse`, `WaitsLoop`), even if
  the block is in several lists.
- `FramesShape`: the blocks a frame keeps have the roles it created them with;
  those it alone will close are still open (`Pending`), or fall through, return
  or break (`thenEnd`); an operator wants what its caller wants; a frame above
  another stands for a later node and waits for later blocks, so that what one
  construct closes or patches is not another's.
- an operand that left a value left no open jump: its lists are empty, and
  those of a frame that tests a value are (`AllSettled`).
- `CurOpen`: the block in hand can still be written to; after a statement it
  may end in a return or in the placeholder of a break.

A step that adds a jump and patches two lists passes through graphs that are
not states, with blocks that are open, or jumps that no list holds. `Wired`
says of such a chain what it has changed, and there is one lemma for each kind
of link (`WireJump`, `WireTest`, `WireJoin`, `WirePatch`, `WireClose`, ...), so
that the proof of a handler reads in the order of its code: for the end of
`&&` and `||` the jump into the left operand, then the test or the lists of
each operand (`CondEndWired`); for the end of an if the jumps of the branches
to the join, the test, the patches (`IfEndWired`); for a loop `LoopEndWired`.
`NextKept` also yields that no step changes a resolved jump, the action
property. `RowsListed` relates the
lists of `Kept`, which belong to frames, to the union of the stacks in the
properties: by `StackDiscipline` each list has its frame. Assumptions used:
`NumParamsAssumption`, `StmtValsAssumption`.

**IRToAsm.** `IInv` is `TypeOK`, `FiniteTable` (so that the number of entries
of `stack_state` is a number), `SpMatchesTable`, `RegistersAgree`,
`OperandsKnown` (the temporary that awaits its use has an entry, or is a
parameter that awaits its store) and `TopInRegister`. Each action calls
`GetReg` before it assigns a register; one lemma states what the pair does to
the two tables and to the stack, and the actions cite it. Assumptions used:
`NumParamsAssumption`, `DimsAssumption`.

**The refinement of IRBlock.** The three theorems hold for any number of names,
globals, arrays and pushes, under the hypothesis `Supported`, each line of
which leaves out one form that the code is known to translate wrongly
(section 6): a second int parameter, a product, an immediate on the left of an
operator other than `+` and `-`, a pushed operand that is reloaded, a load or
store of an element of a global array (`~UseElements`), a third dimension of a
local or global array. The run `asm_values` satisfies it. `Correspondence` relates the
three machines: `NamesApart` (variables, pointers and pushed variables never
share a key of `stack_state`, so that `GetReg` always pushes and never
overwrites), `ParameterHeld`, `OperandsPlaced`, `ResultRegisters`,
`RegistersHold`, `PointersPlaced` and `CellsHold` (a pointer's entry is the
offset of its cell, and that word holds the cell's value), `CellsApart` (two
cells never share a word) and `ResultHolds`. `CellsApart` is what makes a
store harmless to all other cells, and it needs `OffsetIsRowMajor`, whose
proof shows why two dimensions are right: the code weighs an index with the
next dimension alone, row-major order with the product of all that follow, and
up to two dimensions there is at most one. `TranslationImplementsBlock`
then gives for each instruction the step of `IRBlock` under the mapping, or a
stutter. Assumptions used: `NumParamsAssumption`, `DimsAssumption`,
`GlobalsAssumption` (a global's name is no number: locals are numbered).

**Immediates.** `WindowRotated` says that after i turns the window is
`Ror(0 .. 7, 2 * i)`; the lemma `RotateWindow` proves that the two shifts of a
turn are a rotation. `Verdict` says what `isImm8m` means once the loop is
over. Assumption used: `ValuesAssumption`.

**Expressions.** For every width of an int, every literal, variable, operator
and constant array. `IInv` is the three properties with `TypeOK`, `TreeOK`
(a node has the operands of its kind, and is constant as its kind and operands
say), `EvaluatedOK` (what the source evaluates has a value, unless something
undefined happened before) and `Staged` (the lowering works on one finished
tree). `FoldingExact` needs `EvaluatedOK`, because a folded operand that the
source skips has no meaning to compare with; `OperandsTyped` needs `TreeOK`,
because a frame of the lowering fetches as many operands as its node has. One
lemma for each action; those of the parser rest on `ReduceEffect` and
`NodeBuilt` (what a reduction does to the stack and to the tree), those of the
lowering on `LoweringStep`, `CallReturns` and `StatementEnds` (what a call, a
return and the end of the statement do to the frames). The arithmetic is in
`WrapIsWord` and `WrapNegation`.

`LoweringExact` needs more. The variables of the model keep the program and
the trap that the source has reached, and what each node means; nothing
remembers when. `XInv` is `IInv` and `LoweringExact` with a record of that,
which no variable holds and which is existentially quantified:

- `Remembered`: W[n] is the program after node n, D the nodes after which
  something undefined has been done, K the nodes that `&&` and `||` skip, L[n]
  the first node of the expression that ends in n. Nodes stand in the order of
  evaluation (`Laid`); a node changes the program and the trap as its kind says
  (`DoesAt`), and not at all when it is skipped or constant, which is why it is
  right that the lowering gives a folded operand no code. `Extends` says how
  the record goes on when a node is built.
- `Lowered`: while a regular expression is lowered, the operands a frame has
  fetched have the values of their nodes, or just their truth where the
  lowering gives no more (`Match`); the call above a frame stands for the
  operand the frame asks for (`StandsFor`: after `&&` or `||` with a constant
  operand has passed the other operand on, it is another node, with the same
  truth and the same effects); and what the code has done is W at the node last
  finished (`Position`). There is one `...Follows` lemma for each action.
- a set R of the nodes whose value is no more than a truth, by which what the
  recursive function `Raw` gives is known without an induction.

Assumptions used: `HalfAssumption`, `LiteralsAssumption`, `StartAssumption`,
`TableAssumption`, `OpsAssumption`, and `VarsAssumption` (the name of a
variable is no operator: a node keeps either in the field `op`).

**NameResolution.** For any set of names, any nesting of blocks and any number
of nodes. While the parser builds the tree, a use does not know the scopes it
will be looked up in: their tables are filled when their blocks close, with
declarations that stand after the use as well. `IInv` says what will hold once
they do. Its parts:

- `Tree` is `TypeOK` and `Shape`: a node without a parent is the unit, the
  function whose body is open, or an item of exactly one open block; a parent
  is newer than its children, but for the unit, and for a function, which is
  older than its body.
- `Scopes`: each open scope is what the table of its block will be. It needs
  that no name is declared twice in one scope, since `emplace` keeps the first.
- `Resolves`: there is a set R of pairs of a use and a node at which its search
  will arrive. It holds the parent of every use that has one; from a node where
  the name is found, what is found is what the use means; from another, the
  pair with the next parent is in R; at an item of the k-th open block, what
  the use means is what the first k + 1 scopes say to a reader who ignores the
  declarations after it (`MeansIn`); at the unit with nothing found, the use
  means nothing. A declaration that is read later has a later identifier, so it
  changes none of this: `EntryKept`, from which `FoundKept` and `MeansKept`
  follow. When a block closes, R grows by the pairs of that block with the
  uses whose search gets there (`EndsMeans`, `MeansTop`).
- `InOrder`: every node has a span of identifiers that holds those of its
  children, and siblings and open blocks are in the order of the text; during
  the traversal there is a set V of entered nodes whose children are entered
  or on the list, and the list is in the order of the text too.
- `AtRest`: what the phases leave alone.

R, the spans and V are existentially quantified: no variable of the model
holds them, and each step names the new ones. `AllEntered` shows that nothing
is left out when the list is empty, `EarlierEntered` that a variable whose
identifier is before the use at hand has been entered: both take the newest
node that would contradict them and look at its parent. Assumption used:
`NamesAssumption`.

Only model-checked: `CodeFollowsSource` of `ControlFlow`, for which the
invariant would have to relate every state of the source's run to a place in
the graph; and all of `Initialisers` and `ArrayRefs`.
Out of the prover's reach altogether: the liveness properties
(`NeitherIsStuck`, `SearchEnds`), and what a recursive operator computes for
every input, which is `Initialisers` as a whole, and with it `ArrayRefs`.
Where an argument needs an induction over nodes, it is stated as the choice of
a least or greatest counterexample (`LeastNat`, `GreatestBelow`), which follows
from the well-foundedness of the natural numbers without an operator as a
parameter.

## 6. What the code gets wrong

Each of the first four is a run that TLC finds violated; `findings` in
`PROJECT.json` has the quotations.

- **A break followed by code** (`dead_code_break`). A break adds a placeholder,
  a `ret void`, and lists its block; the loop's repair pops the *last*
  instruction of each listed block. In `while (c) { break; x = 1; }` the block
  ends in the store when the body is finished, so lines 430-432 of
  `ast_to_ir.cc` first append the closing jump after it. The repair pops that
  jump (line 450) and appends the one to the loop's end (line 451). The store
  stays where it was, and so does the placeholder in front of it: the function
  returns where the loop should end.
- **The offset of a pushed variable** (`asm_pushed`). `Function::GetReg` writes
  `stack_state[name] = stack_state.size()`. The build is C++17, where the right
  side is evaluated first, so the offset is the number of words *before* the
  push. `TranslateAllocaInst` records offsets from one, as the comment on
  `stack_state` says ("offset begin from 1"), and all readers subtract the
  offset from the current number of words; a reload reads the word below.
- **The last rotation** (`immediates_ror30`). The loop of `CheckImm8m` makes
  15 of 16 turns, so 260 = 65 ror 30 is not recognised, and the code throws on
  a local `int[65]`.
- **Elements of global arrays** (`asm_globals`). For `g[i]` the front end emits
  a `getelementptr` on the global (`ast_to_ir.cc:562` and `610`).
  `TranslateGetelementptrInst` reads `ptr_state[ptr_name]` (`asm.cc:445`), which
  inserts 0, and the result counts as a pointer into the frame: loads and
  stores through it go to the stack. Only ints among the globals are reached
  by their label.

Excluded by name from a property that fails without the exclusion; no property
covers these cases, as `hazards` says of each:

- *Expression statements* (`Regular` of `LoweringExact`): only a call is
  lowered, so `f() + 1;` does not call f.
- *A late decision* (`NoLateDecision`): for `f() || 1` the constant on the
  right decides and the left operand, with its call, is dropped.
- *A neutral constant outside a condition* (`TruthSuffices`): `(1 && x) + 1`
  adds x itself, not its truth value.
- *A trap inside the compiler* (second case of `CrashMeansTrap`): `0 && 1/0`
  is legal and ends the compilation, because operands are folded first. A
  constant index outside its array, `0 && t[9]`, is worse: `GetInitValue` reads
  `init_list` out of bounds (`ast_manager.cc:939`). No program with one is
  modelled (section 7).
- *A return of a comparison* (`OperandsTyped`): `return !a;` gives `RetInst`
  an `i1`, which it refuses.
- *A brace in the middle of an element* (`cut`): `Format` counts it as one
  cell of the run it stands in, so `{1, 2, {3, 4}, 5}` of `int[2][2][2]` loses
  the 5.
- *A part of a parameter passed on* (`astray`): for `f(a[1])` with
  `int a[][3]` the index is not looked at and f gets all of a.
- *A variable in its own initialiser* (`NamesItself` of `RefIsLexical`):
  `int c = c;` finds the new c, not the one outside.
- *Numbers after dead code* (`Ruled` of `Numbering`): code after a return,
  break or continue in the same block begins a block of its own, with a number,
  by the IR's rule. The translator does not count that block, so the numbers
  it prints from there on are not those the IR requires.

Certain from the code, without a run: `b = !a` and `int b = a < 1` store the
`i1` that the comparison returned through an `i32*` (`ast_to_ir.cc:926`), where
`doc/IR Reference.md:303` asks for a pointer to the type of the value; the
check that would refuse it is commented out (`ir.cc:140`), and the back end
knows of the case (`asm.cc:91`) but drops the comparison. And `CheckImm8m`
also lets the complement of an imm8m pass, of which `operand.h:65` asks why. A
`mov` of one can be written as another instruction; `add`, `sub` and `rsb`
take an #<imm8m> only, 8 bits rotated by an even amount
(`doc/ARM Assembly.md:86-88`, the comments in `instruction.h` at lines 294, 327
and 360), but `-2737 + x` becomes `add r, r, #-2737`. `ClassIsExact` pins down
the class that the code gives; no property says that it is the right one.

Noticed while reading and visible in the models: with a 16-bit constant that
is no imm8m, `TranslateAllocaInst` (also `+` and `-` with the constant on the
left) passes the guard and throws in the constructor, where
`doc/ARM Assembly.md:86-87` recommends `ldr`: `ThrownOnlyForImm16` pins down
the cases. A multiplication is emitted as an addition, `imm / x` as `x / imm`,
the offset of an element is row-major up to two dimensions only, and
`x op imm` always throws; `RegOps`, `ImmOps` and `Dims` can express the first
three, and `RegistersHold` or `MemoryHolds` then fails. A second int parameter
is stored from r0, the register of the first: `asm.cc:405` looks it up in
`var_state`, which has no entry for a parameter, so the lookup makes one with
the value 0. `NumParams = 2` expresses that, and `MemoryHolds` fails.

## 7. What is not modelled, and why

- *In AstToIR:* predecessor and successor lists (written, never read);
  `&&` and `||` outside conditions and break outside loops (the language
  forbids them, the grammar does not); dropped operands of a decided operator
  are nothing.
- *In IRToAsm:* branches and several blocks: `TranslateBrInst` reads a static
  `cond` that nothing sets, so every conditional branch goes to its true
  label, and the comparison before it is dropped like `call` and `zext`; there
  is no behaviour yet that a property could hold against the IR; loads and
  stores of elements of a global array in all runs but `asm_globals`; parts of
  a global array (they are passed to calls, which are dropped); array parameters; indices that are not
  constants; the width of values, which symbols do not have; what the assembler
  does with a `mov` of a negative 16-bit number.
- *In NameResolution:* two declarations of a name in one scope; several uses
  in one initialiser; nodes that keep no identifiers.
- *In Initialisers and ArrayRefs:* braces around a single int, more values
  than cells; indices that are not constants (an expression like any other),
  and stores through references; a constant array as an argument, which counts
  as a constant expression, so that the callee gets 0 for the address (see
  `hazards`).
- *In Expressions:* a constant index outside its array, for which the compiler
  reads beyond the list of values (`ElementRef`, and so `CrashMeansTrap`, know
  indices in range only, or indices that are computed at run time); `&&` and
  `||` of two operands that are no constants (they
  are blocks, the subject of `AstToIR`); calls of more than one argument;
  array elements that are no constants.
- *In ControlFlow:* what is computed, which is the subject of `Expressions`;
  calls and returns between functions.
- *Not at all:* the regular expressions, the
  grammar's automaton, dumps of the AST and the IR, the source manager,
  utilities, drivers; the optimiser's directory is empty; the run-time library
  is supplied from outside.

## 8. Plan

Order: the lowering of statements first, since every program passes through
its back-patching; the register and stack tables next, since they decide the
meaning of the code; then what both rely on. Done: the modules of section 2.

Of the first plan `ConstantFolding` became `Expressions`, `SourceSemantics`
became `ControlFlow`, a run of both sides instead of a refinement, because the
blocks' labels are known only when the source has been read. Several blocks in
the back end were dropped, for the reason given in section 7; they come next
when `asm.cc` translates conditions, with `IRBlock` extended to match.

Theorem to prove next: `CodeFollowsSource`, for programs without unreachable
statements: the theorems of `OpenJumpProofs` say that each jump leads to the
block it was meant for, what is missing is that the blocks of a statement, run
from the first, do what the statement does.
