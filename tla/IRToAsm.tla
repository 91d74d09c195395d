------------------------------ MODULE IRToAsm ------------------------------
(***************************************************************************)
(* Translation of one basic block of IR to ARM code, as done by            *)
(* src/src/backend/asm.cc on the state of class Function.                  *)
(*                                                                         *)
(* The module runs three things side by side: the IR program (what every   *)
(* name and every memory cell holds by the meaning of the IR), the         *)
(* translator (the four tables of class Function), and the machine that    *)
(* executes each ARM instruction as soon as it is emitted, which in        *)
(* straight-line code is the run of the finished code.  Values are         *)
(* symbols: the name of the instruction that computes them, so a register  *)
(* holds the right value exactly when it holds the right symbol.           *)
(*                                                                         *)
(* The IR is what ast_to_ir.cc emits: temporaries are used once, in the    *)
(* order of an evaluation stack (operands), a statement begins with an     *)
(* empty one, and the parameters are stored before anything else.  Left    *)
(* out: instructions the translator ignores (call, icmp, zext), branches,  *)
(* array parameters, and indices that are no constants.                    *)
(*                                                                         *)
(* A definition whose name has a suffix after an underscore is a wrong     *)
(* form of the one that follows it, which no action uses.                  *)
(***************************************************************************)
EXTENDS Integers, SequencesExt

CONSTANTS
  NumParams,    (* number of (int) parameters                              *)
  Globals,      (* the global variables                                    *)
  Dims,         (* the array types: sequences of dimensions                *)
  GlobalDims,   (* the dimensions of each global variable                  *)
  RegOps,       (* operators met with two variables as operands            *)
  ImmOps,       (* operators met with an immediate on the left             *)
  UseSpilled,   (* may an operand be a variable that has been pushed?      *)
  UseElements,  (* may an element of a global array be loaded or stored?   *)
  MaxNames      (* bound on the number of names of the function            *)

Ops  == {"add", "sub", "mul", "div", "rem"}
Imms == {"imm8m", "imm16", "imm32"}   (* the smallest class an immediate is in *)

(* Length of an array, in words; that of an int is Size(<<>>).             *)
Size(dims) == FoldLeft(LAMBDA a, b : a * b, 1, dims)

ASSUME NumParamsAssumption == NumParams \in Nat
(* A global variable is no name of a temporary.                           *)
ASSUME GlobalsAssumption == Globals \cap Nat = {}
ASSUME DimsAssumption ==
  /\ Dims \subseteq Seq(Nat \ {0})
  /\ \A d \in Dims \cup {<<>>} : Size(d) \in Nat \ {0}
ASSUME GlobalDimsAssumption ==
  /\ GlobalDims \in [Globals -> Seq(Nat \ {0})]
  /\ \A g \in Globals : Size(GlobalDims[g]) \in Nat \ {0}
ASSUME OpsAssumption == RegOps \subseteq Ops /\ ImmOps \subseteq Ops
ASSUME UseSpilledAssumption == UseSpilled \in BOOLEAN
ASSUME UseElementsAssumption == UseElements \in BOOLEAN
ASSUME MaxNamesAssumption == MaxNames \in Nat

VARIABLES
  (* the IR program                                                        *)
  names,        (* the names are 1 .. names, the parameters first          *)
  value,        (* value of each name                                      *)
  content,      (* value of each cell of memory                            *)
  points,       (* what each pointer into the frame points to              *)
  elements,     (* the cell of each pointer into a global array            *)
  operands,     (* the temporaries that await their use                    *)
  ret,          (* the value returned                                      *)
  (* class Function                                                        *)
  reg_state, var_state, stack_state, ptr_state,
  (* the machine                                                           *)
  regs, stack, data,
  phase

ir      == <<names, value, content, points, elements, operands, ret>>
func    == <<reg_state, var_state, stack_state, ptr_state>>
machine == <<regs, stack, data>>
vars    == <<ir, func, machine, phase>>

-----------------------------------------------------------------------------
(* Values: n > 0 is what the instruction that defines name n computes.     *)
Undef == 0      (* a cell not written yet *)
Imm   == -1     (* an immediate           *)
Wrong == -2     (* anything else          *)

NoName  == 0
InStack == -1   (* the var_state of a variable that has been pushed *)

Registers == 0 .. 9

Extend(f, k, v) == [x \in DOMAIN f \cup {k} |-> IF x = k THEN v ELSE f[x]]

(* A cell of memory, and the key of stack_state for it: element i of the   *)
(* array (or the int) that name n points to.  A pushed variable n has the  *)
(* key Cell(n, 0) too.                                                     *)
Cell(n, i)     == <<n, i>>
Cells(n, size) == {Cell(n, i) : i \in 0 .. size - 1}
(* The words of the data section.                                          *)
GlobalCells == UNION {Cells(g, Size(GlobalDims[g])) : g \in Globals}

Place(base, i, dims) == [base |-> base, cell |-> i, dims |-> dims]

StackSize == Cardinality(DOMAIN stack_state)

(* The word of st at offset off (in words) above the stack pointer.        *)
Peek(st, off) ==
  IF Len(st) - off \in DOMAIN st THEN st[Len(st) - off] ELSE Wrong
Poke(st, off, v) ==
  IF Len(st) - off \in DOMAIN st THEN [st EXCEPT ![Len(st) - off] = v] ELSE st

New        == names + 1
Running    == phase = "run"
(* The parameters wait to be stored.                                       *)
Prelude    == operands # <<>> /\ Last(operands) <= NumParams
Fresh      == Running /\ names < MaxNames /\ ~Prelude
Pointers   == DOMAIN points
Elements   == DOMAIN elements
Popped(k)  == SubSeq(operands, 1, Len(operands) - k)

-----------------------------------------------------------------------------
(* Function::GetReg(id): the variable in register id, if any, moves to the *)
(* stack.  Its effect on each variable, for the callers to compose.        *)

Evicted(id) == reg_state[id]
Pushes(id)  == Evicted(id) # NoName /\ Cell(Evicted(id), 0) \notin DOMAIN stack_state

GetRegVars(id) ==
  IF Evicted(id) = NoName THEN var_state
  ELSE [var_state EXCEPT ![Evicted(id)] = InStack]

GetRegSlots_Unrecorded(id) == stack_state
GetRegSlots(id) ==
  IF Pushes(id) THEN Extend(stack_state, Cell(Evicted(id), 0), StackSize)
  ELSE stack_state

GetRegStack_NoPush(id) == stack
GetRegStack(id) ==
  CASE Evicted(id) = NoName -> stack
    [] Pushes(id) -> Append(stack, regs[id])
    [] OTHER -> Poke(stack, StackSize - stack_state[Cell(Evicted(id), 0)], regs[id])

(* Registers and variables once register id is given to name n.            *)
Assigned_Swapped(id, n) == Extend(GetRegVars(id), id, n)
Assigned_KeepsOld(id, n) == Extend(var_state, n, id)
Assigned_ThenEvicted(id, n) ==
  Extend(var_state, n, IF Evicted(id) = NoName THEN id ELSE InStack)
Assigned(id, n) == Extend(GetRegVars(id), n, id)

-----------------------------------------------------------------------------
(* TranslateFunction: the tables are empty; the caller put the parameters  *)
(* in r0, r1, ...                                                          *)
Init ==
  /\ names = NumParams
  /\ value = [n \in 1 .. NumParams |-> n]
  /\ content = [c \in GlobalCells |-> Undef]
  /\ points = <<>> /\ elements = <<>>
  /\ operands = [k \in 1 .. NumParams |-> NumParams + 1 - k]
  /\ ret = Undef
  /\ reg_state = [r \in Registers |-> NoName]
  /\ var_state = <<>> /\ stack_state = <<>> /\ ptr_state = <<>>
  /\ regs = [r \in Registers |-> IF r < NumParams THEN r + 1 ELSE Wrong]
  /\ stack = <<>>
  /\ data = [c \in GlobalCells |-> Undef]
  /\ phase = "run"

-----------------------------------------------------------------------------
(* Pointers.                                                               *)

(* alloca: sp goes down by the size; the cells get the offsets on top.     *)
SlotsBase_FromZero(size) == size
SlotsBase(size) == size + 1
AllocaInst(dims) ==
  LET cells == Cells(New, Size(dims))
      first == SlotsBase(StackSize)
  IN
  /\ Running /\ names < MaxNames
  /\ names' = New
  /\ points' = Extend(points, New, Place(New, 0, dims))
  /\ content' = [c \in DOMAIN content \cup cells |->
                   IF c \in cells THEN Undef ELSE content[c]]
  /\ stack_state' = [c \in DOMAIN stack_state \cup cells |->
                       IF c \in cells THEN first + c[2] ELSE stack_state[c]]
  /\ ptr_state' = Extend(ptr_state, New, first)
  /\ stack' = stack \o [i \in 1 .. Size(dims) |-> Undef]
  /\ UNCHANGED <<value, elements, operands, ret, reg_state, var_state, regs, data,
                 phase>>

(* A pointer to base's cell i, which the translator takes to be at pos.    *)
NewPointer(base, i, pos) ==
  /\ Fresh
  /\ names' = New
  /\ points' = Extend(points, New, Place(base, i, <<>>))
  /\ ptr_state' = Extend(ptr_state, New, pos)
  /\ UNCHANGED <<value, content, elements, operands, ret, reg_state, var_state,
                 stack_state, machine, phase>>

BitcastInst(p) ==
  /\ points[p].dims # <<>>
  /\ NewPointer(points[p].base, points[p].cell, ptr_state[p])

(* getelementptr on a pointer to int: the index counts words.              *)
ElementInst(p, idx) ==
  /\ points[p].dims = <<>> /\ points[p].cell = 0
  /\ NewPointer(points[p].base, idx, ptr_state[p] + idx)

(* getelementptr on a pointer to an array, the indices being 0 and idx.    *)
(* By the IR's meaning elements are in row-major order; the translator     *)
(* weighs each index with the next dimension alone.                        *)
RowMajor(dims, idx) == FoldLeftDomain(LAMBDA acc, j : acc * dims[j] + idx[j], 0, dims)
WordOffset_Column(dims, idx) == idx[1]
WordOffset(dims, idx) ==
  LET indices == <<0>> \o idx IN
  FoldLeftDomain(LAMBDA acc, j : acc + dims[j] * indices[j], 0, dims) + Last(idx)

GetelementptrInst(p, idx) ==
  LET dims == points[p].dims IN
  /\ dims # <<>> /\ Len(idx) = Len(dims)
  /\ \A j \in DOMAIN dims : idx[j] < dims[j]
  /\ NewPointer(points[p].base, RowMajor(dims, idx),
                ptr_state[p] + WordOffset(dims, idx))

(* The same on a global array.  ptr_state has no entry for its label, so   *)
(* operator[] makes one, 0, and the element is taken to be in the frame.   *)
LabelPos(g) == IF g \in DOMAIN ptr_state THEN ptr_state[g] ELSE 0

GetelementptrGlobal(g, idx) ==
  LET dims == GlobalDims[g] IN
  /\ Fresh
  /\ dims # <<>> /\ Len(idx) = Len(dims)
  /\ \A j \in DOMAIN dims : idx[j] < dims[j]
  /\ names' = New
  /\ elements' = Extend(elements, New, Cell(g, RowMajor(dims, idx)))
  /\ ptr_state' = Extend(Extend(ptr_state, g, LabelPos(g)),
                         New, LabelPos(g) + WordOffset(dims, idx))
  /\ UNCHANGED <<value, content, points, operands, ret, reg_state, var_state,
                 stack_state, machine, phase>>

-----------------------------------------------------------------------------
(* Loads and stores.                                                       *)

(* The pointers to an int that are used, and the cells they point to.      *)
Addresses == {p \in Pointers : points[p].dims = <<>>}
               \cup (IF UseElements THEN Elements ELSE {})
CellOf(p) ==
  IF p \in Elements THEN elements[p] ELSE Cell(points[p].base, points[p].cell)

(* The register a load takes: r6 or r7 if free, or r6.                     *)
LoadReg == IF reg_state[6] # NoName /\ reg_state[7] = NoName THEN 7 ELSE 6

LoadInto(des, v, loaded, temps) ==
  /\ Fresh
  /\ names' = New
  /\ value' = Extend(value, New, v)
  /\ operands' = Append(operands, New)
  /\ reg_state' = [reg_state EXCEPT ![des] = New]
  /\ var_state' = Assigned(des, New)
  /\ stack_state' = GetRegSlots(des)
  /\ stack' = GetRegStack(des)
  /\ regs' = [temps EXCEPT ![des] = loaded]
  /\ UNCHANGED <<content, points, elements, ret, ptr_state, data, phase>>

LoadGlobal(g) ==
  /\ GlobalDims[g] = <<>>
  /\ LoadInto(LoadReg, content[Cell(g, 0)], data[Cell(g, 0)],
              [regs EXCEPT ![5] = Wrong])

LoadInst(p) ==
  LET size == Cardinality(DOMAIN GetRegSlots(LoadReg)) IN
  LoadInto(LoadReg, content[CellOf(p)],
           Peek(GetRegStack(LoadReg), size - ptr_state[p]), regs)

(* A variable the translator never put anywhere is looked up as register 0.*)
RegOf(n) == IF n \in DOMAIN var_state THEN var_state[n] ELSE 0

(* The value stored: an immediate, loaded in r8, or the variable on top.   *)
StoredVars(imm) ==
  IF imm THEN var_state ELSE Extend(var_state, Last(operands), RegOf(Last(operands)))
StoredRegs(imm) == IF imm THEN [regs EXCEPT ![8] = Imm] ELSE regs
StoredReg(imm)  == IF imm THEN 8 ELSE RegOf(Last(operands))
StoredWord(imm) ==
  IF StoredReg(imm) \in Registers THEN StoredRegs(imm)[StoredReg(imm)] ELSE Wrong
StoredValue(imm) == IF imm THEN Imm ELSE value[Last(operands)]

StoreValue(imm, c) ==
  /\ Running
  /\ IF imm THEN operands = <<>> ELSE Prelude \/ Len(operands) = 1
  /\ content' = [content EXCEPT ![c] = StoredValue(imm)]
  /\ operands' = IF imm THEN operands ELSE Popped(1)
  /\ var_state' = StoredVars(imm)
  /\ UNCHANGED <<names, value, points, elements, ret, reg_state, stack_state,
                 ptr_state, phase>>

StoreGlobal(imm, g) ==
  /\ ~Prelude
  /\ GlobalDims[g] = <<>>
  /\ StoreValue(imm, Cell(g, 0))
  /\ regs' = [StoredRegs(imm) EXCEPT ![5] = Wrong]
  /\ data' = [data EXCEPT ![Cell(g, 0)] = StoredWord(imm)]
  /\ UNCHANGED stack

(* The parameters are stored each to its own alloca, the newest one.       *)
StoreInst(imm, p) ==
  /\ Prelude => p = names
  /\ StoreValue(imm, CellOf(p))
  /\ regs' = StoredRegs(imm)
  /\ stack' = Poke(stack, StackSize - ptr_state[p], StoredWord(imm))
  /\ UNCHANGED data

-----------------------------------------------------------------------------
(* Arithmetic.  The result takes r1 before the operands are looked up.     *)

(* The value of variable v that the code finds after GetReg(1).            *)
Operand(v) ==
  LET slots == GetRegSlots(1) IN
  IF GetRegVars(1)[v] = InStack
  THEN Peek(GetRegStack(1), Cardinality(DOMAIN slots) - slots[Cell(v, 0)])
  ELSE regs[GetRegVars(1)[v]]

Usable(v) == UseSpilled \/ GetRegVars(1)[v] # InStack

(* A register that an operand is reloaded in.                              *)
Reload(rs, r, v) ==
  IF GetRegVars(1)[v] = InStack THEN [rs EXCEPT ![r] = Operand(v)] ELSE rs

ResultInR1(used, temps, right) ==
  /\ names' = New
  /\ value' = Extend(value, New, New)
  /\ operands' = Append(Popped(used), New)
  /\ reg_state' = [reg_state EXCEPT ![1] = New]
  /\ var_state' = Assigned(1, New)
  /\ stack_state' = GetRegSlots(1)
  /\ stack' = GetRegStack(1)
  /\ regs' = [temps EXCEPT ![1] = IF right THEN New ELSE Wrong]
  /\ UNCHANGED <<content, points, elements, ret, ptr_state, data, phase>>

(* op lhs, rhs on two variables.  kMul emits an add; srem goes through r4. *)
BinaryOpInst(op) ==
  LET rhs   == Last(operands)
      lhs   == operands[Len(operands) - 1]
      found == Reload(Reload(regs, 2, lhs), 3, rhs)
  IN
  /\ Fresh /\ op \in RegOps /\ Len(operands) >= 2
  /\ Usable(lhs) /\ Usable(rhs)
  /\ ResultInR1(2,
       IF op = "rem" THEN [found EXCEPT ![4] = Wrong] ELSE found,
       op # "mul" /\ Operand(lhs) = value[lhs] /\ Operand(rhs) = value[rhs])

(* op imm, rhs: the variable becomes the first operand of the ARM          *)
(* instruction, which only add and (as rsb) sub compensate.  An immediate  *)
(* that is no imm8m is refused by the constructors of InsAdd, InsRsb;      *)
(* one over 16 bits, and every operand of the others, goes through r3.     *)
BinaryOpImm(op, imm) ==
  LET rhs   == Last(operands)
      found == Reload(regs, 2, rhs)
      temps == IF imm = "imm32" \/ op \notin {"add", "sub"}
               THEN [found EXCEPT ![3] = Imm] ELSE found
  IN
  /\ Fresh /\ op \in ImmOps /\ operands # <<>>
  /\ Usable(rhs)
  /\ ~(op \in {"add", "sub"} /\ imm = "imm16")
  /\ ResultInR1(1, IF op = "rem" THEN [temps EXCEPT ![4] = Wrong] ELSE temps,
                op \in {"add", "sub"} /\ Operand(rhs) = value[rhs])

(* The compilation ends with an exception: an immediate on the right is    *)
(* read from the left operand (bad_cast), or one is refused.               *)
BinaryOpThrows ==
  /\ Fresh /\ operands # <<>>
  /\ phase' = "thrown"
  /\ UNCHANGED <<ir, func, machine>>

-----------------------------------------------------------------------------
(* ret: sp is moved back over the words on the stack, then the value is    *)
(* put in r0.                                                              *)
Unwound(size) == SubSeq(stack, 1, Len(stack) - size)

RetValue(v) ==
  IF var_state[v] = InStack
  THEN Peek(Unwound(StackSize), StackSize - stack_state[Cell(v, 0)])
  ELSE regs[var_state[v]]

RetInst(has, imm) ==
  LET v == Last(operands) IN
  /\ Running /\ ~Prelude
  /\ IF has /\ ~imm THEN Len(operands) = 1 ELSE operands = <<>>
  /\ phase' = "returned"
  /\ stack' = Unwound(StackSize)
  /\ CASE ~has -> UNCHANGED <<ret, regs>>
       [] has /\ imm -> ret' = Imm /\ regs' = [regs EXCEPT ![0] = Imm]
       [] OTHER -> ret' = value[v] /\ regs' = [regs EXCEPT ![0] = RetValue(v)]
  /\ UNCHANGED <<names, value, content, points, elements, operands, func, data>>

(* The program is over, or has as many names as it may have.              *)
Stopped == (~Running \/ names = MaxNames) /\ UNCHANGED vars

IndicesOf(dims)  == [DOMAIN dims -> 0 .. Size(dims) - 1]
Indices(p)       == IndicesOf(points[p].dims)
GlobalIndices(g) == IndicesOf(GlobalDims[g])

Next ==
  \/ \E dims \in Dims \cup {<<>>} : AllocaInst(dims)
  \/ \E p \in Pointers : BitcastInst(p)
  \/ \E p \in Pointers :
       \E idx \in 0 .. Size(points[points[p].base].dims) - 1 : ElementInst(p, idx)
  \/ \E p \in Pointers : \E idx \in Indices(p) : GetelementptrInst(p, idx)
  \/ \E g \in Globals : \E idx \in GlobalIndices(g) : GetelementptrGlobal(g, idx)
  \/ \E g \in Globals : LoadGlobal(g)
  \/ \E p \in Addresses : LoadInst(p)
  \/ \E imm \in BOOLEAN, g \in Globals : StoreGlobal(imm, g)
  \/ \E imm \in BOOLEAN, p \in Addresses : StoreInst(imm, p)
  \/ \E op \in Ops : BinaryOpInst(op)
  \/ \E op \in Ops, imm \in Imms : BinaryOpImm(op, imm)
  \/ BinaryOpThrows
  \/ \E has, imm \in BOOLEAN : RetInst(has, imm)
  \/ Stopped

Spec == Init /\ [][Next]_vars

-----------------------------------------------------------------------------
(* The variables have the shapes the code's tables have: the names in a    *)
(* table exist, and its numbers are registers, -1, or offsets.             *)
Vals == {Undef, Imm, Wrong} \cup Nat
TypeOK ==
  /\ names \in Nat /\ phase \in {"run", "returned", "thrown"}
  /\ operands \in Seq(1 .. names)
  /\ reg_state \in [Registers -> 0 .. names]
  /\ DOMAIN var_state \subseteq 1 .. names
  /\ \A n \in DOMAIN var_state : var_state[n] \in Registers \cup {InStack}
  /\ DOMAIN stack_state \subseteq (1 .. names) \X Nat
  /\ \A c \in DOMAIN stack_state : stack_state[c] \in Nat
  /\ Pointers \cup Elements \subseteq DOMAIN ptr_state \cap (1 .. names)
  /\ DOMAIN ptr_state \subseteq Pointers \cup Elements \cup Globals
  /\ regs \in [Registers -> Vals]
  /\ stack \in Seq(Vals) /\ data \in [GlobalCells -> Vals]

(* Every sub, push and add of sp the translator emits is counted in        *)
(* stack_state, the only thing it computes offsets from: the frame has as  *)
(* many words as the table has entries, and ret leaves sp where the        *)
(* function found it, so that pop takes the saved fp and lr.               *)
SpMatchesTable ==
  /\ Running => Len(stack) = StackSize
  /\ phase = "returned" => stack = <<>>

(* reg_state and var_state tell the same story: no two variables share a   *)
(* register, no variable is in two, and none is forgotten when another     *)
(* takes its register.  (Register 0 is nobody's: parameters are looked up  *)
(* there without an entry.)                                                *)
RegistersAgree ==
  /\ \A r \in Registers : reg_state[r] # NoName =>
       reg_state[r] \in DOMAIN var_state /\ var_state[reg_state[r]] = r
  /\ \A n \in DOMAIN var_state : var_state[n] > 0 => reg_state[var_state[n]] = n

(* A store or a ret never meets a variable that has been pushed, which     *)
(* TranslateStoreInst could not reload and TranslateRetInst would look for *)
(* in a frame that is gone: the value just computed is in a register.      *)
TopInRegister ==
  ~Prelude /\ operands # <<>> => var_state[Last(operands)] # InStack

(* The register a variable is said to be in holds the variable's value,    *)
(* unless it was loaded from a global array (UseElements).                 *)
RegistersHold ==
  \A r \in Registers : reg_state[r] # NoName => regs[r] = value[reg_state[r]]

(* The word of the data section that a global variable or an element of a  *)
(* global array has holds what the IR's memory does.  getelementptr        *)
(* "is used to get the address of a subelement of an aggregate data        *)
(* structure" (doc/IR Reference.md), and that structure may be global.     *)
GlobalsHold == \A c \in GlobalCells : data[c] = content[c]

(* The word a pointer into the frame stands for holds what the IR's memory *)
(* does, however many words were pushed since it was allocated; so do the  *)
(* globals.  What is stored through a pointer into a global array goes to  *)
(* the frame instead, so this holds only without UseElements.              *)
MemoryHolds ==
  /\ Running => \A p \in Pointers :
       Peek(stack, StackSize - ptr_state[p]) = content[CellOf(p)]
  /\ GlobalsHold

(* A variable that has been pushed is at the offset recorded for it.       *)
PushedWhereRecorded ==
  Running => \A n \in DOMAIN var_state : var_state[n] = InStack =>
    stack_state[Cell(n, 0)] \in DOMAIN stack
      /\ stack[stack_state[Cell(n, 0)]] = value[n]

-----------------------------------------------------------------------------
(* IRBlock's state, read off the machine: a name that has a register is    *)
(* worth what the register holds, a cell is a word of the data section or  *)
(* of the stack, at the offset of its alloca.                              *)
Held(n) ==
  IF \E r \in Registers : reg_state[r] = n
  THEN regs[CHOOSE r \in Registers : reg_state[r] = n]
  ELSE value[n]

Word(c) ==
  IF c[1] \in Globals THEN data[c]
  ELSE Peek(stack, StackSize - (ptr_state[c[1]] + c[2]))

Reachable ==
  IF phase = "returned" THEN GlobalCells ELSE DOMAIN content

BlockValue   == [n \in DOMAIN value |-> Held(n)]
BlockPoints  == [p \in Pointers \cup Elements |-> CellOf(p)]
BlockContent == [c \in Reachable |-> Word(c)]
BlockRet     == IF ret = Undef THEN Undef ELSE regs[0]

Block == INSTANCE IRBlock WITH
  Sizes   <- {Size(d) : d \in Dims \cup {<<>>}},
  value   <- BlockValue,
  points  <- BlockPoints,
  content <- BlockContent,
  ret     <- BlockRet,
  over    <- ~Running

(* The code does to the machine what the block says: each instruction      *)
(* changes the one word its cell lies in and no register that still holds  *)
(* another name, whatever it pushes, overwrites or reloads on the way, and *)
(* the caller finds the result in r0 (asm.cc: TranslateInst).  Elements of *)
(* global arrays are left out: without UseElements.                        *)
ImplementsBlock == Block!Spec
=============================================================================
