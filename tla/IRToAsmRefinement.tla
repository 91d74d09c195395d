------------------------- MODULE IRToAsmRefinement -------------------------
(***************************************************************************)
(* Machine-checked proof that the machine code of a basic block does what  *)
(* the block says (ImplementsBlock), for the forms of IR the translator    *)
(* gets right, whatever the number of names, arrays, globals and spills.   *)
(***************************************************************************)
EXTENDS IRToAsmProofs

(* What the block may use.  Each line leaves out one form for which the    *)
(* code is known to be wrong: a second parameter (stored from register 0   *)
(* like the first), a product (emitted as a sum), an immediate on the left *)
(* of an operator that does not commute with the swap, an operand that has *)
(* been pushed, an element of a global array (looked for in the frame),    *)
(* and a third dimension.                                                  *)
Supported ==
  /\ NumParams <= 1
  /\ "mul" \notin RegOps
  /\ ImmOps \subseteq {"add", "sub"}
  /\ ~UseSpilled
  /\ ~UseElements
  /\ \A d \in Dims : Len(d) <= 2
  /\ \A g \in Globals : Len(GlobalDims[g]) <= 2

-----------------------------------------------------------------------------
(* The inductive invariant: IInv, and how values and memory correspond.    *)

Bases        == {p \in Pointers : points[p].base = p}
Allocated    == UNION {Cells(b, Size(points[b].dims)) : b \in Bases}
FrameCell(p) == Cell(points[p].base, points[p].cell)
Position(c)  == ptr_state[c[1]] + c[2]

(* Variables, pointers and pushed variables have names of their own, so    *)
(* that the keys of stack_state never clash and GetReg always pushes.      *)
NamesApart ==
  /\ NumParams <= names
  /\ DOMAIN value \subseteq 1 .. names /\ DOMAIN value \cap Pointers = {}
  /\ DOMAIN var_state \subseteq DOMAIN value
  /\ \A c \in DOMAIN stack_state :
       \/ c[1] \in Pointers
       \/ c[1] \in DOMAIN var_state /\ var_state[c[1]] = InStack

(* Until its store the parameterr is where the caller put it.               *)
ParameterHeld ==
  Prelude => /\ operands = <<1>> /\ var_state = <<>>
             /\ 1 \in DOMAIN value /\ regs[0] = value[1]

OperandsPlaced ==
  ~Prelude => \A k \in DOMAIN operands :
    operands[k] \in DOMAIN var_state /\ var_state[operands[k]] # 0

(* r2 .. r5 and r8 are scratch: no variable is ever given one.             *)
ResultRegisters ==
  \A r \in Registers : reg_state[r] # NoName => r \in {1, 6, 7}

PointersPlaced ==
  \A p \in Pointers :
    /\ p \notin Elements
    /\ points[p].base \in Bases
    /\ FrameCell(p) \in Allocated
    /\ points[p].dims # <<>> => p \in Bases
    /\ p \in Bases => points[p].cell = 0 /\ points[p].dims \in Dims \cup {<<>>}
    /\ ptr_state[p] \in Nat /\ ptr_state[p] = Position(FrameCell(p))

CellsHold ==
  /\ DOMAIN content = GlobalCells \cup Allocated
  /\ \A c \in GlobalCells : data[c] = content[c]
  /\ Running => \A c \in Allocated :
       Position(c) \in 1 .. Len(stack) /\ stack[Position(c)] = content[c]

CellsApart == \A c, d \in Allocated : Position(c) = Position(d) => c = d

ResultHolds == ret # Undef => ~Running /\ regs[0] = ret

Correspondence ==
  /\ NamesApart
  /\ ParameterHeld
  /\ OperandsPlaced
  /\ ResultRegisters
  /\ RegistersHold
  /\ PointersPlaced
  /\ CellsHold
  /\ CellsApart
  /\ ResultHolds

-----------------------------------------------------------------------------
(* Facts about values and memory in a state that satisfies the invariant.  *)

(* GetReg never overwrites a word of the stack: the variable that it takes *)
(* a register from has not been pushed before.                             *)
LEMMA GetRegOnlyPushes ==
  ASSUME IInv, NamesApart, NEW id \in Registers \ {0}
  PROVE  /\ GetRegStack(id) \in {stack, Append(stack, regs[id])}
         /\ \A c \in DOMAIN GetRegSlots(id) :
              \/ c \in DOMAIN stack_state
              \/ c[1] \in DOMAIN var_state /\ c[1] = Evicted(id)
         /\ Evicted(id) # NoName =>
              Evicted(id) \in DOMAIN var_state /\ var_state[Evicted(id)] = id
<1> DEFINE n == Evicted(id)
<1>1. n # NoName => n \in DOMAIN var_state /\ var_state[n] = id
  BY DEF IInv, RegistersAgree, Evicted
<1>2. CASE n = NoName
  <2>1. GetRegSlots(id) = stack_state /\ GetRegStack(id) = stack
    BY <1>2 DEF GetRegSlots, GetRegStack, Pushes
  <2>2. QED
    BY <1>1, <2>1
<1>3. CASE n # NoName
  <2>1. Pushes(id)
    <3>1. n \notin Pointers
      BY <1>1, <1>3 DEF NamesApart
    <3>2. var_state[n] # InStack
      BY <1>1, <1>3 DEF InStack, Registers
    <3>3. Cell(n, 0)[1] = n
      BY DEF Cell
    <3>4. QED
      BY <1>3, <3>1, <3>2, <3>3 DEF NamesApart, Pushes
  <2>2. GetRegStack(id) = Append(stack, regs[id])
    BY <1>3, <2>1, ZenonT(30) DEF GetRegStack
  <2>3. DOMAIN GetRegSlots(id) = DOMAIN stack_state \cup {Cell(n, 0)}
    BY <2>1 DEF GetRegSlots, Extend
  <2>4. Cell(n, 0)[1] = n
    BY DEF Cell
  <2>5. QED
    BY <1>1, <1>3, <2>2, <2>3, <2>4
<1>4. QED
  BY <1>2, <1>3

(* Cells of globals are no cells of the frame.                             *)
LEMMA GlobalCellNamed ==
  ASSUME NEW c \in GlobalCells
  PROVE  c[1] \in Globals
<1>1. PICK g \in Globals : c \in Cells(g, Size(GlobalDims[g]))
  BY DEF GlobalCells
<1>2. QED
  BY <1>1 DEF Cells, Cell

(* What is in the words below a push stays there.                          *)
LEMMA PushedAbove ==
  ASSUME NEW st \in Seq(Vals), NEW w \in Vals, NEW t \in {st, Append(st, w)}
  PROVE  /\ t \in Seq(Vals) /\ Len(t) >= Len(st)
         /\ \A i \in 1 .. Len(st) : i \in 1 .. Len(t) /\ t[i] = st[i]
OBVIOUS

LEMMA ConcatValues ==
  ASSUME NEW S, NEW s \in Seq(S), NEW t \in Seq(S)
  PROVE  /\ Len(s \o t) = Len(s) + Len(t)
         /\ \A i \in 1 .. Len(s) : (s \o t)[i] = s[i]
         /\ \A i \in 1 .. Len(t) : (s \o t)[Len(s) + i] = t[i]
OBVIOUS

(* The pointers that are used lead into the frame.                         *)
LEMMA AddressesInFrame ==
  ASSUME Supported, PointersPlaced
  PROVE  /\ Addresses \subseteq Pointers
         /\ \A p \in Pointers : CellOf(p) = FrameCell(p)
BY DEF Supported, Addresses, PointersPlaced, CellOf, FrameCell

(* The word of the frame that a pointer stands for.                        *)
LEMMA WordOfPointer ==
  ASSUME IInv, PointersPlaced, CellsHold, Running, NEW p \in Pointers
  PROVE  /\ ptr_state[p] \in 1 .. Len(stack)
         /\ stack[ptr_state[p]] = content[FrameCell(p)]
         /\ FrameCell(p) \in DOMAIN content
<1>1. FrameCell(p) \in Allocated /\ ptr_state[p] = Position(FrameCell(p))
  BY DEF PointersPlaced
<1>2. QED
  BY <1>1 DEF CellsHold

(* An operand that has not been pushed is found in its register.           *)
LEMMA OperandFound ==
  ASSUME IInv, Correspondence, ~Prelude, ~UseSpilled,
         NEW k \in DOMAIN operands, Usable(operands[k])
  PROVE  Operand(operands[k]) = value[operands[k]]
<1> DEFINE v == operands[k]
<1>1. v \in DOMAIN var_state /\ var_state[v] # 0
  BY DEF Correspondence, OperandsPlaced
<1>2. GetRegVars(1)[v] # InStack
  BY DEF Usable
<1>3. GetRegVars(1)[v] = var_state[v]
  <2>1. CASE Evicted(1) = NoName
    BY <2>1 DEF GetRegVars
  <2>2. CASE Evicted(1) # NoName
    <3>1. GetRegVars(1) = [var_state EXCEPT ![Evicted(1)] = InStack]
      BY <2>2 DEF GetRegVars
    <3> HIDE DEF v
    <3>2. QED
      BY <1>1, <1>2, <3>1
  <2>3. QED
    BY <2>1, <2>2
<1>4. var_state[v] \in Registers /\ var_state[v] > 0
  <2>1. var_state[v] \in Registers \cup {InStack}
    BY <1>1 DEF IInv, TypeOK
  <2>2. QED
    BY <1>1, <1>2, <1>3, <2>1 DEF Registers
<1>5. reg_state[var_state[v]] = v
  BY <1>1, <1>4 DEF IInv, RegistersAgree
<1>6. v # NoName
  <2>1. v \in 1 .. names /\ names \in Nat
    BY DEF IInv, TypeOK
  <2>2. QED
    BY <2>1 DEF NoName
<1>7. regs[var_state[v]] = value[v]
  BY <1>4, <1>5, <1>6 DEF Correspondence, RegistersHold
<1>8. Operand(v) = regs[GetRegVars(1)[v]]
  BY <1>2 DEF Operand
<1>9. QED
  BY <1>3, <1>7, <1>8

(* The cells of the arrays, one by one.                                    *)
LEMMA CellsOfBases ==
  /\ \A c \in Allocated :
       /\ c[1] \in Bases /\ c[2] \in 0 .. Size(points[c[1]].dims) - 1
       /\ c = Cell(c[1], c[2])
  /\ \A b \in Bases : \A i \in 0 .. Size(points[b].dims) - 1 :
       Cell(b, i) \in Allocated
<1>1. ASSUME NEW c \in Allocated
      PROVE  /\ c[1] \in Bases /\ c[2] \in 0 .. Size(points[c[1]].dims) - 1
             /\ c = Cell(c[1], c[2])
  <2>1. PICK b \in Bases : c \in Cells(b, Size(points[b].dims))
    BY <1>1 DEF Allocated
  <2>2. PICK i \in 0 .. Size(points[b].dims) - 1 : c = Cell(b, i)
    BY <2>1 DEF Cells
  <2>3. c[1] = b /\ c[2] = i
    BY <2>2 DEF Cell
  <2>4. QED
    BY <2>1, <2>2, <2>3
<1>2. ASSUME NEW b \in Bases, NEW i \in 0 .. Size(points[b].dims) - 1
      PROVE  Cell(b, i) \in Allocated
  BY <1>2 DEF Allocated, Cells
<1>3. QED
  BY <1>1, <1>2

LEMMA GlobalApart ==
  ASSUME IInv, NEW c \in GlobalCells
  PROVE  c \notin Allocated
<1>1. Pointers \subseteq Nat
  BY DEF IInv, TypeOK
<1>2. \A d \in Allocated : d[1] \in Nat
  BY <1>1, CellsOfBases DEF Bases
<1>3. QED
  BY <1>2, GlobalCellNamed, GlobalsAssumption

(* Every array has a positive number of words.                             *)
LEMMA SizePositive ==
  ASSUME NEW dims \in Dims \cup {<<>>}
  PROVE  Size(dims) \in Nat \ {0}
BY DimsAssumption

(* The value a store writes is what its register holds.                    *)
LEMMA StoredRight ==
  ASSUME IInv, Correspondence, NEW imm \in BOOLEAN, NEW c, StoreValue(imm, c)
  PROVE  StoredWord(imm) = StoredValue(imm)
<1> DEFINE v == Last(operands)
<1>0. /\ operands \in Seq(1 .. names) /\ names \in Nat
      /\ regs \in [Registers -> Vals] /\ NumParams \in Nat
      /\ Registers = 0 .. 9
  BY NumParamsAssumption DEF IInv, TypeOK, Registers
<1>1. CASE imm
  BY <1>0, <1>1 DEF StoredWord, StoredValue, StoredReg, StoredRegs
<1>2. CASE ~imm /\ Prelude
  <2>1. operands = <<1>> /\ var_state = <<>> /\ regs[0] = value[1]
    BY <1>2 DEF Correspondence, ParameterHeld
  <2>2. v = 1
    BY <2>1 DEF Last
  <2>3. StoredReg(imm) = 0
    BY <1>2, <2>1 DEF StoredReg, RegOf
  <2>4. StoredWord(imm) = regs[0]
    BY <1>0, <1>2, <2>3 DEF StoredWord, StoredRegs
  <2>5. QED
    BY <1>2, <2>1, <2>2, <2>4 DEF StoredValue
<1>3. CASE ~imm /\ ~Prelude
  <2>1. Len(operands) = 1
    BY <1>3 DEF StoreValue
  <2>2. /\ v = operands[1] /\ 1 \in DOMAIN operands /\ operands # <<>>
        /\ v \in 1 .. names
    <3>1. operands # <<>>
      <4>1. operands # <<>> <=> Len(operands) >= 1
        BY <1>0, NonEmpty
      <4>2. QED
        BY <2>1, <4>1
    <3>2. QED
      BY <1>0, <2>1, <3>1, LastIsElement
  <2> HIDE DEF v
  <2>3. v \in DOMAIN var_state /\ var_state[v] # 0
    BY <1>3, <2>2 DEF Correspondence, OperandsPlaced
  <2>4. var_state[v] # InStack
    BY <1>3, <2>2 DEF IInv, TopInRegister, v
  <2>5. var_state[v] \in Registers /\ var_state[v] > 0
    <3>1. var_state[v] \in Registers \cup {InStack}
      BY <2>3 DEF IInv, TypeOK
    <3>2. QED
      BY <1>0, <2>3, <2>4, <3>1
  <2>6. reg_state[var_state[v]] = v /\ v # NoName
    BY <1>0, <2>2, <2>3, <2>5 DEF IInv, RegistersAgree, NoName
  <2>7. regs[var_state[v]] = value[v]
    BY <2>5, <2>6 DEF Correspondence, RegistersHold
  <2>8. StoredWord(imm) = regs[var_state[v]]
    BY <1>3, <2>3, <2>5 DEF StoredWord, StoredReg, StoredRegs, RegOf, v
  <2>9. QED
    BY <1>3, <2>7, <2>8 DEF StoredValue, v
<1>4. QED
  BY <1>1, <1>2, <1>3

-----------------------------------------------------------------------------
(* Initially.                                                              *)
LEMMA InitCorrespondence ==
  ASSUME Supported, Init
  PROVE  Correspondence
<1> USE NumParamsAssumption DEF Init
<1>0. Pointers = {} /\ Elements = {} /\ Allocated = {} /\ NumParams \in {0, 1} /\ Running
  BY DEF Pointers, Elements, Bases, Allocated, Supported, Running
<1>1. NamesApart
  BY <1>0 DEF NamesApart
<1>2. ParameterHeld /\ OperandsPlaced
  <2>1. CASE NumParams = 0
    <3>1. operands = <<>> /\ DOMAIN operands = {}
      BY <2>1
    <3>2. QED
      BY <3>1 DEF ParameterHeld, OperandsPlaced, Prelude
  <2>2. CASE NumParams = 1
    <3>1. operands = <<1>> /\ regs[0] = 1 /\ value[1] = 1 /\ 1 \in DOMAIN value
      BY <2>2 DEF Registers
    <3>2. Prelude
      BY <2>2, <3>1 DEF Prelude, Last
    <3>3. QED
      BY <3>1, <3>2 DEF ParameterHeld, OperandsPlaced
  <2>3. QED
    BY <1>0, <2>1, <2>2
<1>3. ResultRegisters /\ RegistersHold
  BY DEF ResultRegisters, RegistersHold
<1>4. PointersPlaced /\ CellsApart
  BY <1>0 DEF PointersPlaced, CellsApart
<1>5. CellsHold
  <2>1. DOMAIN content = GlobalCells
    OBVIOUS
  <2>2. \A c \in GlobalCells : data[c] = Undef /\ content[c] = Undef
    OBVIOUS
  <2>3. QED
    BY <1>0, <2>1, <2>2 DEF CellsHold
<1>6. ResultHolds
  BY DEF ResultHolds
<1>7. QED
  BY <1>1, <1>2, <1>3, <1>4, <1>5, <1>6 DEF Correspondence

-----------------------------------------------------------------------------
(* Memory is untouched, and the stack at most longer.                      *)
LEMMA MemoryKept ==
  ASSUME IInv, PointersPlaced, CellsHold, CellsApart,
         UNCHANGED <<content, points, elements, ptr_state, data>>,
         Running' => /\ Running /\ Len(stack') \in Nat
                     /\ \A i \in 1 .. Len(stack) :
                          i \in 1 .. Len(stack') /\ stack'[i] = stack[i]
  PROVE  PointersPlaced' /\ CellsHold' /\ CellsApart'
<1>1. /\ Pointers' = Pointers /\ Elements' = Elements
      /\ Bases' = Bases /\ Allocated' = Allocated
      /\ \A p : FrameCell(p)' = FrameCell(p)
      /\ \A c : Position(c)' = Position(c)
  BY DEF Pointers, Elements, Bases, Allocated, FrameCell, Position
<1>2. PointersPlaced'
  BY <1>1 DEF PointersPlaced
<1>3. CellsHold'
  BY <1>1 DEF CellsHold
<1>4. CellsApart'
  BY <1>1 DEF CellsApart
<1>5. QED
  BY <1>2, <1>3, <1>4

(* A new temporary in a result register: the others keep their values, the *)
(* one that was there is pushed.                                           *)
LEMMA NewTemporaryHolds ==
  ASSUME IInv, Correspondence, Running, ~Prelude,
         NEW id \in {1, 6, 7}, NEW v, NEW q \in Seq(1 .. names),
         \A k \in DOMAIN q : \E j \in DOMAIN operands : q[k] = operands[j],
         names' = New, value' = Extend(value, New, v),
         operands' = Append(q, New),
         reg_state' = [reg_state EXCEPT ![id] = New],
         var_state' = Assigned(id, New),
         stack_state' = GetRegSlots(id), stack' = GetRegStack(id),
         regs'[id] = v,
         \A r \in {1, 6, 7} \ {id} : regs'[r] = regs[r],
         UNCHANGED <<content, points, elements, ret, ptr_state, data, phase>>
  PROVE  Correspondence'
<1>0. /\ names \in Nat /\ New = names + 1 /\ names' = names + 1
      /\ NumParams \in Nat /\ NumParams <= names
      /\ id \in Registers \ {0} /\ id \in Registers /\ InStack = -1
      /\ regs[id] \in Vals /\ stack \in Seq(Vals)
  <2>1. names \in Nat /\ regs \in [Registers -> Vals] /\ stack \in Seq(Vals)
    BY DEF IInv, TypeOK
  <2>2. NumParams \in Nat /\ NumParams <= names
    BY NumParamsAssumption DEF Correspondence, NamesApart
  <2>3. id \in Registers \ {0} /\ id \in Registers
    BY DEF Registers
  <2>4. QED
    BY <2>1, <2>2, <2>3 DEF New, InStack
<1>1. /\ NamesApart /\ OperandsPlaced /\ ResultRegisters /\ RegistersHold
      /\ PointersPlaced /\ CellsHold /\ CellsApart /\ ResultHolds
  BY DEF Correspondence
<1>2. /\ GetRegStack(id) \in {stack, Append(stack, regs[id])}
      /\ \A c \in DOMAIN GetRegSlots(id) :
           \/ c \in DOMAIN stack_state
           \/ c[1] \in DOMAIN var_state /\ c[1] = Evicted(id)
      /\ Evicted(id) # NoName =>
           Evicted(id) \in DOMAIN var_state /\ var_state[Evicted(id)] = id
  BY <1>0, <1>1, GetRegOnlyPushes
<1>3. /\ DOMAIN var_state \subseteq DOMAIN value
      /\ DOMAIN value \subseteq 1 .. names /\ New \notin DOMAIN value
      /\ DOMAIN value' = DOMAIN value \cup {New}
      /\ value'[New] = v /\ \A n \in DOMAIN value : value'[n] = value[n]
  BY <1>0, <1>1 DEF NamesApart, Extend
<1>4. /\ DOMAIN var_state' = DOMAIN var_state \cup {New}
      /\ var_state'[New] = id
      /\ \A n \in DOMAIN var_state :
           var_state'[n] = IF n = Evicted(id) THEN InStack ELSE var_state[n]
  <2>1. DOMAIN GetRegVars(id) = DOMAIN var_state
    BY DEF GetRegVars
  <2>2. \A n \in DOMAIN var_state :
          GetRegVars(id)[n] = IF n = Evicted(id) THEN InStack ELSE var_state[n]
    <3>1. NoName \notin DOMAIN var_state
      BY <1>0, <1>3 DEF NoName
    <3>2. QED
      BY <3>1 DEF GetRegVars
  <2>3. New \notin DOMAIN var_state
    BY <1>3
  <2>4. QED
    BY <2>1, <2>2, <2>3 DEF Assigned, Extend
<1>5. NamesApart'
  <2>1. Pointers' = Pointers /\ Pointers \subseteq 1 .. names
    BY DEF IInv, TypeOK, Pointers
  <2>2. NumParams <= names' /\ DOMAIN value' \subseteq 1 .. names'
    <3>1. New \in 1 .. names' /\ 1 .. names \subseteq 1 .. names'
      BY <1>0
    <3>2. NumParams <= names'
      BY <1>0
    <3>3. QED
      BY <1>3, <3>1, <3>2
  <2>3. DOMAIN value' \cap Pointers' = {}
    <3>1. New \notin Pointers
      BY <1>0, <2>1
    <3>2. QED
      BY <1>1, <1>3, <2>1, <3>1 DEF NamesApart
  <2>4. DOMAIN var_state' \subseteq DOMAIN value'
    BY <1>3, <1>4
  <2>5. ASSUME NEW c \in DOMAIN stack_state'
        PROVE  \/ c[1] \in Pointers'
               \/ c[1] \in DOMAIN var_state' /\ var_state'[c[1]] = InStack
    <3>1. CASE c \in DOMAIN stack_state
      BY <1>1, <1>4, <2>1, <3>1 DEF NamesApart
    <3>2. CASE c[1] \in DOMAIN var_state /\ c[1] = Evicted(id)
      BY <1>4, <3>2
    <3>3. QED
      BY <1>2, <3>1, <3>2
  <2>6. QED
    BY <2>2, <2>3, <2>4, <2>5 DEF NamesApart
<1>6. ~Prelude' /\ \A k \in DOMAIN operands' :
        operands'[k] = New \/ \E j \in DOMAIN operands : operands'[k] = operands[j]
  <2>1. /\ operands' \in Seq(Nat) /\ operands' # <<>>
        /\ operands'[Len(operands')] = New
        /\ \A k \in DOMAIN operands' :
             operands'[k] = New \/ (k \in DOMAIN q /\ operands'[k] = q[k])
    BY SMTT(30), <1>0
  <2>2. Last(operands') = New
    BY <2>1 DEF Last
  <2>3. ~(New <= NumParams)
    BY <1>0
  <2>4. QED
    BY <2>1, <2>2, <2>3 DEF Prelude
<1>7. ParameterHeld' /\ OperandsPlaced'
  <2>1. ASSUME NEW k \in DOMAIN operands'
        PROVE  operands'[k] \in DOMAIN var_state' /\ var_state'[operands'[k]] # 0
    <3>1. CASE operands'[k] = New
      BY <1>0, <1>4, <3>1
    <3>2. CASE \E j \in DOMAIN operands : operands'[k] = operands[j]
      BY <1>0, <1>1, <1>4, <3>2 DEF OperandsPlaced
    <3>3. QED
      BY <1>6, <3>1, <3>2
  <2>2. QED
    BY <1>6, <2>1 DEF ParameterHeld, OperandsPlaced
<1>8. \A r \in Registers : reg_state'[r] = IF r = id THEN New ELSE reg_state[r]
  BY DEF IInv, TypeOK
<1>9. ResultRegisters' /\ RegistersHold'
  <2>1. ASSUME NEW r \in Registers, reg_state'[r] # NoName
        PROVE  r \in {1, 6, 7} /\ regs'[r] = value'[reg_state'[r]]
    <3>1. CASE r = id
      BY <1>3, <1>8, <3>1
    <3>2. CASE r # id
      <4>1. reg_state'[r] = reg_state[r] /\ r \in {1, 6, 7}
        BY <1>1, <1>8, <2>1, <3>2 DEF ResultRegisters
      <4>2. reg_state[r] \in DOMAIN value
        BY <1>3, <2>1, <4>1 DEF IInv, RegistersAgree
      <4>3. regs[r] = value[reg_state[r]]
        BY <1>1, <2>1, <4>1 DEF RegistersHold
      <4>4. QED
        BY <1>3, <3>2, <4>1, <4>2, <4>3
    <3>3. QED
      BY <3>1, <3>2
  <2>2. QED
    BY <2>1 DEF ResultRegisters, RegistersHold
<1>10. PointersPlaced' /\ CellsHold' /\ CellsApart'
  <2>1. /\ stack' \in Seq(Vals)
        /\ \A i \in 1 .. Len(stack) : i \in 1 .. Len(stack') /\ stack'[i] = stack[i]
    BY ZenonT(30), <1>0, <1>2, PushedAbove
  <2>2. Len(stack') \in Nat
    BY <2>1
  <2>3. QED
    BY <1>1, <2>1, <2>2, MemoryKept
<1>11. ResultHolds'
  BY <1>1 DEF ResultHolds, Running
<1>12. QED
  BY <1>5, <1>7, <1>9, <1>10, <1>11 DEF Correspondence

-----------------------------------------------------------------------------
(* One lemma per kind of instruction.                                      *)

LEMMA LoadHolds ==
  ASSUME IInv, Correspondence, NEW v, NEW temps \in [Registers -> Vals],
         \A r \in {1, 6, 7} : temps[r] = regs[r],
         LoadInto(LoadReg, v, v, temps)
  PROVE  Correspondence'
<1>1. LoadReg \in {1, 6, 7} /\ \A r \in {1, 6, 7} : r \in Registers
  BY DEF LoadReg, Registers
<1>2. operands \in Seq(1 .. names)
  BY DEF IInv, TypeOK
<1>3. Running /\ ~Prelude
  BY DEF LoadInto, Fresh
<1>4. /\ names' = New /\ value' = Extend(value, New, v)
      /\ operands' = Append(operands, New)
      /\ reg_state' = [reg_state EXCEPT ![LoadReg] = New]
      /\ var_state' = Assigned(LoadReg, New)
      /\ stack_state' = GetRegSlots(LoadReg) /\ stack' = GetRegStack(LoadReg)
      /\ regs' = [temps EXCEPT ![LoadReg] = v]
      /\ UNCHANGED <<content, points, elements, ret, ptr_state, data, phase>>
  BY DEF LoadInto
<1>5. regs'[LoadReg] = v /\ \A r \in {1, 6, 7} \ {LoadReg} : regs'[r] = regs[r]
  BY <1>1, <1>4
<1>6. \A k \in DOMAIN operands : \E j \in DOMAIN operands : operands[k] = operands[j]
  OBVIOUS
<1>7. QED
  BY <1>1, <1>2, <1>3, <1>4, <1>5, <1>6, NewTemporaryHolds

(* A global is loaded through r5.                                          *)
LEMMA LoadGlobalHolds ==
  ASSUME IInv, Correspondence, NEW g \in Globals, LoadGlobal(g)
  PROVE  Correspondence'
<1> DEFINE temps == [regs EXCEPT ![5] = Wrong]
<1>1. regs \in [Registers -> Vals] /\ Wrong \in Vals
  BY DEF IInv, TypeOK, Vals
<1>2. temps \in [Registers -> Vals] /\ \A r \in {1, 6, 7} : temps[r] = regs[r]
  BY <1>1 DEF Registers
<1>3. content[Cell(g, 0)] = data[Cell(g, 0)]
  BY GlobalCellOfInt DEF LoadGlobal, Correspondence, CellsHold
<1>4. LoadInto(LoadReg, content[Cell(g, 0)], content[Cell(g, 0)], temps)
  BY <1>3 DEF LoadGlobal
<1> HIDE DEF temps
<1>5. QED
  BY <1>2, <1>4, LoadHolds

(* The offset of a load counts the word that GetReg may have pushed.       *)
LEMMA LoadedWord ==
  ASSUME IInv, Correspondence, Running, NEW id \in Registers \ {0},
         NEW p \in Pointers
  PROVE  Peek(GetRegStack(id), Cardinality(DOMAIN GetRegSlots(id)) - ptr_state[p])
           = content[FrameCell(p)]
<1> DEFINE t == GetRegStack(id)
<1>1. /\ stack \in Seq(Vals) /\ regs[id] \in Vals /\ Len(stack) = StackSize
      /\ id \in Registers /\ TypeOK /\ FiniteTable
  BY DEF IInv, TypeOK, SpMatchesTable
<1>2. t \in {stack, Append(stack, regs[id])}
  BY GetRegOnlyPushes DEF Correspondence
<1>3. Len(t) = Cardinality(DOMAIN GetRegSlots(id))
  BY <1>1, GetRegTable
<1> HIDE DEF t
<1>4. t \in Seq(Vals) /\ \A i \in 1 .. Len(stack) : i \in 1 .. Len(t) /\ t[i] = stack[i]
  BY <1>1, <1>2, PushedAbove
<1>5. /\ ptr_state[p] \in 1 .. Len(stack)
      /\ stack[ptr_state[p]] = content[FrameCell(p)]
  BY WordOfPointer DEF Correspondence
<1>6. /\ Len(t) - (Len(t) - ptr_state[p]) = ptr_state[p]
      /\ ptr_state[p] \in DOMAIN t
      /\ t[ptr_state[p]] = content[FrameCell(p)]
  BY <1>1, <1>4, <1>5
<1>7. Peek(t, Len(t) - ptr_state[p]) = content[FrameCell(p)]
  BY <1>6 DEF Peek
<1>8. QED
  BY <1>3, <1>7 DEF t

LEMMA LoadInstHolds ==
  ASSUME Supported, IInv, Correspondence, NEW p \in Addresses, LoadInst(p)
  PROVE  Correspondence'
<1>1. LoadReg \in Registers \ {0} /\ Running
  BY DEF LoadReg, Registers, LoadInst, LoadInto, Fresh
<1>2. regs \in [Registers -> Vals]
  BY DEF IInv, TypeOK
<1>3. p \in Pointers /\ CellOf(p) = FrameCell(p)
  BY AddressesInFrame DEF Correspondence
<1>4. LoadInto(LoadReg, content[FrameCell(p)], content[FrameCell(p)], regs)
  BY <1>1, <1>3, LoadedWord DEF LoadInst
<1>5. QED
  BY <1>2, <1>4, LoadHolds

(* The operands are found, and the result is what the instruction says.    *)
LEMMA ResultHoldsInR1 ==
  ASSUME IInv, Correspondence, Fresh, NEW used \in 0 .. Len(operands),
         NEW temps \in [Registers -> Vals],
         \A r \in {1, 6, 7} : temps[r] = regs[r],
         ResultInR1(used, temps, TRUE)
  PROVE  Correspondence'
<1>1. 1 \in {1, 6, 7} /\ \A r \in {1, 6, 7} : r \in Registers
  BY DEF Registers
<1>2. operands \in Seq(1 .. names)
  BY DEF IInv, TypeOK
<1>3. Running /\ ~Prelude
  BY DEF Fresh
<1>4. /\ names' = New /\ value' = Extend(value, New, New)
      /\ operands' = Append(Popped(used), New)
      /\ reg_state' = [reg_state EXCEPT ![1] = New]
      /\ var_state' = Assigned(1, New)
      /\ stack_state' = GetRegSlots(1) /\ stack' = GetRegStack(1)
      /\ regs' = [temps EXCEPT ![1] = New]
      /\ UNCHANGED <<content, points, elements, ret, ptr_state, data, phase>>
  BY DEF ResultInR1
<1>5. regs'[1] = New /\ \A r \in {1, 6, 7} \ {1} : regs'[r] = regs[r]
  BY <1>1, <1>4
<1>6. /\ Popped(used) \in Seq(1 .. names)
      /\ \A k \in DOMAIN Popped(used) : \E j \in DOMAIN operands :
           Popped(used)[k] = operands[j]
  <2>1. /\ Popped(used) \in Seq(1 .. names)
        /\ Len(Popped(used)) = Len(operands) - used
        /\ \A i \in 1 .. Len(operands) - used : Popped(used)[i] = operands[i]
    BY <1>2, PoppedIsSeq
  <2>2. \A k \in DOMAIN Popped(used) : k \in DOMAIN operands
    BY <1>2, <2>1
  <2>3. QED
    BY <2>1, <2>2
<1>7. QED
  BY <1>1, <1>3, <1>4, <1>5, <1>6, NewTemporaryHolds

(* Operands are reloaded in r2 and r3 only.                                *)
LEMMA ReloadKeeps ==
  ASSUME NEW rs \in [Registers -> Vals], NEW r \in Registers, NEW v
  PROVE  \A s \in Registers \ {r} : Reload(rs, r, v)[s] = rs[s]
BY DEF Reload

LEMMA BinaryOpInstHolds ==
  ASSUME Supported, IInv, Correspondence, NEW op \in Ops, BinaryOpInst(op)
  PROVE  Correspondence'
<1> DEFINE rhs   == Last(operands)
           lhs   == operands[Len(operands) - 1]
           one   == Reload(regs, 2, lhs)
           found == Reload(one, 3, rhs)
           temps == IF op = "rem" THEN [found EXCEPT ![4] = Wrong] ELSE found
           right == op # "mul" /\ Operand(lhs) = value[lhs]
                      /\ Operand(rhs) = value[rhs]
<1>1. /\ TypeOK /\ FiniteTable /\ regs \in [Registers -> Vals]
      /\ operands \in Seq(1 .. names)
  BY DEF IInv, TypeOK
<1>2. /\ 2 \in Registers /\ 3 \in Registers /\ 4 \in Registers /\ Wrong \in Vals
      /\ \A r \in {1, 6, 7} : r \in Registers \ {2, 3, 4}
  BY DEF Registers, Vals
<1>3. one \in [Registers -> Vals] /\ \A r \in {1, 6, 7} : one[r] = regs[r]
  BY <1>1, <1>2, ReloadType, ReloadKeeps
<1> HIDE DEF one
<1>4. found \in [Registers -> Vals] /\ \A r \in {1, 6, 7} : found[r] = regs[r]
  BY <1>1, <1>2, <1>3, ReloadType, ReloadKeeps
<1>5. temps \in [Registers -> Vals] /\ \A r \in {1, 6, 7} : temps[r] = regs[r]
  <2> HIDE DEF found
  <2>1. QED
    BY <1>2, <1>4
<1>6. Fresh /\ 2 \in 0 .. Len(operands) /\ ~Prelude
  BY <1>1 DEF BinaryOpInst, Fresh
<1>7. right
  <2>1. op # "mul" /\ ~UseSpilled
    BY DEF BinaryOpInst, Supported
  <2>2. Usable(lhs) /\ Usable(rhs)
    BY DEF BinaryOpInst
  <2>3. /\ Len(operands) \in DOMAIN operands
        /\ Len(operands) - 1 \in DOMAIN operands
    BY <1>1, <1>6
  <2>4. rhs = operands[Len(operands)]
    BY DEF Last
  <2>5. Operand(lhs) = value[lhs]
    BY <1>6, <2>1, <2>2, <2>3, OperandFound
  <2>6. Operand(rhs) = value[rhs]
    <3> HIDE DEF rhs
    <3>1. QED
      BY <1>6, <2>1, <2>2, <2>3, <2>4, OperandFound
  <2>7. QED
    BY <2>1, <2>5, <2>6
<1>8. ResultInR1(2, temps, right)
  BY DEF BinaryOpInst, one
<1>9. ResultInR1(2, temps, TRUE)
  <2> HIDE DEF temps, lhs, rhs
  <2>1. right = TRUE
    BY <1>7
  <2> HIDE DEF right
  <2>2. QED
    BY <1>8, <2>1
<1> HIDE DEF temps, right
<1>10. QED
  BY <1>5, <1>6, <1>9, ResultHoldsInR1

LEMMA BinaryOpImmHolds ==
  ASSUME Supported, IInv, Correspondence,
         NEW op \in Ops, NEW imm \in Imms, BinaryOpImm(op, imm)
  PROVE  Correspondence'
<1> DEFINE rhs   == Last(operands)
           found == Reload(regs, 2, rhs)
           temps == IF imm = "imm32" \/ op \notin {"add", "sub"}
                    THEN [found EXCEPT ![3] = Imm] ELSE found
           used  == IF op = "rem" THEN [temps EXCEPT ![4] = Wrong] ELSE temps
           right == op \in {"add", "sub"} /\ Operand(rhs) = value[rhs]
<1>1. /\ TypeOK /\ FiniteTable /\ regs \in [Registers -> Vals]
      /\ operands \in Seq(1 .. names)
  BY DEF IInv, TypeOK
<1>2. /\ 2 \in Registers /\ Wrong \in Vals /\ Imm \in Vals
      /\ \A r \in {1, 6, 7} : r \in Registers \ {2, 3, 4}
  BY DEF Registers, Vals
<1>3. found \in [Registers -> Vals] /\ \A r \in {1, 6, 7} : found[r] = regs[r]
  BY <1>1, <1>2, ReloadType, ReloadKeeps
<1> HIDE DEF found
<1>4. temps \in [Registers -> Vals] /\ \A r \in {1, 6, 7} : temps[r] = regs[r]
  BY <1>2, <1>3
<1> HIDE DEF temps
<1>5. used \in [Registers -> Vals] /\ \A r \in {1, 6, 7} : used[r] = regs[r]
  BY <1>2, <1>4
<1>6. Fresh /\ 1 \in 0 .. Len(operands) /\ ~Prelude
  <2>1. operands # <<>> <=> Len(operands) >= 1
    BY <1>1, NonEmpty
  <2>2. Len(operands) \in Nat
    BY <1>1
  <2>3. QED
    BY <2>1, <2>2 DEF BinaryOpImm, Fresh
<1>7. right = TRUE
  <2>1. op \in {"add", "sub"} /\ ~UseSpilled /\ Usable(rhs)
    BY DEF BinaryOpImm, Supported
  <2>2. Len(operands) \in DOMAIN operands
    BY <1>1, <1>6
  <2>3. rhs = operands[Len(operands)]
    BY DEF Last
  <2> HIDE DEF rhs
  <2>4. Operand(rhs) = value[rhs]
    BY <1>6, <2>1, <2>2, <2>3, OperandFound
  <2>5. QED
    BY <2>1, <2>4
<1>8. ResultInR1(1, used, right)
  BY DEF BinaryOpImm, found, temps
<1> HIDE DEF used, right
<1>9. QED
  BY <1>5, <1>6, <1>7, <1>8, ResultHoldsInR1

(* Variables, operands and registers are untouched.                        *)
LEMMA VariablesKept ==
  ASSUME Correspondence, names \in Nat, names' \in {names, names + 1},
         DOMAIN value \cap Pointers' = {}, Pointers \subseteq Pointers',
         \A c \in DOMAIN stack_state' : c \in DOMAIN stack_state \/ c[1] \in Pointers',
         UNCHANGED <<value, operands, reg_state, var_state, regs>>
  PROVE  /\ NamesApart' /\ ParameterHeld' /\ OperandsPlaced'
         /\ ResultRegisters' /\ RegistersHold'
<1>1. NamesApart'
  <2>1. NumParams <= names' /\ 1 .. names \subseteq 1 .. names'
    BY NumParamsAssumption DEF Correspondence, NamesApart
  <2>2. QED
    BY <2>1 DEF Correspondence, NamesApart
<1>2. ParameterHeld' /\ OperandsPlaced'
  BY DEF Correspondence, ParameterHeld, OperandsPlaced, Prelude
<1>3. ResultRegisters' /\ RegistersHold'
  BY DEF Correspondence, ResultRegisters, RegistersHold
<1>4. QED
  BY <1>1, <1>2, <1>3

(* alloca: the words of the array are above all others.                    *)
LEMMA AllocaHolds ==
  ASSUME IInv, Correspondence, NEW dims \in Dims \cup {<<>>}, AllocaInst(dims)
  PROVE  Correspondence'
<1> DEFINE size  == Size(dims)
           cells == Cells(New, size)
           first == SlotsBase(StackSize)
           word  == [i \in 1 .. size |-> Undef]
<1>0. /\ names \in Nat /\ New = names + 1 /\ size \in Nat \ {0}
      /\ Len(stack) = StackSize /\ StackSize \in Nat /\ first = Len(stack) + 1
      /\ Pointers \subseteq 1 .. names /\ New \notin Pointers
      /\ New \notin Elements
      /\ stack \in Seq(Vals) /\ Running
  <2>1. /\ names \in Nat /\ stack \in Seq(Vals)
        /\ Pointers \subseteq 1 .. names /\ Elements \subseteq 1 .. names
        /\ Running /\ Len(stack) = StackSize
    BY DEF IInv, TypeOK, SpMatchesTable, AllocaInst
  <2>2. size \in Nat \ {0}
    BY SizePositive
  <2>3. StackSize \in Nat
    BY <2>1
  <2>4. QED
    BY <2>1, <2>2, <2>3 DEF New, SlotsBase
<1>1. /\ names' = New
      /\ points' = Extend(points, New, Place(New, 0, dims))
      /\ content' = [c \in DOMAIN content \cup cells |->
                       IF c \in cells THEN Undef ELSE content[c]]
      /\ stack_state' = [c \in DOMAIN stack_state \cup cells |->
                           IF c \in cells THEN first + c[2] ELSE stack_state[c]]
      /\ ptr_state' = Extend(ptr_state, New, first)
      /\ stack' = stack \o word
      /\ UNCHANGED <<value, elements, operands, ret, reg_state, var_state, regs,
                     data, phase>>
  BY DEF AllocaInst
<1>2. /\ NamesApart /\ PointersPlaced /\ CellsHold /\ CellsApart /\ ResultHolds
      /\ TypeOK
  BY DEF Correspondence, IInv
<1> HIDE DEF first, word, size
<1>3. /\ Pointers' = Pointers \cup {New}
      /\ \A p \in Pointers : points'[p] = points[p]
      /\ points'[New] = Place(New, 0, dims)
      /\ \A p \in Pointers : ptr_state'[p] = ptr_state[p]
      /\ ptr_state'[New] = first
  <2>1. Pointers \subseteq DOMAIN ptr_state
    BY <1>2 DEF TypeOK
  <2>2. QED
    BY <1>0, <1>1, <2>1 DEF Pointers, Extend
<1>4. /\ points'[New].base = New /\ points'[New].cell = 0
      /\ points'[New].dims = dims
  BY <1>3 DEF Place
<1>5. Bases' = Bases \cup {New} /\ New \notin Bases /\ Elements' = Elements
  BY <1>0, <1>1, <1>3, <1>4 DEF Bases, Elements
<1>6. /\ \A i \in 0 .. size - 1 : Cell(New, i) \in cells
      /\ \A c \in cells : c[1] = New /\ c[2] \in 0 .. size - 1 /\ c = Cell(c[1], c[2])
  BY DEF Cells, Cell
<1>7. Allocated' = Allocated \cup cells
  <2>1. Cells(New, Size(points'[New].dims)) = cells
    BY <1>4 DEF size
  <2>2. Allocated' = UNION {Cells(b, Size(points'[b].dims)) : b \in Bases'}
    BY DEF Allocated, Cells, Cell
  <2> HIDE DEF cells
  <2>3. \A b \in Bases : Cells(b, Size(points'[b].dims)) = Cells(b, Size(points[b].dims))
    BY <1>3 DEF Bases
  <2>4. QED
    BY <1>5, <2>1, <2>2, <2>3 DEF Allocated
<1> HIDE DEF cells
<1>8. \A c \in Allocated : c[1] \in Pointers /\ c[1] # New /\ c \notin cells
  <2>1. \A c \in Allocated : c[1] \in Pointers
    BY CellsOfBases DEF Bases
  <2>2. QED
    BY <1>0, <1>6, <2>1
<1>9. /\ \A c \in Allocated : Position(c)' = Position(c)
      /\ \A c \in cells : Position(c)' = first + c[2]
  BY <1>3, <1>6, <1>8 DEF Position
<1>10. /\ NamesApart' /\ ParameterHeld' /\ OperandsPlaced'
       /\ ResultRegisters' /\ RegistersHold'
  <2>1. DOMAIN value \cap Pointers' = {} /\ Pointers \subseteq Pointers'
    BY <1>0, <1>2, <1>3 DEF NamesApart
  <2>2. \A c \in DOMAIN stack_state' : c \in DOMAIN stack_state \/ c[1] \in Pointers'
    BY <1>1, <1>3, <1>6
  <2>3. QED
    BY <1>0, <1>1, <2>1, <2>2, VariablesKept
<1>11. PointersPlaced'
  <2>1. ASSUME NEW p \in Pointers
        PROVE  /\ p \notin Elements' /\ points'[p].base \in Bases'
               /\ FrameCell(p)' \in Allocated'
               /\ points'[p].dims # <<>> => p \in Bases'
               /\ p \in Bases' => points'[p].cell = 0 /\ points'[p].dims \in Dims \cup {<<>>}
               /\ ptr_state'[p] \in Nat /\ ptr_state'[p] = Position(FrameCell(p))'
    <3>1. FrameCell(p)' = FrameCell(p) /\ FrameCell(p) \in Allocated
      BY <1>2, <1>3 DEF FrameCell, PointersPlaced
    <3>2. Position(FrameCell(p))' = Position(FrameCell(p))
      BY <1>9, <3>1
    <3>3. p \in Bases' <=> p \in Bases
      BY <1>0, <1>5
    <3>4. QED
      BY <1>2, <1>3, <1>5, <1>7, <3>1, <3>2, <3>3 DEF PointersPlaced
  <2>2. ASSUME NEW p, p = New
        PROVE  /\ p \notin Elements' /\ points'[p].base \in Bases' /\ p \in Bases'
               /\ FrameCell(p)' \in Allocated'
               /\ ptr_state'[p] \in Nat /\ ptr_state'[p] = Position(FrameCell(p))'
    <3>1. FrameCell(p)' = Cell(p, 0)
      BY <1>4, <2>2 DEF FrameCell
    <3>2. Cell(p, 0) \in cells /\ Cell(p, 0)[2] = 0
      BY <1>0, <1>6, <2>2 DEF Cell
    <3>3. Position(Cell(p, 0))' = first
      BY <1>0, <1>9, <3>2
    <3>4. Position(FrameCell(p))' = first
      BY <3>1, <3>3 DEF Position, Cell, FrameCell
    <3>5. QED
      BY <1>0, <1>3, <1>4, <1>5, <1>7, <2>2, <3>1, <3>2, <3>4
  <2>3. ASSUME NEW p \in Pointers'
        PROVE  p \in Pointers \/ p = New
    BY <1>3
  <2>4. QED
    BY <1>4, <2>1, <2>2, <2>3 DEF PointersPlaced
<1>12. word \in Seq(Vals) /\ Len(word) = size /\ \A i \in 1 .. size : word[i] = Undef
  BY <1>0 DEF word, Vals
<1>13. /\ Len(stack') = Len(stack) + size
       /\ \A i \in 1 .. Len(stack) : stack'[i] = stack[i]
       /\ \A i \in 1 .. size : stack'[Len(stack) + i] = Undef
  <2>1. stack' = stack \o word
    BY <1>1
  <2>2. /\ Len(stack \o word) = Len(stack) + Len(word)
        /\ \A i \in 1 .. Len(stack) : (stack \o word)[i] = stack[i]
        /\ \A i \in 1 .. Len(word) : (stack \o word)[Len(stack) + i] = word[i]
    <3>1. stack \in Seq(Vals) /\ word \in Seq(Vals)
      BY <1>0, <1>12
    <3>2. QED
      BY <3>1, ConcatValues
  <2>3. QED
    BY <1>12, <2>1, <2>2
<1>14. CellsHold'
  <2>1. DOMAIN content' = GlobalCells' \cup Allocated'
    BY <1>1, <1>2, <1>7 DEF CellsHold
  <2>2. ASSUME NEW c \in GlobalCells
        PROVE  data'[c] = content'[c]
    <3>1. c \notin cells
      <4>1. New \in Nat
        BY <1>0
      <4>2. QED
        BY <1>6, <4>1, GlobalCellNamed, GlobalsAssumption
    <3>2. c \in DOMAIN content /\ data[c] = content[c]
      BY <1>2 DEF CellsHold
    <3>3. QED
      BY <1>1, <3>1, <3>2
  <2>3. ASSUME NEW c \in Allocated'
        PROVE  Position(c)' \in 1 .. Len(stack') /\ stack'[Position(c)'] = content'[c]
    <3>1. CASE c \in Allocated
      <4>1. Position(c) \in 1 .. Len(stack) /\ stack[Position(c)] = content[c]
        BY <1>0, <1>2, <3>1 DEF CellsHold
      <4>2. content'[c] = content[c]
        BY <1>1, <1>2, <1>8, <3>1 DEF CellsHold
      <4>3. Position(c)' = Position(c)
        BY <1>9, <3>1
      <4>4. Position(c) \in 1 .. Len(stack')
        BY <1>0, <1>13, <4>1
      <4>5. QED
        BY <1>13, <4>1, <4>2, <4>3, <4>4
    <3>2. CASE c \in cells
      <4>1. c[2] \in 0 .. size - 1 /\ content'[c] = Undef
        BY <1>1, <1>6, <3>2
      <4>2. Position(c)' = Len(stack) + (c[2] + 1) /\ c[2] + 1 \in 1 .. size
        BY SMTT(30), <1>0, <1>9, <3>2, <4>1
      <4>3. PICK k \in 1 .. size : k = c[2] + 1
        BY <4>2
      <4>4. Position(c)' = Len(stack) + k
        BY <4>2, <4>3
      <4>5. Len(stack) + k \in 1 .. Len(stack')
        BY <1>0, <1>13
      <4>6. stack'[Len(stack) + k] = Undef
        BY <1>13
      <4>7. QED
        BY <4>1, <4>4, <4>5, <4>6
    <3>3. QED
      BY <1>7, <3>1, <3>2
  <2>4. QED
    BY <2>1, <2>2, <2>3 DEF CellsHold
<1>15. CellsApart'
  <2>1. \A c \in Allocated : Position(c)' \in 1 .. Len(stack)
    BY <1>0, <1>2, <1>9 DEF CellsHold
  <2>2. \A c \in cells : Position(c)' > Len(stack)
    BY <1>0, <1>6, <1>9
  <2>3. ASSUME NEW c \in Allocated', NEW d \in Allocated',
               Position(c)' = Position(d)'
        PROVE  c = d
    <3>1. CASE c \in Allocated /\ d \in Allocated
      BY <1>2, <1>9, <2>3, <3>1 DEF CellsApart
    <3>2. CASE c \in cells /\ d \in cells
      <4>1. c[2] = d[2]
        BY <1>0, <1>6, <1>9, <2>3, <3>2
      <4>2. QED
        BY <1>6, <3>2, <4>1
    <3>3. CASE c \in Allocated /\ d \in cells
      BY <1>0, <2>1, <2>2, <2>3, <3>3
    <3>4. CASE c \in cells /\ d \in Allocated
      BY <1>0, <2>1, <2>2, <2>3, <3>4
    <3>5. QED
      BY <1>7, <3>1, <3>2, <3>3, <3>4
  <2>4. QED
    BY <2>3 DEF CellsApart
<1>16. ResultHolds'
  BY <1>0, <1>1, <1>2 DEF ResultHolds, Running
<1>17. QED
  BY <1>10, <1>11, <1>14, <1>15, <1>16 DEF Correspondence

(* A pointer to a cell of an array that is there.                          *)
LEMMA NewPointerHolds ==
  ASSUME IInv, Correspondence, NEW base \in Bases,
         NEW i \in 0 .. Size(points[base].dims) - 1, NEW pos,
         pos = Position(Cell(base, i)),
         NewPointer(base, i, pos)
  PROVE  Correspondence'
<1>0. /\ names \in Nat /\ New = names + 1 /\ Running
      /\ Pointers \subseteq DOMAIN ptr_state /\ Pointers \subseteq 1 .. names
      /\ New \notin Pointers /\ New \notin Elements
  BY DEF IInv, TypeOK, New, NewPointer, Fresh
<1>1. /\ names' = New
      /\ points' = Extend(points, New, Place(base, i, <<>>))
      /\ ptr_state' = Extend(ptr_state, New, pos)
      /\ UNCHANGED <<value, content, elements, operands, ret, reg_state, var_state,
                     stack_state, regs, stack, data, phase>>
  BY DEF NewPointer, machine
<1>2. /\ NamesApart /\ PointersPlaced /\ CellsHold /\ CellsApart /\ ResultHolds
      /\ TypeOK
  BY DEF Correspondence, IInv
<1>3. /\ Pointers' = Pointers \cup {New}
      /\ \A p \in Pointers : points'[p] = points[p]
      /\ \A p \in Pointers : ptr_state'[p] = ptr_state[p]
      /\ ptr_state'[New] = pos
      /\ points'[New] = Place(base, i, <<>>)
  BY <1>0, <1>1 DEF Pointers, Extend
<1>4. /\ points'[New].base = base /\ points'[New].cell = i
      /\ points'[New].dims = <<>>
  BY <1>3 DEF Place
<1>5. base \in Pointers /\ base # New
  BY <1>0 DEF Bases
<1>6. Bases' = Bases /\ Elements' = Elements
  BY <1>1, <1>3, <1>4, <1>5 DEF Bases, Elements
<1>7. Allocated' = Allocated
  <2>1. Allocated' = UNION {Cells(b, Size(points'[b].dims)) : b \in Bases'}
    BY DEF Allocated, Cells, Cell
  <2>2. \A b \in Bases : Cells(b, Size(points'[b].dims)) = Cells(b, Size(points[b].dims))
    BY <1>3 DEF Bases
  <2>3. QED
    BY <1>6, <2>1, <2>2 DEF Allocated
<1>8. \A c \in Allocated : Position(c)' = Position(c)
  <2>1. \A c \in Allocated : c[1] \in Pointers
    BY CellsOfBases DEF Bases
  <2>2. QED
    BY <1>3, <2>1 DEF Position
<1>9. /\ NamesApart' /\ ParameterHeld' /\ OperandsPlaced'
      /\ ResultRegisters' /\ RegistersHold'
  <2>1. DOMAIN value \cap Pointers' = {} /\ Pointers \subseteq Pointers'
    BY <1>0, <1>2, <1>3 DEF NamesApart
  <2>2. QED
    BY <1>0, <1>1, <2>1, VariablesKept
<1>10. Cell(base, i) \in Allocated /\ Position(Cell(base, i)) \in Nat
  <2>1. Cell(base, i) \in Allocated
    BY CellsOfBases
  <2>2. QED
    BY <1>0, <1>2, <2>1 DEF CellsHold
<1>11. PointersPlaced'
  <2>1. ASSUME NEW p \in Pointers
        PROVE  /\ p \notin Elements' /\ points'[p].base \in Bases'
               /\ FrameCell(p)' \in Allocated'
               /\ points'[p].dims # <<>> => p \in Bases'
               /\ p \in Bases' => points'[p].cell = 0 /\ points'[p].dims \in Dims \cup {<<>>}
               /\ ptr_state'[p] \in Nat /\ ptr_state'[p] = Position(FrameCell(p))'
    <3>1. FrameCell(p)' = FrameCell(p) /\ FrameCell(p) \in Allocated
      BY <1>2, <1>3 DEF FrameCell, PointersPlaced
    <3>2. Position(FrameCell(p))' = Position(FrameCell(p))
      BY <1>8, <3>1
    <3>3. QED
      BY <1>2, <1>3, <1>6, <1>7, <3>1, <3>2 DEF PointersPlaced
  <2>2. ASSUME NEW p, p = New
        PROVE  /\ p \notin Elements' /\ points'[p].base \in Bases' /\ p \notin Bases'
               /\ FrameCell(p)' \in Allocated'
               /\ ptr_state'[p] \in Nat /\ ptr_state'[p] = Position(FrameCell(p))'
    <3>1. FrameCell(p)' = Cell(base, i)
      BY <1>4, <2>2 DEF FrameCell
    <3>2. Position(Cell(base, i))' = pos
      BY <1>8, <1>10
    <3>3. Position(FrameCell(p))' = pos
      BY <3>1, <3>2 DEF Position, Cell, FrameCell
    <3>4. p \notin Bases /\ p \notin Elements'
      BY <1>0, <1>6, <2>2 DEF Bases
    <3>5. ptr_state'[p] = Position(FrameCell(p))' /\ ptr_state'[p] \in Nat
      BY <1>3, <1>10, <2>2, <3>3
    <3>6. QED
      BY <1>4, <1>6, <1>7, <1>10, <2>2, <3>1, <3>4, <3>5
  <2>3. ASSUME NEW p \in Pointers'
        PROVE  p \in Pointers \/ p = New
    BY <1>3
  <2>4. QED
    BY <1>4, <2>1, <2>2, <2>3 DEF PointersPlaced
<1>12. CellsHold' /\ CellsApart'
  BY <1>1, <1>2, <1>7, <1>8 DEF CellsHold, CellsApart, Running
<1>13. ResultHolds'
  BY <1>1, <1>2 DEF ResultHolds, Running
<1>14. QED
  BY <1>9, <1>11, <1>12, <1>13 DEF Correspondence

(* What is known of a pointer's base.                                      *)
LEMMA BaseOfPointer ==
  ASSUME PointersPlaced, NEW p \in Pointers
  PROVE  /\ points[p].base \in Bases /\ points[p].base \in Pointers
         /\ points[p].cell \in 0 .. Size(points[points[p].base].dims) - 1
         /\ ptr_state[p] = ptr_state[points[p].base] + points[p].cell
         /\ ptr_state[points[p].base] \in Nat
         /\ points[points[p].base].dims \in Dims \cup {<<>>}
         /\ points[p].dims # <<>> => p \in Bases /\ points[p].base = p
         /\ points[points[p].base].cell = 0
<1> DEFINE b == points[p].base
<1>1. /\ b \in Bases /\ FrameCell(p) \in Allocated
      /\ points[p].dims # <<>> => p \in Bases
      /\ ptr_state[p] = Position(FrameCell(p))
  BY DEF PointersPlaced
<1>2. b \in Pointers
  BY <1>1 DEF Bases
<1>3. FrameCell(p)[1] = b /\ FrameCell(p)[2] = points[p].cell
  BY DEF FrameCell, Cell
<1>4. points[p].cell \in 0 .. Size(points[b].dims) - 1
  BY <1>1, <1>3, CellsOfBases
<1>5. points[b].cell = 0 /\ points[b].dims \in Dims \cup {<<>>} /\ ptr_state[b] \in Nat
  BY <1>1, <1>2 DEF PointersPlaced
<1>6. points[p].dims # <<>> => b = p
  BY <1>1 DEF Bases
<1>7. QED
  BY <1>1, <1>2, <1>3, <1>4, <1>5, <1>6 DEF Position

(* Each of the three instructions makes a pointer to some element i of     *)
(* p's array, and the translator has that element's position.              *)
LEMMA PointerTarget ==
  ASSUME Supported, IInv, Correspondence, NEW p \in Pointers, NEW idx,
         \/ BitcastInst(p)
         \/ idx \in 0 .. Size(points[points[p].base].dims) - 1 /\ ElementInst(p, idx)
         \/ idx \in Indices(p) /\ GetelementptrInst(p, idx)
  PROVE  \E i \in 0 .. Size(points[points[p].base].dims) - 1 :
           NewPointer(points[p].base, i, Position(Cell(points[p].base, i)))
<1> DEFINE b == points[p].base
<1>0. /\ b \in Bases /\ b \in Pointers
      /\ points[p].cell \in 0 .. Size(points[b].dims) - 1
      /\ ptr_state[p] = ptr_state[b] + points[p].cell /\ ptr_state[b] \in Nat
      /\ points[p].dims # <<>> => b = p
      /\ points[b].cell = 0 /\ points[b].dims \in Dims \cup {<<>>}
  BY BaseOfPointer DEF Correspondence
<1>1. \A i : Position(Cell(b, i)) = ptr_state[b] + i
  BY DEF Position, Cell
<1> HIDE DEF b
<1>2. CASE BitcastInst(p)
  <2>1. NewPointer(b, points[p].cell, ptr_state[p])
    BY <1>2 DEF BitcastInst, b
  <2>2. QED
    BY <1>0, <1>1, <2>1 DEF b
<1>3. CASE idx \in 0 .. Size(points[b].dims) - 1 /\ ElementInst(p, idx)
  <2>1. NewPointer(b, idx, ptr_state[p] + idx) /\ points[p].cell = 0
    BY <1>3 DEF ElementInst, b
  <2>2. ptr_state[p] + idx = Position(Cell(b, idx))
    BY <1>0, <1>1, <2>1
  <2>3. QED
    BY <1>0, <1>3, <2>1, <2>2 DEF b
<1>4. CASE idx \in Indices(p) /\ GetelementptrInst(p, idx)
  <2> DEFINE dims == points[p].dims
             row  == RowMajor(dims, idx)
             off  == WordOffset(dims, idx)
  <2>1. /\ dims # <<>> /\ Len(idx) = Len(dims) /\ b = p
        /\ \A j \in DOMAIN dims : idx[j] < dims[j]
        /\ NewPointer(b, row, ptr_state[p] + off)
    BY <1>0, <1>4 DEF GetelementptrInst, b
  <2>2. dims \in Dims
    BY <1>0, <2>1
  <2>3. dims \in Seq(Nat) /\ Len(dims) \in {1, 2}
    <3>1. dims \in Seq(Nat \ {0}) /\ Len(dims) <= 2
      BY <2>2, DimsAssumption DEF Supported
    <3>2. dims \in Seq(Nat)
      BY <3>1
    <3>3. Len(dims) \in Nat /\ Len(dims) # 0 /\ Len(dims) <= 2
      BY <2>1, <3>1
    <3>4. \A n \in Nat : n # 0 /\ n <= 2 => n \in {1, 2}
      OBVIOUS
    <3>5. QED
      BY <3>2, <3>3, <3>4
  <2>4. idx \in Seq(Nat)
    <3>1. idx \in [DOMAIN dims -> 0 .. Size(dims) - 1]
      BY <1>4 DEF Indices, IndicesOf
    <3>2. Size(dims) \in Nat
      BY <2>2, SizePositive
    <3> HIDE DEF dims
    <3>3. DOMAIN dims = 1 .. Len(dims) /\ Len(dims) \in Nat
      BY <2>3
    <3>4. QED
      BY <3>1, <3>2, <3>3
  <2>5. off = row /\ row \in 0 .. Size(dims) - 1
    <3> HIDE DEF dims
    <3>1. QED
      BY <2>1, <2>3, <2>4, OffsetIsRowMajor
  <2>6. row \in 0 .. Size(points[b].dims) - 1
    BY <2>1, <2>5
  <2> HIDE DEF row, off
  <2>7. ptr_state[p] + off = Position(Cell(b, row))
    BY <1>1, <2>1, <2>5
  <2>8. QED
    BY <1>0, <2>1, <2>6, <2>7 DEF b
<1>5. QED
  BY <1>2, <1>3, <1>4 DEF b

LEMMA PointerHolds ==
  ASSUME Supported, IInv, Correspondence, NEW p \in Pointers, NEW idx,
         \/ BitcastInst(p)
         \/ idx \in 0 .. Size(points[points[p].base].dims) - 1 /\ ElementInst(p, idx)
         \/ idx \in Indices(p) /\ GetelementptrInst(p, idx)
  PROVE  Correspondence'
BY PointerTarget, BaseOfPointer, NewPointerHolds DEF Correspondence

(* A pointer into a global array gives the table two entries, none of them *)
(* of a pointer into the frame.                                            *)
LEMMA GlobalPointerHolds ==
  ASSUME IInv, Correspondence, NEW g \in Globals, NEW idx,
         GetelementptrGlobal(g, idx)
  PROVE  Correspondence'
<1>0. /\ names \in Nat /\ New = names + 1
      /\ Pointers \subseteq DOMAIN ptr_state /\ Pointers \subseteq 1 .. names
      /\ New \notin Pointers /\ g \notin Pointers
  BY GlobalsAssumption DEF IInv, TypeOK, New
<1>1. /\ names' = New /\ Elements' = Elements \cup {New}
      /\ \E pos : ptr_state' = Extend(Extend(ptr_state, g, LabelPos(g)), New, pos)
      /\ UNCHANGED <<value, content, points, operands, ret, reg_state, var_state,
                     stack_state, regs, stack, data, phase>>
  BY DEF GetelementptrGlobal, Elements, Extend, machine
<1>2. /\ PointersPlaced /\ CellsHold /\ CellsApart /\ ResultHolds
      /\ DOMAIN value \cap Pointers = {}
      /\ \A c \in DOMAIN stack_state : c \in DOMAIN stack_state \/ c[1] \in Pointers
  BY DEF Correspondence, NamesApart
<1>3. /\ Pointers' = Pointers /\ Bases' = Bases /\ Allocated' = Allocated
      /\ \A p : FrameCell(p)' = FrameCell(p)
      /\ \A p \in Pointers : ptr_state'[p] = ptr_state[p]
  <2>1. /\ Pointers' = Pointers /\ Bases' = Bases /\ Allocated' = Allocated
        /\ \A p : FrameCell(p)' = FrameCell(p)
    BY <1>1 DEF Pointers, Bases, Allocated, FrameCell
  <2>2. \A p \in Pointers : ptr_state'[p] = ptr_state[p]
    BY <1>0, <1>1 DEF Extend
  <2>3. QED
    BY <2>1, <2>2
<1>4. \A c \in Allocated : Position(c)' = Position(c)
  <2>1. \A c \in Allocated : c[1] \in Pointers
    BY CellsOfBases DEF Bases
  <2>2. QED
    BY <1>3, <2>1 DEF Position
<1>5. /\ NamesApart' /\ ParameterHeld' /\ OperandsPlaced'
      /\ ResultRegisters' /\ RegistersHold'
  BY <1>0, <1>1, <1>2, <1>3, VariablesKept
<1>6. PointersPlaced'
  <2>1. ASSUME NEW p \in Pointers
        PROVE  Position(FrameCell(p))' = Position(FrameCell(p))
    <3>1. FrameCell(p) \in Allocated
      BY <1>2 DEF PointersPlaced
    <3>2. Position(FrameCell(p))' = ptr_state'[FrameCell(p)'[1]] + FrameCell(p)'[2]
      BY DEF Position, FrameCell, Cell
    <3>3. FrameCell(p)[1] \in Pointers
      BY <3>1, CellsOfBases DEF Bases
    <3>4. QED
      BY <1>3, <3>2, <3>3 DEF Position
  <2>2. \A p \in Pointers : p \notin Elements'
    BY <1>0, <1>1, <1>2 DEF PointersPlaced
  <2>3. QED
    BY <1>1, <1>2, <1>3, <2>1, <2>2 DEF PointersPlaced
<1>7. CellsHold' /\ CellsApart'
  BY <1>1, <1>2, <1>3, <1>4 DEF CellsHold, CellsApart, Running
<1>8. ResultHolds'
  BY <1>1, <1>2 DEF ResultHolds, Running
<1>9. QED
  BY <1>5, <1>6, <1>7, <1>8 DEF Correspondence

(* A store: the program is past its prelude or reaches its end.            *)
LEMMA StoredOperands ==
  ASSUME IInv, Correspondence, NEW imm \in BOOLEAN, NEW c, StoreValue(imm, c)
  PROVE  operands' = <<>> /\ (~imm => Last(operands) \in DOMAIN value)
<1>0. operands \in Seq(1 .. names) /\ (operands # <<>> <=> Len(operands) >= 1)
  <2>1. operands \in Seq(1 .. names)
    BY DEF IInv, TypeOK
  <2>2. QED
    BY <2>1, NonEmpty
<1>1. CASE imm
  BY <1>1 DEF StoreValue
<1>2. CASE ~imm
  <2>1. operands' = SubSeq(operands, 1, Len(operands) - 1)
    BY <1>2 DEF StoreValue, Popped
  <2>2. CASE Prelude
    <3>1. operands = <<1>> /\ 1 \in DOMAIN value
      BY <2>2 DEF Correspondence, ParameterHeld
    <3>2. QED
      BY <2>1, <3>1 DEF Last
  <2>3. CASE ~Prelude
    <3>1. Len(operands) = 1
      BY <1>2, <2>3 DEF StoreValue
    <3>2. operands' = <<>>
      BY <1>0, <2>1, <3>1
    <3>3. Len(operands) \in DOMAIN operands
      BY <1>0, <3>1
    <3>4. Last(operands) \in DOMAIN var_state
      BY <2>3, <3>3 DEF Correspondence, OperandsPlaced, Last
    <3>5. QED
      BY <3>2, <3>4 DEF Correspondence, NamesApart
  <2>4. QED
    BY <2>2, <2>3
<1>3. QED
  BY <1>1, <1>2

LEMMA StoreHolds ==
  ASSUME IInv, Correspondence, NEW imm \in BOOLEAN, NEW c \in DOMAIN content,
         StoreValue(imm, c),
         \A r \in {0, 1, 6, 7} : regs'[r] = regs[r],
         \A d \in GlobalCells :
           data'[d] = IF c = d THEN StoredWord(imm) ELSE data[d],
         Len(stack') = Len(stack),
         \A i \in 1 .. Len(stack) :
           stack'[i] = IF c \in Allocated /\ i = Position(c) THEN StoredWord(imm)
                       ELSE stack[i]
  PROVE  Correspondence'
<1>0. /\ Running /\ names \in Nat /\ operands \in Seq(1 .. names)
      /\ content' = [content EXCEPT ![c] = StoredValue(imm)]
      /\ var_state' = StoredVars(imm)
      /\ UNCHANGED <<names, value, points, elements, ret, reg_state, stack_state,
                     ptr_state, phase>>
  BY DEF StoreValue, IInv, TypeOK
<1>1. /\ NamesApart /\ OperandsPlaced /\ ResultRegisters /\ RegistersHold
      /\ PointersPlaced /\ CellsHold /\ CellsApart /\ ResultHolds
      /\ RegistersAgree
  BY DEF Correspondence, IInv
<1>2. operands' = <<>> /\ (~imm => Last(operands) \in DOMAIN value)
  BY StoredOperands
<1>3. StoredWord(imm) = StoredValue(imm)
  BY StoredRight
<1>4. /\ Pointers' = Pointers /\ Elements' = Elements
      /\ Bases' = Bases /\ Allocated' = Allocated
      /\ \A p : FrameCell(p)' = FrameCell(p)
      /\ \A d : Position(d)' = Position(d)
  BY <1>0 DEF Pointers, Elements, Bases, Allocated, FrameCell, Position
<1>5. NamesApart'
  <2>1. /\ DOMAIN var_state' \subseteq DOMAIN value
        /\ \A n \in DOMAIN var_state : n \in DOMAIN var_state' /\ var_state'[n] = var_state[n]
    <3>1. CASE imm
      BY <1>0, <1>1, <3>1 DEF StoredVars, NamesApart
    <3>2. CASE ~imm
      BY <1>0, <1>1, <1>2, <3>2 DEF StoredVars, NamesApart, Extend, RegOf
    <3>3. QED
      BY <3>1, <3>2
  <2>2. QED
    BY <1>0, <1>1, <1>4, <2>1 DEF NamesApart
<1>6. ParameterHeld' /\ OperandsPlaced'
  BY <1>2 DEF ParameterHeld, OperandsPlaced, Prelude
<1>7. ResultRegisters' /\ RegistersHold'
  BY <1>0, <1>1 DEF ResultRegisters, RegistersHold
<1>8. PointersPlaced' /\ CellsApart'
  BY <1>0, <1>1, <1>4 DEF PointersPlaced, CellsApart
<1>9. CellsHold'
  <2>1. DOMAIN content' = GlobalCells' \cup Allocated'
    BY <1>0, <1>1, <1>4 DEF CellsHold
  <2>2. \A d \in DOMAIN content :
          content'[d] = IF d = c THEN StoredValue(imm) ELSE content[d]
    BY <1>0
  <2>3. ASSUME NEW d \in GlobalCells
        PROVE  data'[d] = content'[d]
    <3>1. d \in DOMAIN content /\ data[d] = content[d]
      BY <1>1 DEF CellsHold
    <3>2. QED
      BY <1>3, <2>2, <3>1
  <2>4. ASSUME NEW d \in Allocated
        PROVE  Position(d) \in 1 .. Len(stack') /\ stack'[Position(d)] = content'[d]
    <3>1. /\ Position(d) \in 1 .. Len(stack) /\ stack[Position(d)] = content[d]
          /\ d \in DOMAIN content
      BY <1>0, <1>1 DEF CellsHold
    <3>2. c \in Allocated => (Position(d) = Position(c) <=> d = c)
      BY <1>1 DEF CellsApart
    <3>3. QED
      BY <1>3, <2>2, <3>1, <3>2
  <2>5. QED
    BY <1>4, <2>1, <2>3, <2>4 DEF CellsHold
<1>10. ResultHolds'
  BY <1>0, <1>1 DEF ResultHolds, Running
<1>11. QED
  BY <1>5, <1>6, <1>7, <1>8, <1>9, <1>10 DEF Correspondence

LEMMA StoreGlobalHolds ==
  ASSUME IInv, Correspondence, NEW imm \in BOOLEAN, NEW g \in Globals,
         StoreGlobal(imm, g)
  PROVE  Correspondence'
<1> DEFINE c == Cell(g, 0)
<1>1. /\ StoreValue(imm, c)
      /\ regs' = [StoredRegs(imm) EXCEPT ![5] = Wrong]
      /\ data' = [data EXCEPT ![c] = StoredWord(imm)]
      /\ stack' = stack /\ c \in GlobalCells
  BY GlobalCellOfInt DEF StoreGlobal
<1>2. regs \in [Registers -> Vals] /\ data \in [GlobalCells -> Vals]
  BY DEF IInv, TypeOK
<1>3. \A r \in {0, 1, 6, 7} : regs'[r] = regs[r]
  BY <1>1, <1>2 DEF StoredRegs, Registers
<1>4. c \in DOMAIN content /\ c \notin Allocated
  BY <1>1, GlobalApart DEF Correspondence, CellsHold
<1> HIDE DEF c
<1>5. \A x \in GlobalCells :
        data'[x] = IF c = x THEN StoredWord(imm) ELSE data[x]
  BY <1>1, <1>2
<1>6. QED
  BY <1>1, <1>3, <1>4, <1>5, StoreHolds

LEMMA StoreInstHolds ==
  ASSUME Supported, IInv, Correspondence, NEW imm \in BOOLEAN,
         NEW p \in Addresses, StoreInst(imm, p)
  PROVE  Correspondence'
<1> DEFINE c == FrameCell(p)
           w == StoredWord(imm)
<1>0. p \in Pointers /\ CellOf(p) = c
  BY AddressesInFrame DEF Correspondence
<1>1. /\ StoreValue(imm, c)
      /\ regs' = StoredRegs(imm) /\ data' = data
      /\ stack' = Poke(stack, StackSize - ptr_state[p], w)
  BY <1>0 DEF StoreInst
<1>2. /\ regs \in [Registers -> Vals] /\ stack \in Seq(Vals)
      /\ Running /\ StackSize = Len(stack)
  BY <1>1 DEF IInv, TypeOK, SpMatchesTable, StoreValue
<1>3. \A r \in {0, 1, 6, 7} : regs'[r] = regs[r]
  BY <1>1, <1>2 DEF StoredRegs, Registers
<1>4. /\ c \in DOMAIN content /\ c \in Allocated /\ ptr_state[p] = Position(c)
      /\ ptr_state[p] \in 1 .. Len(stack)
  BY <1>0, <1>2, WordOfPointer DEF Correspondence, PointersPlaced
<1>5. \A x \in GlobalCells :
        data'[x] = IF c = x THEN w ELSE data[x]
  BY <1>1, <1>4, GlobalApart
<1> HIDE DEF c, w
<1>6. stack' = [stack EXCEPT ![Position(c)] = w]
  <2>1. Len(stack) - (StackSize - ptr_state[p]) = Position(c)
    BY <1>2, <1>4
  <2>2. Position(c) \in DOMAIN stack
    BY <1>2, <1>4
  <2>3. QED
    BY <1>1, <2>1, <2>2 DEF Poke
<1>7. /\ Len(stack') = Len(stack)
      /\ \A i \in 1 .. Len(stack) :
           stack'[i] = IF c \in Allocated /\ i = Position(c) THEN w ELSE stack[i]
  BY <1>2, <1>4, <1>6
<1>8. QED
  BY <1>1, <1>3, <1>4, <1>5, <1>7, StoreHolds DEF w

(* ret: the value is in its register, and goes to r0 after the frame.      *)
LEMMA ReturnedValue ==
  ASSUME IInv, Correspondence, NEW has \in BOOLEAN, NEW imm \in BOOLEAN,
         RetInst(has, imm)
  PROVE  /\ ~has => ret' = ret /\ regs' = regs
         /\ has /\ imm => ret' = Imm /\ regs' = [regs EXCEPT ![0] = Imm]
         /\ has /\ ~imm => /\ operands # <<>> /\ ret' = value[Last(operands)]
                           /\ regs' = [regs EXCEPT ![0] = value[Last(operands)]]
<1> DEFINE v == Last(operands)
<1>1. CASE ~has
  BY <1>1, ZenonT(30) DEF RetInst
<1>2. CASE has /\ imm
  BY <1>2, ZenonT(30) DEF RetInst
<1>3. CASE has /\ ~imm
  <2>1. ret' = value[v] /\ regs' = [regs EXCEPT ![0] = RetValue(v)]
    BY <1>3, ZenonT(30) DEF RetInst
  <2>2. Len(operands) = 1 /\ ~Prelude
    BY <1>3 DEF RetInst
  <2>3. /\ operands \in Seq(1 .. names) /\ names \in Nat
        /\ operands # <<>> <=> Len(operands) >= 1
    <3>1. operands \in Seq(1 .. names) /\ names \in Nat
      BY DEF IInv, TypeOK
    <3>2. QED
      BY <3>1, NonEmpty
  <2>4. operands # <<>> /\ Len(operands) \in DOMAIN operands
    BY <2>2, <2>3
  <2>5. v = operands[Len(operands)] /\ v \in 1 .. names
    BY <2>3, <2>4 DEF Last
  <2> HIDE DEF v
  <2>6. v \in DOMAIN var_state /\ var_state[v] # 0
    BY <2>2, <2>4, <2>5 DEF Correspondence, OperandsPlaced
  <2>7. var_state[v] # InStack
    BY <2>2, <2>4 DEF IInv, TopInRegister, v
  <2>8. var_state[v] \in Registers /\ var_state[v] > 0
    <3>1. var_state[v] \in Registers \cup {InStack}
      BY <2>6 DEF IInv, TypeOK
    <3>2. QED
      BY <2>6, <2>7, <3>1 DEF Registers
  <2>9. reg_state[var_state[v]] = v /\ v # NoName
    BY <2>3, <2>5, <2>6, <2>8 DEF IInv, RegistersAgree, NoName
  <2>10. regs[var_state[v]] = value[v]
    BY <2>8, <2>9 DEF Correspondence, RegistersHold
  <2>11. RetValue(v) = value[v]
    BY <2>7, <2>10 DEF RetValue
  <2>12. QED
    BY <1>3, <2>1, <2>4, <2>11 DEF v
<1>4. QED
  BY <1>1, <1>2, <1>3

LEMMA RetHolds ==
  ASSUME IInv, Correspondence, NEW has \in BOOLEAN, NEW imm \in BOOLEAN,
         RetInst(has, imm)
  PROVE  Correspondence'
<1>0. /\ Running /\ ~Running' /\ ~Prelude
      /\ UNCHANGED <<names, value, content, points, elements, operands, reg_state,
                     var_state, stack_state, ptr_state, data>>
      /\ regs \in [Registers -> Vals]
  BY DEF RetInst, func, Running, IInv, TypeOK
<1>1. /\ NamesApart /\ OperandsPlaced /\ ResultRegisters /\ RegistersHold
      /\ PointersPlaced /\ CellsHold /\ CellsApart /\ ResultHolds
  BY DEF Correspondence
<1>2. /\ ret' # Undef => regs'[0] = ret'
      /\ \A r \in Registers \ {0} : regs'[r] = regs[r]
  <2>1. ret = Undef
    BY <1>0, <1>1 DEF ResultHolds
  <2>2. 0 \in Registers
    BY DEF Registers
  <2>3. CASE ~has
    BY <2>1, <2>3, ReturnedValue
  <2>4. CASE has /\ imm
    <3>1. ret' = Imm /\ regs' = [regs EXCEPT ![0] = Imm]
      BY <2>4, ReturnedValue
    <3>2. QED
      BY <1>0, <2>2, <3>1
  <2>5. CASE has /\ ~imm
    <3>1. ret' = value[Last(operands)] /\ regs' = [regs EXCEPT ![0] = value[Last(operands)]]
      BY <2>5, ReturnedValue
    <3>2. QED
      BY <1>0, <2>2, <3>1
  <2>6. QED
    BY <2>3, <2>4, <2>5
<1>3. NamesApart'
  BY <1>0, <1>1 DEF NamesApart, Pointers
<1>4. ParameterHeld' /\ OperandsPlaced'
  BY <1>0, <1>1 DEF ParameterHeld, OperandsPlaced, Prelude
<1>5. ResultRegisters' /\ RegistersHold'
  <2>1. \A r \in Registers : reg_state[r] # NoName => r \in Registers \ {0}
    BY <1>1 DEF ResultRegisters
  <2>2. QED
    BY <1>0, <1>1, <1>2, <2>1 DEF ResultRegisters, RegistersHold
<1>6. PointersPlaced' /\ CellsHold' /\ CellsApart'
  BY <1>0, <1>1, MemoryKept
<1>7. ResultHolds'
  BY <1>0, <1>2 DEF ResultHolds
<1>8. QED
  BY <1>3, <1>4, <1>5, <1>6, <1>7 DEF Correspondence

(* The translation stops, or nothing happens.                              *)
LEMMA StopHolds ==
  ASSUME IInv, Correspondence,
         \/ BinaryOpThrows
         \/ UNCHANGED vars
  PROVE  Correspondence'
<1>0. /\ UNCHANGED <<names, value, content, points, elements, operands, ret,
                     reg_state, var_state, stack_state, ptr_state, regs, stack,
                     data>>
      /\ Running' => Running
  BY DEF BinaryOpThrows, vars, ir, func, machine, Running
<1>1. /\ NamesApart /\ ParameterHeld /\ OperandsPlaced /\ ResultRegisters
      /\ RegistersHold /\ PointersPlaced /\ CellsHold /\ CellsApart /\ ResultHolds
  BY DEF Correspondence
<1>2. NamesApart'
  BY <1>0, <1>1 DEF NamesApart, Pointers
<1>3. ParameterHeld' /\ OperandsPlaced'
  BY <1>0, <1>1 DEF ParameterHeld, OperandsPlaced, Prelude
<1>4. ResultRegisters' /\ RegistersHold'
  BY <1>0, <1>1 DEF ResultRegisters, RegistersHold
<1>5. PointersPlaced' /\ CellsHold' /\ CellsApart'
  <2>1. Len(stack') \in Nat
    BY <1>0 DEF IInv, TypeOK
  <2>2. QED
    BY <1>0, <1>1, <2>1, MemoryKept
<1>6. ResultHolds'
  BY <1>0, <1>1 DEF ResultHolds
<1>7. QED
  BY <1>2, <1>3, <1>4, <1>5, <1>6 DEF Correspondence

LEMMA NextCorrespondence ==
  Supported /\ IInv /\ Correspondence /\ [Next]_vars => Correspondence'
<1> SUFFICES ASSUME Supported, IInv, Correspondence, [Next]_vars
             PROVE  Correspondence'
  OBVIOUS
<1>1. ASSUME NEW dims \in Dims \cup {<<>>}, AllocaInst(dims)
      PROVE  Correspondence'
  BY <1>1, AllocaHolds
<1>2. ASSUME NEW p \in Pointers, BitcastInst(p)
      PROVE  Correspondence'
  BY <1>2, PointerHolds
<1>3. ASSUME NEW p \in Pointers,
             NEW idx \in 0 .. Size(points[points[p].base].dims) - 1,
             ElementInst(p, idx)
      PROVE  Correspondence'
  BY <1>3, PointerHolds
<1>4. ASSUME NEW p \in Pointers, NEW idx \in Indices(p), GetelementptrInst(p, idx)
      PROVE  Correspondence'
  BY <1>4, PointerHolds
<1>5. ASSUME NEW g \in Globals, LoadGlobal(g)
      PROVE  Correspondence'
  BY <1>5, LoadGlobalHolds
<1>6. ASSUME NEW p \in Addresses, LoadInst(p)
      PROVE  Correspondence'
  BY <1>6, LoadInstHolds
<1>7. ASSUME NEW imm \in BOOLEAN, NEW g \in Globals, StoreGlobal(imm, g)
      PROVE  Correspondence'
  BY <1>7, StoreGlobalHolds
<1>8. ASSUME NEW imm \in BOOLEAN, NEW p \in Addresses, StoreInst(imm, p)
      PROVE  Correspondence'
  BY <1>8, StoreInstHolds
<1>9. ASSUME NEW op \in Ops, BinaryOpInst(op)
      PROVE  Correspondence'
  BY <1>9, BinaryOpInstHolds
<1>10. ASSUME NEW op \in Ops, NEW imm \in Imms, BinaryOpImm(op, imm)
       PROVE  Correspondence'
  BY <1>10, BinaryOpImmHolds
<1>11. CASE BinaryOpThrows \/ Stopped \/ UNCHANGED vars
  BY <1>11, StopHolds DEF Stopped
<1>12. ASSUME NEW has \in BOOLEAN, NEW imm \in BOOLEAN, RetInst(has, imm)
       PROVE  Correspondence'
  BY <1>12, RetHolds
<1>13. ASSUME NEW g \in Globals, NEW idx, GetelementptrGlobal(g, idx)
       PROVE  Correspondence'
  BY <1>13, GlobalPointerHolds
<1>14. QED
  BY <1>1, <1>2, <1>3, <1>4, <1>5, <1>6, <1>7, <1>8, <1>9, <1>10, <1>11,
     <1>12, <1>13 DEF Next

LEMMA CorrespondenceInvariance ==
  ASSUME Supported
  PROVE  Spec => [](IInv /\ Correspondence)
<1>1. Init => IInv /\ Correspondence
  BY InitIInv, InitCorrespondence
<1>2. IInv /\ Correspondence /\ [Next]_vars => (IInv /\ Correspondence)'
  BY NextIInv, NextCorrespondence
<1>3. QED
  BY <1>1, <1>2, PTL DEF Spec

-----------------------------------------------------------------------------
(* The register that reg_state gives to a variable holds its value,        *)
(* whatever GetReg has pushed, and whatever scratch registers the          *)
(* instructions between have used.                                         *)
THEOREM RegistersHoldValues ==
  ASSUME Supported
  PROVE  Spec => []RegistersHold
<1>1. Correspondence => RegistersHold
  BY DEF Correspondence
<1>2. QED
  BY <1>1, CorrespondenceInvariance, PTL

(* The offset in ptr_state still leads to the right word after any number  *)
(* of pushes and allocas, and no store through another pointer changes it. *)
THEOREM MemoryIsRight ==
  ASSUME Supported
  PROVE  Spec => []MemoryHolds
<1>1. IInv /\ Correspondence => MemoryHolds
  <2> SUFFICES ASSUME IInv, Correspondence
               PROVE  MemoryHolds
    OBVIOUS
  <2>1. ASSUME Running, NEW p \in Pointers
        PROVE  Peek(stack, StackSize - ptr_state[p]) = content[CellOf(p)]
    <3>1. /\ ptr_state[p] \in 1 .. Len(stack)
          /\ stack[ptr_state[p]] = content[FrameCell(p)]
      BY <2>1, WordOfPointer DEF Correspondence
    <3>2. stack \in Seq(Vals) /\ StackSize = Len(stack)
      BY <2>1 DEF IInv, TypeOK, SpMatchesTable
    <3>3. /\ Len(stack) - (StackSize - ptr_state[p]) = ptr_state[p]
          /\ ptr_state[p] \in DOMAIN stack
      BY <3>1, <3>2
    <3>4. CellOf(p) = FrameCell(p)
      BY <2>1, AddressesInFrame DEF Correspondence
    <3>5. QED
      BY <3>1, <3>3, <3>4 DEF Peek
  <2>2. GlobalsHold
    BY DEF GlobalsHold, Correspondence, CellsHold
  <2>3. QED
    BY <2>1, <2>2 DEF MemoryHolds
<1>2. QED
  BY <1>1, CorrespondenceInvariance, PTL

-----------------------------------------------------------------------------
(* The refinement.  What the block of IR sees of the machine is, by the    *)
(* invariant, what the IR program itself holds.                            *)

LEMMA MappedValue ==
  IInv /\ Correspondence => BlockValue = [n \in DOMAIN value |-> value[n]]
<1> SUFFICES ASSUME IInv, Correspondence, NEW n \in DOMAIN value
             PROVE  Held(n) = value[n]
  BY DEF BlockValue
<1>1. n # NoName
  <2>1. n \in 1 .. names /\ names \in Nat
    BY DEF Correspondence, NamesApart, IInv, TypeOK
  <2>2. QED
    BY <2>1 DEF NoName
<1>2. CASE \E r \in Registers : reg_state[r] = n
  <2> DEFINE r == CHOOSE r \in Registers : reg_state[r] = n
  <2>1. r \in Registers /\ reg_state[r] = n
    BY <1>2
  <2>2. Held(n) = regs[r]
    BY <1>2 DEF Held
  <2> HIDE DEF r
  <2>3. QED
    BY <1>1, <2>1, <2>2 DEF Correspondence, RegistersHold
<1>3. CASE ~\E r \in Registers : reg_state[r] = n
  BY <1>3 DEF Held
<1>4. QED
  BY <1>2, <1>3

LEMMA GlobalWord ==
  ASSUME IInv, Correspondence, NEW c \in GlobalCells
  PROVE  Word(c) = content[c] /\ c \in DOMAIN content
BY GlobalCellNamed DEF Word, Correspondence, CellsHold

LEMMA MappedContent ==
  IInv /\ Correspondence =>
    /\ Running => BlockContent = [c \in DOMAIN content |-> content[c]]
    /\ phase = "returned" => BlockContent = [c \in GlobalCells |-> content[c]]
<1> SUFFICES ASSUME IInv, Correspondence
             PROVE  /\ Running => BlockContent = [c \in DOMAIN content |-> content[c]]
                    /\ phase = "returned" => BlockContent = [c \in GlobalCells |-> content[c]]
  OBVIOUS
<1>1. CASE Running
  <2>1. ASSUME NEW c \in DOMAIN content
        PROVE  Word(c) = content[c]
    <3>1. CASE c \in GlobalCells
      BY <3>1, GlobalWord
    <3>2. CASE c \in Allocated
      <4>1. c[1] \in Nat /\ c[1] \notin Globals
        <5>1. c[1] \in Pointers
          BY <3>2, CellsOfBases DEF Bases
        <5>2. Pointers \subseteq Nat
          BY DEF IInv, TypeOK
        <5>3. c[1] \in Nat
          BY <5>1, <5>2
        <5>4. QED
          BY <5>3, GlobalsAssumption
      <4>2. Position(c) \in 1 .. Len(stack) /\ stack[Position(c)] = content[c]
        BY <1>1, <3>2 DEF Correspondence, CellsHold
      <4>3. stack \in Seq(Vals) /\ StackSize = Len(stack)
        BY <1>1 DEF IInv, TypeOK, SpMatchesTable
      <4>4. /\ Len(stack) - (StackSize - Position(c)) = Position(c)
            /\ Position(c) \in DOMAIN stack
        BY <4>2, <4>3
      <4>5. Word(c) = Peek(stack, StackSize - Position(c))
        BY <4>1 DEF Word, Position
      <4>6. QED
        BY <4>2, <4>4, <4>5 DEF Peek
    <3>3. QED
      BY <3>1, <3>2 DEF Correspondence, CellsHold
  <2>2. Reachable = DOMAIN content
    BY <1>1 DEF Reachable, Running
  <2>3. QED
    BY <1>1, <2>1, <2>2 DEF BlockContent, Running
<1>2. CASE phase = "returned"
  <2>1. Reachable = GlobalCells
    BY <1>2 DEF Reachable
  <2>2. QED
    BY <1>2, <2>1, GlobalWord DEF BlockContent, Running
<1>3. QED
  BY <1>1, <1>2

(* The invariant before and after a step, and what it makes of the state.  *)
Related ==
  /\ IInv /\ Correspondence
  /\ BlockValue = [n \in DOMAIN value |-> value[n]]
  /\ Running => BlockContent = [c \in DOMAIN content |-> content[c]]
  /\ phase = "returned" => BlockContent = [c \in GlobalCells |-> content[c]]

LEMMA RelatedState == IInv /\ Correspondence => Related
BY MappedValue, MappedContent DEF Related

LEMMA InitRefines ==
  ASSUME Supported, Init
  PROVE  Block!Init
<1>1. Related
  BY InitIInv, InitCorrespondence, RelatedState
<1>2. BlockValue = [n \in 1 .. NumParams |-> n]
  BY <1>1 DEF Related, Init
<1>3. BlockContent = [c \in GlobalCells |-> Undef]
  <2>1. BlockContent = [c \in DOMAIN content |-> content[c]]
    BY <1>1 DEF Related, Init, Running
  <2>2. content = [c \in GlobalCells |-> Undef]
    BY DEF Init
  <2>3. QED
    BY <2>1, <2>2
<1>4. BlockPoints = <<>>
  BY DEF Init, BlockPoints, Pointers, Elements
<1>5. BlockRet = Undef /\ Running
  BY DEF BlockRet, Init, Running
<1>6. QED
  BY <1>2, <1>3, <1>4, <1>5 DEF Init, Block!Init

(* While the block runs it has no result.                                  *)
LEMMA RunningState ==
  ASSUME Related, Running
  PROVE  /\ BlockValue = [n \in DOMAIN value |-> value[n]]
         /\ BlockContent = [c \in DOMAIN content |-> content[c]]
         /\ BlockRet = Undef
BY DEF Related, Correspondence, ResultHolds, BlockRet

LEMMA RunningNext ==
  ASSUME Related', Running'
  PROVE  /\ BlockValue' = [n \in DOMAIN value' |-> value'[n]]
         /\ BlockContent' = [c \in DOMAIN content' |-> content'[c]]
         /\ BlockRet' = Undef
<1>1. (Related /\ Running)' => /\ BlockValue' = [n \in DOMAIN value' |-> value'[n]]
                               /\ BlockContent' = [c \in DOMAIN content' |-> content'[c]]
                               /\ BlockRet' = Undef
  BY DEF Related, Correspondence, ResultHolds, BlockRet
<1>2. QED
  BY <1>1

(* A step that changes no pointer, and one that makes pointer New to c.    *)
LEMMA PointsKept ==
  ASSUME UNCHANGED <<points, elements>>
  PROVE  BlockPoints' = BlockPoints
BY DEF BlockPoints, Pointers, Elements, CellOf, Cell

LEMMA PointsAdded ==
  ASSUME IInv, NEW c,
         \/ \E place : /\ points' = Extend(points, New, place)
                       /\ c = Cell(place.base, place.cell)
                       /\ UNCHANGED elements
         \/ elements' = Extend(elements, New, c) /\ UNCHANGED points
  PROVE  BlockPoints' = Block!With(BlockPoints, New, c)
<1>1. New \notin Pointers /\ New \notin Elements
  BY DEF IInv, TypeOK, New
<1>2. Pointers' \cup Elements' = (Pointers \cup Elements) \cup {New}
  BY DEF Pointers, Elements, Extend
<1>3. \A q \in Pointers \cup Elements : CellOf(q)' = CellOf(q)
  BY <1>1 DEF CellOf, Pointers, Elements, Extend, Cell
<1>4. \A q : q = New => CellOf(q)' = c
  BY <1>1 DEF CellOf, Pointers, Elements, Extend, Cell
<1>5. BlockPoints' = [q \in Pointers' \cup Elements' |-> CellOf(q)']
  BY DEF BlockPoints
<1>6. DOMAIN BlockPoints = Pointers \cup Elements
  BY DEF BlockPoints
<1>7. \A q \in Pointers \cup Elements : BlockPoints[q] = CellOf(q)
  BY DEF BlockPoints
<1>8. QED
  BY <1>1, <1>2, <1>3, <1>4, <1>5, <1>6, <1>7 DEF Block!With

(* A new pointer that points to cell c.                                    *)
LEMMA NewPointerRefines ==
  ASSUME Supported, Related, Related', NEW p \in Pointers, NEW i,
         NewPointer(points[p].base, i, Position(Cell(points[p].base, i))),
         Cell(points[p].base, i) \in Allocated
  PROVE  /\ Block!Pointer(Cell(points[p].base, i))
         /\ Cell(points[p].base, i) \in DOMAIN BlockContent
<1> DEFINE base == points[p].base
           c    == Cell(base, i)
<1>1. /\ Running /\ Running' /\ names' = New
      /\ points' = Extend(points, New, Place(base, i, <<>>))
      /\ UNCHANGED <<value, content, elements, operands>>
  BY DEF NewPointer, Fresh, Running
<1>2. /\ BlockValue' = BlockValue /\ BlockContent' = BlockContent
      /\ BlockRet' = BlockRet /\ DOMAIN BlockContent = DOMAIN content
  BY <1>1, RunningState, RunningNext
<1>3. BlockPoints' = Block!With(BlockPoints, New, c)
  <2>1. c = Cell(Place(base, i, <<>>).base, Place(base, i, <<>>).cell) /\ IInv
    BY DEF Place, Related
  <2>2. QED
    BY <1>1, <2>1, PointsAdded
<1>4. p \in DOMAIN BlockPoints /\ c[1] = BlockPoints[p][1]
  <2>1. CellOf(p) = FrameCell(p)
    BY AddressesInFrame DEF Related, Correspondence
  <2>2. QED
    BY <2>1 DEF BlockPoints, FrameCell, Cell
<1>5. c \in DOMAIN content
  BY DEF Related, Correspondence, CellsHold
<1>6. Block!New = New
  BY DEF Block!New, New
<1>7. QED
  BY <1>1, <1>2, <1>3, <1>4, <1>5, <1>6 DEF Block!Pointer

LEMMA PointerRefines ==
  ASSUME Supported, Related, Related', NEW p \in Pointers, NEW idx,
         \/ BitcastInst(p)
         \/ idx \in 0 .. Size(points[points[p].base].dims) - 1 /\ ElementInst(p, idx)
         \/ idx \in Indices(p) /\ GetelementptrInst(p, idx)
  PROVE  Running /\ \E c \in DOMAIN BlockContent : Block!Pointer(c)
<1>1. IInv /\ Correspondence
  BY DEF Related
<1>2. PICK i \in 0 .. Size(points[points[p].base].dims) - 1 :
        NewPointer(points[p].base, i, Position(Cell(points[p].base, i)))
  BY <1>1, PointerTarget
<1>3. Cell(points[p].base, i) \in Allocated
  BY <1>1, <1>2, BaseOfPointer, CellsOfBases DEF Correspondence
<1>4. QED
  BY <1>2, <1>3, NewPointerRefines DEF NewPointer, Fresh

(* An element of a global array lies within the array.                     *)
LEMMA GlobalPointerRefines ==
  ASSUME Supported, Related, Related', NEW g \in Globals,
         NEW idx \in GlobalIndices(g), GetelementptrGlobal(g, idx)
  PROVE  Running /\ \E c \in DOMAIN BlockContent : Block!Pointer(c)
<1> DEFINE dims == GlobalDims[g]
           c    == Cell(g, RowMajor(dims, idx))
<1>1. /\ Running /\ Running' /\ names' = New
      /\ elements' = Extend(elements, New, c)
      /\ dims # <<>> /\ Len(idx) = Len(dims)
      /\ \A j \in DOMAIN dims : idx[j] < dims[j]
      /\ UNCHANGED <<value, content, points, operands>>
  BY DEF GetelementptrGlobal, Fresh, Running
<1>2. /\ BlockValue' = BlockValue /\ BlockContent' = BlockContent
      /\ BlockRet' = BlockRet /\ DOMAIN BlockContent = DOMAIN content
  BY <1>1, RunningState, RunningNext
<1>3. c \in GlobalCells
  <2>1. dims \in Seq(Nat \ {0}) /\ Size(dims) \in Nat /\ Len(dims) <= 2
    BY GlobalDimsAssumption DEF Supported
  <2>2. idx \in [DOMAIN dims -> 0 .. Size(dims) - 1]
    BY DEF GlobalIndices, IndicesOf
  <2> HIDE DEF dims
  <2>3. dims \in Seq(Nat) /\ Len(dims) \in {1, 2} /\ idx \in Seq(Nat)
    <3>1. dims \in Seq(Nat)
      BY <2>1
    <3>2. Len(dims) \in Nat /\ Len(dims) # 0 /\ DOMAIN dims = 1 .. Len(dims)
      BY <1>1, <2>1
    <3>3. \A n \in Nat : n # 0 /\ n <= 2 => n \in {1, 2}
      OBVIOUS
    <3>4. idx \in Seq(Nat)
      BY <2>1, <2>2, <3>2
    <3>5. QED
      BY <2>1, <3>1, <3>2, <3>3, <3>4
  <2>4. RowMajor(dims, idx) \in 0 .. Size(dims) - 1
    BY <1>1, <2>3, OffsetIsRowMajor
  <2>5. c \in Cells(g, Size(dims))
    BY <2>4 DEF Cells
  <2>6. QED
    BY <2>5 DEF GlobalCells, dims
<1>4. BlockPoints' = Block!With(BlockPoints, New, c)
  BY <1>1, PointsAdded DEF Related
<1>5. c \in DOMAIN content
  BY <1>3 DEF Related, Correspondence, CellsHold
<1>6. Block!New = New
  BY DEF Block!New, New
<1> HIDE DEF c
<1>7. Block!Pointer(c)
  BY <1>1, <1>2, <1>3, <1>4, <1>6 DEF Block!Pointer
<1>8. QED
  BY <1>1, <1>2, <1>5, <1>7

LEMMA AllocaRefines ==
  ASSUME Related, Related', NEW dims \in Dims \cup {<<>>}, AllocaInst(dims)
  PROVE  Running /\ Block!Alloca(Size(dims))
<1> DEFINE cells == Cells(New, Size(dims))
<1>1. /\ Running /\ Running' /\ names' = New
      /\ points' = Extend(points, New, Place(New, 0, dims))
      /\ content' = [c \in DOMAIN content \cup cells |->
                       IF c \in cells THEN Undef ELSE content[c]]
      /\ UNCHANGED <<value, elements, operands>>
  BY DEF AllocaInst, Running
<1>2. /\ BlockValue' = BlockValue /\ BlockRet' = BlockRet
      /\ BlockContent = [c \in DOMAIN content |-> content[c]]
      /\ BlockContent' = [c \in DOMAIN content' |-> content'[c]]
  BY <1>1, RunningState, RunningNext
<1>3. BlockPoints' = Block!With(BlockPoints, New, Cell(New, 0))
  <2>1. Place(New, 0, dims).base = New /\ Place(New, 0, dims).cell = 0
    BY DEF Place
  <2>2. QED
    BY <1>1, <2>1, PointsAdded DEF Related
<1>4. \A c \in DOMAIN content : c \notin cells
  <2>1. /\ names \in Nat /\ Pointers \subseteq 1 .. names
        /\ DOMAIN content = GlobalCells \cup Allocated
    BY DEF Related, Correspondence, CellsHold, IInv, TypeOK
  <2>2. \A c \in cells : c[1] = New
    BY DEF Cells, Cell
  <2>3. \A c \in Allocated : c[1] \in Pointers
    BY CellsOfBases DEF Bases
  <2>4. \A c \in GlobalCells : c[1] \in Globals
    BY GlobalCellNamed
  <2>5. New \notin Pointers /\ New \notin Globals
    BY <2>1, GlobalsAssumption DEF New
  <2> HIDE DEF cells
  <2>6. QED
    BY <2>1, <2>2, <2>3, <2>4, <2>5
<1>5. BlockContent' =
        [c \in DOMAIN BlockContent \cup cells |->
           IF c \in DOMAIN BlockContent THEN BlockContent[c] ELSE Undef]
  <2> HIDE DEF cells
  <2>1. QED
    BY <1>1, <1>2, <1>4
<1>6. Block!New = New /\ Cell(New, 0) = <<New, 0>>
      /\ cells = {<<New, i>> : i \in 0 .. Size(dims) - 1}
  BY DEF Block!New, New, Cell, Cells
<1> HIDE DEF cells
<1>7. QED
  BY SMTT(30), <1>1, <1>2, <1>3, <1>5, <1>6 DEF Block!Alloca

(* A load from cell c, whose content goes to the new name.                 *)
LEMMA LoadRefines ==
  ASSUME Related, Related', NEW des, NEW loaded, NEW temps, NEW c,
         c \in DOMAIN content, LoadInto(des, content[c], loaded, temps)
  PROVE  Running /\ Block!Load(c)
<1>1. /\ Running /\ Running' /\ names' = New
      /\ value' = Extend(value, New, content[c])
      /\ operands' = Append(operands, New)
      /\ UNCHANGED <<content, points, elements>>
  BY DEF LoadInto, Fresh, Running
<1>2. /\ BlockValue = [n \in DOMAIN value |-> value[n]]
      /\ BlockValue' = [n \in DOMAIN value' |-> value'[n]]
      /\ BlockContent' = BlockContent /\ BlockContent[c] = content[c]
      /\ BlockRet' = BlockRet
  BY <1>1, RunningState, RunningNext
<1>3. BlockPoints' = BlockPoints
  BY <1>1, PointsKept
<1>4. BlockValue' = Block!With(BlockValue, New, content[c])
  BY <1>1, <1>2 DEF Extend, Block!With
<1>5. Block!New = New
  BY DEF Block!New, New
<1>6. QED
  BY <1>1, <1>2, <1>3, <1>4, <1>5 DEF Block!Load

LEMMA CellsAccessible ==
  ASSUME Supported, Related
  PROVE  /\ \A p \in Addresses :
              CellOf(p) \in Block!Accessible /\ CellOf(p) \in DOMAIN content
         /\ \A g \in Globals : GlobalDims[g] = <<>> =>
              Cell(g, 0) \in Block!Accessible /\ Cell(g, 0) \in DOMAIN content
<1>1. /\ \A p \in Addresses : p \in Pointers /\ CellOf(p) \in Allocated
      /\ DOMAIN content = GlobalCells \cup Allocated
  BY AddressesInFrame DEF Related, Correspondence, PointersPlaced, CellsHold
<1>2. \A p \in Pointers : p \in DOMAIN BlockPoints /\ BlockPoints[p] = CellOf(p)
  BY DEF BlockPoints
<1>3. \A g \in Globals : GlobalDims[g] = <<>> => Cell(g, 0) \in GlobalCells
  BY GlobalCellOfInt
<1>4. QED
  BY <1>1, <1>2, <1>3 DEF Block!Accessible

(* A store to cell c.                                                      *)
LEMMA StoreRefines ==
  ASSUME Related, Related', NEW imm \in BOOLEAN, NEW c \in DOMAIN content,
         StoreValue(imm, c)
  PROVE  Running /\ (Block!StoreImm(c) \/ Block!Store(c))
<1>1. /\ Running /\ Running'
      /\ content' = [content EXCEPT ![c] = StoredValue(imm)]
      /\ operands' = IF imm THEN operands ELSE Popped(1)
      /\ UNCHANGED <<names, value, points, elements>>
  BY DEF StoreValue, Running
<1>2. /\ BlockValue = [n \in DOMAIN value |-> value[n]]
      /\ BlockValue' = BlockValue /\ BlockRet' = BlockRet
      /\ BlockContent = [d \in DOMAIN content |-> content[d]]
      /\ BlockContent' = [d \in DOMAIN content' |-> content'[d]]
  BY <1>1, RunningState, RunningNext
<1>3. BlockPoints' = BlockPoints
  BY <1>1, PointsKept
<1>4. BlockContent' = [BlockContent EXCEPT ![c] = StoredValue(imm)]
  BY <1>1, <1>2
<1>5. CASE imm
  BY <1>1, <1>2, <1>3, <1>4, <1>5 DEF StoredValue, Block!StoreImm
<1>6. CASE ~imm
  <2>1. Last(operands) \in DOMAIN value
    BY <1>6, StoredOperands DEF Related
  <2>2. operands # <<>>
    <3>1. Prelude \/ Len(operands) = 1
      BY <1>6 DEF StoreValue
    <3>2. QED
      BY <3>1 DEF Prelude
  <2>3. StoredValue(imm) = BlockValue[operands[Len(operands)]]
    BY <1>2, <1>6, <2>1 DEF StoredValue, Last
  <2>4. operands' = Block!Without(1)
    BY <1>1, <1>6 DEF Popped, Block!Without
  <2>5. QED
    BY <1>1, <1>2, <1>3, <1>4, <2>2, <2>3, <2>4 DEF Block!Store
<1>7. QED
  BY <1>1, <1>5, <1>6

(* A binary operator with k variables as operands.                         *)
LEMMA ComputeRefines ==
  ASSUME Related, Related', Running, NEW k \in 1 .. 2, Len(operands) >= k,
         NEW temps, NEW right, ResultInR1(k, temps, right)
  PROVE  Block!Compute(k)
<1>1. /\ Running' /\ names' = New
      /\ value' = Extend(value, New, New)
      /\ operands' = Append(Popped(k), New)
      /\ UNCHANGED <<content, points, elements>>
  BY DEF ResultInR1, Running
<1>2. /\ BlockValue = [n \in DOMAIN value |-> value[n]]
      /\ BlockValue' = [n \in DOMAIN value' |-> value'[n]]
      /\ BlockContent' = BlockContent /\ BlockRet' = BlockRet
  BY <1>1, RunningState, RunningNext
<1>3. BlockPoints' = BlockPoints
  BY <1>1, PointsKept
<1>4. BlockValue' = Block!With(BlockValue, New, New)
  BY <1>1, <1>2 DEF Extend, Block!With
<1>5. Block!New = New /\ Block!Without(k) = Popped(k)
  BY DEF Block!New, New, Block!Without, Popped
<1>6. QED
  BY <1>1, <1>2, <1>3, <1>4, <1>5 DEF Block!Compute

LEMMA BinaryOpInstRefines ==
  ASSUME Related, Related', NEW op \in Ops, BinaryOpInst(op)
  PROVE  Running /\ Block!Compute(2)
<1>1. PICK temps, right : ResultInR1(2, temps, right)
  BY DEF BinaryOpInst
<1>2. Running /\ Len(operands) >= 2
  BY DEF BinaryOpInst, Fresh
<1>3. QED
  BY <1>1, <1>2, ComputeRefines

LEMMA BinaryOpImmRefines ==
  ASSUME Related, Related', NEW op \in Ops, NEW imm \in Imms,
         BinaryOpImm(op, imm)
  PROVE  Running /\ Block!Compute(1)
<1>1. PICK temps, right : ResultInR1(1, temps, right)
  BY DEF BinaryOpImm
<1>2. Running /\ Len(operands) >= 1
  <2>1. operands # <<>> /\ Running
    BY DEF BinaryOpImm, Fresh
  <2>2. operands \in Seq(1 .. names)
    BY DEF Related, IInv, TypeOK
  <2>3. QED
    BY <2>1, <2>2, NonEmpty
<1>3. QED
  BY <1>1, <1>2, ComputeRefines

LEMMA ReturnRefines ==
  ASSUME Related, Related', NEW has \in BOOLEAN, NEW imm \in BOOLEAN,
         RetInst(has, imm)
  PROVE  Running /\ \E v \in Block!Results : Block!Return(v)
<1>1. /\ Running /\ ~Running' /\ phase' = "returned" /\ ~Prelude
      /\ UNCHANGED <<names, value, content, points, elements, operands, reg_state>>
      /\ (has /\ ~imm => Len(operands) = 1)
  BY DEF RetInst, func, Running
<1>2. regs \in [Registers -> Vals] /\ 0 \in Registers /\ IInv /\ Correspondence
  <2>1. IInv /\ Correspondence
    BY DEF Related
  <2>2. regs \in [Registers -> Vals]
    BY <2>1 DEF IInv, TypeOK
  <2>3. 0 \in Registers
    BY DEF Registers
  <2>4. QED
    BY <2>1, <2>2, <2>3
<1>3. /\ BlockValue = [n \in DOMAIN value |-> value[n]]
      /\ BlockContent = [c \in DOMAIN content |-> content[c]]
      /\ BlockRet = Undef /\ ret = Undef
  BY <1>1, <1>2, RunningState DEF Correspondence, ResultHolds
<1>4. BlockValue' = BlockValue
  BY <1>1, <1>3 DEF Related
<1>5. BlockContent' = [c \in GlobalCells |-> BlockContent[c]]
  <2>1. BlockContent' = [c \in GlobalCells |-> content'[c]]
    BY <1>1 DEF Related
  <2>2. \A c \in GlobalCells : c \in DOMAIN content
    BY <1>2, GlobalWord
  <2>3. QED
    BY <1>1, <1>3, <2>1, <2>2
<1>6. BlockPoints' = BlockPoints
  BY <1>1, PointsKept
<1>7. ASSUME NEW v, ret' = v, v = Undef \/ regs' = [regs EXCEPT ![0] = v]
      PROVE  Block!Return(v)
  <2>1. BlockRet' = v
    BY <1>2, <1>7 DEF BlockRet
  <2>2. QED
    BY <1>1, <1>4, <1>5, <1>6, <2>1 DEF Block!Return
<1>8. CASE ~has
  <2>1. ret' = Undef
    BY <1>2, <1>3, <1>8, ReturnedValue
  <2>2. QED
    BY <1>1, <1>7, <2>1 DEF Block!Results
<1>9. CASE has /\ imm
  <2>1. ret' = Imm /\ regs' = [regs EXCEPT ![0] = Imm]
    BY <1>2, <1>9, ReturnedValue
  <2>2. QED
    BY <1>1, <1>7, <2>1 DEF Block!Results
<1>10. CASE has /\ ~imm
  <2> DEFINE v == value[Last(operands)]
  <2>1. operands # <<>> /\ ret' = v /\ regs' = [regs EXCEPT ![0] = v]
    BY <1>2, <1>10, ReturnedValue
  <2>2. Last(operands) \in DOMAIN value
    <3>1. operands \in Seq(1 .. names) /\ Len(operands) = 1
      BY <1>1, <1>2, <1>10 DEF IInv, TypeOK
    <3>2. 1 \in DOMAIN operands
      BY <3>1
    <3>3. operands[1] \in DOMAIN var_state
      BY <1>1, <1>2, <3>2 DEF Correspondence, OperandsPlaced
    <3>4. QED
      BY <1>2, <3>1, <3>3 DEF Correspondence, NamesApart, Last
  <2>3. v = BlockValue[operands[Len(operands)]]
    BY <1>3, <2>2 DEF Last
  <2>4. v \in Block!Results
    BY <2>1, <2>3 DEF Block!Results
  <2> HIDE DEF v
  <2>5. QED
    BY <1>1, <1>7, <2>1, <2>4
<1>11. QED
  BY <1>8, <1>9, <1>10

(* What the block is made of when the translator's step changes nothing.   *)
LEMMA StutterRefines ==
  ASSUME UNCHANGED <<names, value, content, points, elements, operands, ret, func,
                     machine>>,
         (phase = "returned") = (phase' = "returned")
  PROVE  /\ BlockValue' = BlockValue /\ BlockPoints' = BlockPoints
         /\ BlockContent' = BlockContent /\ BlockRet' = BlockRet
<1>1. UNCHANGED <<reg_state, ptr_state, stack_state, regs, stack, data>>
  BY DEF func, machine
<1>2. BlockValue' = BlockValue
  BY <1>1 DEF BlockValue, Held
<1>3. BlockPoints' = BlockPoints
  BY PointsKept
<1>4. \A c : Word(c)' = Word(c)
  BY <1>1 DEF Word, Peek, StackSize
<1>5. Reachable' = Reachable
  BY DEF Reachable
<1>6. BlockContent' = BlockContent
  BY <1>4, <1>5 DEF BlockContent
<1>7. BlockRet' = BlockRet
  BY <1>1 DEF BlockRet
<1>8. QED
  BY <1>2, <1>3, <1>6, <1>7

LEMMA NextRefines ==
  ASSUME Supported, Related, Related', [Next]_vars
  PROVE  [Block!Next]_Block!vars
<1>1. ASSUME NEW dims \in Dims \cup {<<>>}, AllocaInst(dims)
      PROVE  Block!Next
  BY <1>1, AllocaRefines DEF Block!Next
<1>2. ASSUME NEW p \in Pointers, NEW idx,
             \/ BitcastInst(p)
             \/ /\ idx \in 0 .. Size(points[points[p].base].dims) - 1
                /\ ElementInst(p, idx)
             \/ idx \in Indices(p) /\ GetelementptrInst(p, idx)
      PROVE  Block!Next
  BY <1>2, PointerRefines DEF Block!Next
<1>3. ASSUME NEW g \in Globals, LoadGlobal(g)
      PROVE  Block!Next
  BY <1>3, CellsAccessible, LoadRefines DEF LoadGlobal, Block!Next
<1>4. ASSUME NEW p \in Addresses, LoadInst(p)
      PROVE  Block!Next
  BY <1>4, CellsAccessible, LoadRefines DEF LoadInst, Block!Next
<1>5. ASSUME NEW imm \in BOOLEAN, NEW g \in Globals, StoreGlobal(imm, g)
      PROVE  Block!Next
  BY <1>5, CellsAccessible, StoreRefines DEF StoreGlobal, Block!Next
<1>6. ASSUME NEW imm \in BOOLEAN, NEW p \in Addresses, StoreInst(imm, p)
      PROVE  Block!Next
  BY <1>6, CellsAccessible, StoreRefines DEF StoreInst, Block!Next
<1>7. ASSUME NEW op \in Ops, BinaryOpInst(op)
      PROVE  Block!Next
  BY <1>7, BinaryOpInstRefines DEF Block!Next
<1>8. ASSUME NEW op \in Ops, NEW imm \in Imms, BinaryOpImm(op, imm)
      PROVE  Block!Next
  BY <1>8, BinaryOpImmRefines DEF Block!Next
<1>9. CASE BinaryOpThrows
  <2>1. Running /\ ~Running' /\ phase' # "returned" /\ phase # "returned"
    BY <1>9 DEF BinaryOpThrows, Fresh, Running
  <2>2. UNCHANGED <<names, value, content, points, elements, operands, ret, func,
                    machine>>
    BY <1>9 DEF BinaryOpThrows, ir
  <2>3. QED
    BY <2>1, <2>2, StutterRefines DEF Block!NoCode, Block!Next
<1>10. ASSUME NEW has \in BOOLEAN, NEW imm \in BOOLEAN, RetInst(has, imm)
       PROVE  Block!Next
  BY <1>10, ReturnRefines DEF Block!Next
<1>11. CASE UNCHANGED vars
  <2>1. /\ UNCHANGED <<names, value, content, points, elements, operands, ret, func,
                       machine>>
        /\ phase' = phase
    BY <1>11 DEF vars, ir
  <2>2. QED
    BY <2>1, StutterRefines DEF Block!vars, Running
<1>12. ASSUME NEW g \in Globals, NEW idx \in GlobalIndices(g),
              GetelementptrGlobal(g, idx)
       PROVE  Block!Next
  BY <1>12, GlobalPointerRefines DEF Block!Next
<1>13. QED
  BY <1>1, <1>2, <1>3, <1>4, <1>5, <1>6, <1>7, <1>8, <1>9, <1>10, <1>11,
     <1>12 DEF Next, Stopped

(* Each instruction's code changes the one word its cell lies in and no    *)
(* register that still holds another name, and the caller finds the        *)
(* result in r0: the machine code does what the block of IR says.          *)
THEOREM TranslationImplementsBlock ==
  ASSUME Supported
  PROVE  Spec => ImplementsBlock
<1>1. Init => Block!Init
  BY InitRefines
<1>2. Related /\ Related' /\ [Next]_vars => [Block!Next]_Block!vars
  BY NextRefines
<1>3. Spec => []Related
  BY CorrespondenceInvariance, RelatedState, PTL
<1>4. QED
  BY <1>1, <1>2, <1>3, PTL DEF Spec, ImplementsBlock, Block!Spec
=============================================================================
