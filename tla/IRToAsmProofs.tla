--------------------------- MODULE IRToAsmProofs ---------------------------
(* Machine-checked proofs about IRToAsm, for every value of its constants. *)
EXTENDS IRToAsm, FiniteSetTheorems, TLAPS

-----------------------------------------------------------------------------
(* Facts about the operators.                                              *)

(* A global variable that is an int has one word in the data section.      *)
LEMMA GlobalCellOfInt ==
  ASSUME NEW g \in Globals, GlobalDims[g] = <<>>
  PROVE  Cell(g, 0) \in GlobalCells
<1>1. Size(GlobalDims[g]) \in Nat \ {0}
  BY GlobalDimsAssumption
<1> DEFINE size == Size(GlobalDims[g])
<1>2. Cell(g, 0) \in Cells(g, size)
  <2> HIDE DEF size
  <2>1. 0 \in 0 .. size - 1
    BY <1>1 DEF size
  <2>2. QED
    BY <2>1 DEF Cells
<1>3. QED
  BY <1>2 DEF GlobalCells

LEMMA PoppedIsSeq ==
  ASSUME NEW S, operands \in Seq(S), NEW k \in 0 .. Len(operands)
  PROVE  /\ Popped(k) \in Seq(S)
         /\ Len(Popped(k)) = Len(operands) - k
         /\ \A i \in 1 .. Len(operands) - k : Popped(k)[i] = operands[i]
BY DEF Popped

LEMMA LastIsElement ==
  ASSUME NEW S, NEW s \in Seq(S), s # <<>>
  PROVE  Last(s) \in S /\ Last(s) = s[Len(s)] /\ Len(s) \in DOMAIN s
BY DEF Last

LEMMA NonEmpty ==
  ASSUME NEW S, NEW s \in Seq(S)
  PROVE  Len(s) \in Nat /\ (s # <<>> <=> Len(s) >= 1)
OBVIOUS

LEMMA ConcatIsSeq ==
  ASSUME NEW S, NEW s \in Seq(S), NEW t \in Seq(S)
  PROVE  s \o t \in Seq(S) /\ Len(s \o t) = Len(s) + Len(t)
OBVIOUS

(* Reading and writing a word of a stack keeps its type and its length.    *)
LEMMA PeekType ==
  ASSUME NEW st \in Seq(Vals), NEW off
  PROVE  Peek(st, off) \in Vals
BY DEF Peek, Vals, Wrong

LEMMA PokeType ==
  ASSUME NEW st \in Seq(Vals), NEW off, NEW v \in Vals
  PROVE  Poke(st, off, v) \in Seq(Vals) /\ Len(Poke(st, off, v)) = Len(st)
BY DEF Poke

(* An array takes as many keys of the table as it has words.               *)
LEMMA CellsOfArray ==
  ASSUME NEW n, NEW size \in Nat
  PROVE  IsFiniteSet(Cells(n, size)) /\ Cardinality(Cells(n, size)) = size
<1> DEFINE S == Cells(n, size)
           f == [i \in 0 .. size - 1 |-> Cell(n, i)]
<1>1. f \in Bijection(0 .. size - 1, S)
  <2>1. f \in Injection(0 .. size - 1, S)
    BY DEF Injection, IsInjective, Cell, Cells
  <2>2. f \in Surjection(0 .. size - 1, S)
    BY DEF Surjection, Cells
  <2>3. QED
    BY <2>1, <2>2 DEF Bijection
<1>2. ExistsBijection(0 .. size - 1, S)
  BY <1>1 DEF ExistsBijection
<1>3. IsFiniteSet(0 .. size - 1) /\ Cardinality(0 .. size - 1) = size
  BY FS_Interval
<1>4. QED
  BY <1>2, <1>3, FS_Bijection

-----------------------------------------------------------------------------
(* The inductive invariant: the tables' types, their agreement with sp and *)
(* with each other, and what the uses of the top of operands rely on.      *)

FiniteTable == IsFiniteSet(DOMAIN stack_state)

OperandsKnown ==
  /\ Prelude => \A k \in DOMAIN operands : operands[k] <= NumParams
  /\ ~Prelude /\ operands # <<>> => Last(operands) \in DOMAIN var_state

IInv ==
  /\ TypeOK
  /\ FiniteTable
  /\ SpMatchesTable
  /\ RegistersAgree
  /\ OperandsKnown
  /\ TopInRegister

LEMMA InitIInv == Init => IInv
<1> SUFFICES ASSUME Init
             PROVE  IInv
  OBVIOUS
<1> USE NumParamsAssumption DEF Init
<1>1. TypeOK
  <2>1. operands \in Seq(1 .. names)
    OBVIOUS
  <2>2. regs \in [Registers -> Vals]
    BY DEF Registers, Vals, Wrong
  <2>3. data \in [GlobalCells -> Vals]
    BY DEF Vals, Undef
  <2>4. reg_state \in [Registers -> 0 .. names]
    BY DEF NoName
  <2>5. QED
    BY <2>1, <2>2, <2>3, <2>4 DEF TypeOK, Pointers, Elements
<1>2. FiniteTable /\ SpMatchesTable
  <2>1. DOMAIN stack_state = {}
    OBVIOUS
  <2>2. QED
    BY <2>1, FS_EmptySet DEF FiniteTable, SpMatchesTable, StackSize, Running
<1>3. RegistersAgree
  BY DEF RegistersAgree, NoName
<1>4. OperandsKnown /\ TopInRegister
  <2>1. \A k \in DOMAIN operands : operands[k] <= NumParams
    OBVIOUS
  <2>2. operands # <<>> => Prelude
    <3>1. operands \in Seq(Nat)
      OBVIOUS
    <3>2. QED
      BY <2>1, <3>1, LastIsElement DEF Prelude
  <2>3. QED
    BY <2>1, <2>2 DEF OperandsKnown, TopInRegister, Prelude
<1>5. QED
  BY <1>1, <1>2, <1>3, <1>4 DEF IInv

-----------------------------------------------------------------------------
(* What GetReg does to the table and to the stack: both grow by the same.  *)
LEMMA GetRegTable ==
  ASSUME TypeOK, FiniteTable, NEW id \in Registers
  PROVE  /\ IsFiniteSet(DOMAIN GetRegSlots(id))
         /\ DOMAIN GetRegSlots(id) \subseteq (1 .. names) \X Nat
         /\ \A c \in DOMAIN GetRegSlots(id) : GetRegSlots(id)[c] \in Nat
         /\ GetRegStack(id) \in Seq(Vals)
         /\ Len(stack) = StackSize =>
              Len(GetRegStack(id)) = Cardinality(DOMAIN GetRegSlots(id))
<1>0. /\ StackSize \in Nat
      /\ Evicted(id) \in 0 .. names
      /\ regs[id] \in Vals
      /\ stack \in Seq(Vals)
  BY FS_CardinalityType DEF FiniteTable, StackSize, TypeOK, Evicted
<1>1. CASE Evicted(id) = NoName
  <2>1. GetRegSlots(id) = stack_state /\ GetRegStack(id) = stack
    BY <1>1 DEF GetRegSlots, GetRegStack, Pushes
  <2>2. QED
    BY <2>1 DEF TypeOK, FiniteTable, StackSize
<1>2. CASE Evicted(id) # NoName /\ Pushes(id)
  <2> DEFINE c == Cell(Evicted(id), 0)
  <2>1. GetRegSlots(id) = Extend(stack_state, c, StackSize)
    BY <1>2 DEF GetRegSlots
  <2>2. GetRegStack(id) = Append(stack, regs[id])
    BY <1>2, ZenonT(30) DEF GetRegStack
  <2>3. c \notin DOMAIN stack_state /\ c \in (1 .. names) \X Nat
    BY <1>0, <1>2 DEF Pushes, NoName, Cell, TypeOK
  <2>4. DOMAIN GetRegSlots(id) = DOMAIN stack_state \cup {c}
    BY <2>1 DEF Extend
  <2>5. \A d \in DOMAIN GetRegSlots(id) : GetRegSlots(id)[d] \in Nat
    BY <1>0, <2>1 DEF Extend, TypeOK
  <2>6. /\ IsFiniteSet(DOMAIN GetRegSlots(id))
        /\ Cardinality(DOMAIN GetRegSlots(id)) = StackSize + 1
    BY <2>3, <2>4, FS_AddElement DEF FiniteTable, StackSize
  <2>7. GetRegStack(id) \in Seq(Vals) /\ Len(GetRegStack(id)) = Len(stack) + 1
    BY <1>0, <2>2
  <2> HIDE DEF c
  <2>8. QED
    BY <2>3, <2>4, <2>5, <2>6, <2>7 DEF TypeOK
<1>3. CASE Evicted(id) # NoName /\ ~Pushes(id)
  <2> DEFINE off == StackSize - stack_state[Cell(Evicted(id), 0)]
  <2>1. GetRegSlots(id) = stack_state
    BY <1>3 DEF GetRegSlots
  <2>2. GetRegStack(id) = Poke(stack, off, regs[id])
    BY <1>3, ZenonT(30) DEF GetRegStack
  <2> HIDE DEF off
  <2>3. GetRegStack(id) \in Seq(Vals) /\ Len(GetRegStack(id)) = Len(stack)
    BY <1>0, <2>2, PokeType
  <2>4. QED
    BY <2>1, <2>3 DEF TypeOK, FiniteTable, StackSize
<1>4. QED
  BY <1>1, <1>2, <1>3

(* A new variable in a register other than 0: the tables still agree.      *)
LEMMA AssignAgrees ==
  ASSUME TypeOK, RegistersAgree, NEW id \in Registers \ {0},
         names' = New,
         reg_state' = [reg_state EXCEPT ![id] = New],
         var_state' = Assigned(id, New)
  PROVE  /\ RegistersAgree'
         /\ reg_state' \in [Registers -> 0 .. names']
         /\ DOMAIN var_state' \subseteq 1 .. names'
         /\ \A n \in DOMAIN var_state' : var_state'[n] \in Registers \cup {InStack}
         /\ New \in DOMAIN var_state' /\ var_state'[New] # InStack
<1>0. /\ names \in Nat /\ New = names + 1
      /\ reg_state \in [Registers -> 0 .. names]
      /\ DOMAIN var_state \subseteq 1 .. names
      /\ New \notin DOMAIN var_state
      /\ InStack = -1 /\ NoName = 0 /\ Registers = 0 .. 9
  <2>1. names \in Nat /\ reg_state \in [Registers -> 0 .. names]
    BY DEF TypeOK
  <2>2. DOMAIN var_state \subseteq 1 .. names
    BY DEF TypeOK
  <2>3. New = names + 1
    BY DEF New
  <2>4. New \notin DOMAIN var_state
    BY <2>1, <2>2, <2>3
  <2>5. QED
    BY <2>1, <2>2, <2>3, <2>4 DEF InStack, NoName, Registers
<1>1. DOMAIN GetRegVars(id) = DOMAIN var_state
  BY DEF GetRegVars
<1>2. DOMAIN var_state' = DOMAIN var_state \cup {New}
  BY <1>1 DEF Assigned, Extend
<1>3. var_state'[New] = id
  BY <1>1 DEF Assigned, Extend
<1>4. \A n \in DOMAIN var_state :
        var_state'[n] = IF n = reg_state[id] THEN InStack ELSE var_state[n]
  <2> SUFFICES ASSUME NEW n \in DOMAIN var_state
               PROVE  var_state'[n] = IF n = reg_state[id] THEN InStack
                                      ELSE var_state[n]
    OBVIOUS
  <2>1. var_state'[n] = GetRegVars(id)[n]
    BY <1>0, <1>1 DEF Assigned, Extend
  <2>2. QED
    BY <1>0, <2>1 DEF GetRegVars, Evicted
<1>5. \A r \in Registers : reg_state'[r] = IF r = id THEN New ELSE reg_state[r]
  BY <1>0
<1>6. \A r \in Registers : reg_state'[r] # NoName =>
        reg_state'[r] \in DOMAIN var_state' /\ var_state'[reg_state'[r]] = r
  <2> SUFFICES ASSUME NEW r \in Registers, reg_state'[r] # NoName
               PROVE  /\ reg_state'[r] \in DOMAIN var_state'
                      /\ var_state'[reg_state'[r]] = r
    OBVIOUS
  <2>1. CASE r = id
    BY <2>1, <1>2, <1>3, <1>5
  <2>2. CASE r # id
    <3>1. reg_state'[r] = reg_state[r]
      BY <1>5, <2>2
    <3>2. reg_state[r] \in DOMAIN var_state /\ var_state[reg_state[r]] = r
      BY <3>1 DEF RegistersAgree
    <3>3. reg_state[r] # reg_state[id]
      BY <1>0, <2>2, <3>1, <3>2 DEF RegistersAgree
    <3>4. QED
      BY <1>2, <1>4, <3>1, <3>2, <3>3
  <2>3. QED
    BY <2>1, <2>2
<1>7. \A n \in DOMAIN var_state' :
        var_state'[n] > 0 => reg_state'[var_state'[n]] = n
  <2> SUFFICES ASSUME NEW n \in DOMAIN var_state', var_state'[n] > 0
               PROVE  reg_state'[var_state'[n]] = n
    OBVIOUS
  <2>1. CASE n = New
    BY <2>1, <1>3, <1>5
  <2>2. CASE n # New
    <3>1. n \in DOMAIN var_state /\ n # reg_state[id]
      BY <1>0, <1>2, <1>4, <2>2
    <3>2. var_state'[n] = var_state[n]
      BY <1>4, <3>1
    <3>3. reg_state[var_state[n]] = n
      BY <3>1, <3>2 DEF RegistersAgree
    <3>4. var_state[n] \in Registers
      BY <1>0, <3>1, <3>2 DEF TypeOK
    <3>5. QED
      BY <1>5, <3>1, <3>2, <3>3, <3>4
  <2>3. QED
    BY <2>1, <2>2
<1>8. reg_state' \in [Registers -> 0 .. names']
  BY <1>0
<1>9. \A n \in DOMAIN var_state' : var_state'[n] \in Registers \cup {InStack}
  BY <1>2, <1>3, <1>4 DEF TypeOK
<1>10. DOMAIN var_state' \subseteq 1 .. names'
  BY <1>0, <1>2
<1>11. New \in DOMAIN var_state' /\ var_state'[New] # InStack
  BY <1>0, <1>2, <1>3
<1>12. QED
  BY <1>6, <1>7, <1>8, <1>9, <1>10, <1>11 DEF RegistersAgree

-----------------------------------------------------------------------------
(* One lemma per action; those that define a temporary share the first.    *)

LEMMA NewTemporary ==
  ASSUME IInv, Running, NEW id \in Registers \ {0}, NEW q \in Seq(1 .. names),
         names' = New, operands' = Append(q, New),
         reg_state' = [reg_state EXCEPT ![id] = New],
         var_state' = Assigned(id, New),
         stack_state' = GetRegSlots(id), stack' = GetRegStack(id),
         regs' \in [Registers -> Vals],
         UNCHANGED <<points, elements, ptr_state, data, phase>>
  PROVE  IInv'
<1>0. /\ names \in Nat /\ New = names + 1 /\ id \in Registers
      /\ TypeOK /\ FiniteTable /\ SpMatchesTable /\ RegistersAgree
      /\ NumParams \in Nat
  BY NumParamsAssumption DEF IInv, TypeOK, New
<1>1. /\ IsFiniteSet(DOMAIN stack_state')
      /\ DOMAIN stack_state' \subseteq (1 .. names) \X Nat
      /\ \A c \in DOMAIN stack_state' : stack_state'[c] \in Nat
      /\ stack' \in Seq(Vals)
      /\ Len(stack) = StackSize => Len(stack') = Cardinality(DOMAIN stack_state')
  BY <1>0, GetRegTable
<1>2. /\ RegistersAgree'
      /\ reg_state' \in [Registers -> 0 .. names']
      /\ DOMAIN var_state' \subseteq 1 .. names'
      /\ \A n \in DOMAIN var_state' : var_state'[n] \in Registers \cup {InStack}
      /\ New \in DOMAIN var_state' /\ var_state'[New] # InStack
  BY <1>0, AssignAgrees
<1>3. /\ operands' \in Seq(1 .. names') /\ operands' # <<>>
      /\ Last(operands') = New
  <2>1. operands' \in Seq(1 .. names') /\ operands' # <<>>
    BY <1>0
  <2>2. operands'[Len(operands')] = New
    OBVIOUS
  <2>3. QED
    BY <2>1, <2>2, LastIsElement
<1>4. TypeOK'
  <2>1. /\ Pointers' \cup Elements' \subseteq DOMAIN ptr_state' \cap (1 .. names')
        /\ DOMAIN ptr_state' \subseteq Pointers' \cup Elements' \cup Globals
        /\ DOMAIN stack_state' \subseteq (1 .. names') \X Nat
    BY <1>0, <1>1 DEF TypeOK, Pointers, Elements
  <2>2. names' \in Nat /\ phase' \in {"run", "returned", "thrown"}
    BY <1>0 DEF TypeOK
  <2>3. data' \in [GlobalCells -> Vals]
    BY <1>0 DEF TypeOK
  <2>4. QED
    BY <1>1, <1>2, <1>3, <2>1, <2>2, <2>3 DEF TypeOK
<1>5. FiniteTable' /\ SpMatchesTable'
  BY <1>0, <1>1 DEF FiniteTable, SpMatchesTable, StackSize, Running
<1>6. OperandsKnown' /\ TopInRegister'
  <2>1. CASE New <= NumParams
    <3>1. Prelude'
      BY <1>3, <2>1 DEF Prelude
    <3>2. \A k \in DOMAIN operands' : operands'[k] <= NumParams
      <4>1. \A k \in DOMAIN operands' : operands'[k] \in 1 .. names'
        BY <1>3
      <4>2. \A n \in 1 .. names' : n <= NumParams
        BY <1>0, <2>1
      <4>3. QED
        BY <4>1, <4>2
    <3>3. QED
      BY <3>1, <3>2 DEF OperandsKnown, TopInRegister
  <2>2. CASE ~(New <= NumParams)
    <3>1. ~Prelude'
      BY <1>3, <2>2 DEF Prelude
    <3>2. Last(operands') \in DOMAIN var_state' /\ var_state'[Last(operands')] # InStack
      BY <1>2, <1>3
    <3>3. QED
      BY <3>1, <3>2 DEF OperandsKnown, TopInRegister
  <2>3. QED
    BY <2>1, <2>2
<1>7. QED
  BY <1>2, <1>4, <1>5, <1>6 DEF IInv

LEMMA AllocaPreserves ==
  ASSUME IInv, NEW dims \in Dims \cup {<<>>}, AllocaInst(dims)
  PROVE  IInv'
<1> DEFINE size  == Size(dims)
           cells == Cells(New, size)
           first == SlotsBase(StackSize)
           word  == [i \in 1 .. size |-> Undef]
<1>0. /\ TypeOK /\ FiniteTable /\ SpMatchesTable /\ RegistersAgree
      /\ OperandsKnown /\ TopInRegister
      /\ names \in Nat /\ New = names + 1 /\ size \in Nat
      /\ StackSize \in Nat /\ first = StackSize + 1
  BY DimsAssumption, FS_CardinalityType
     DEF IInv, TypeOK, New, FiniteTable, StackSize, SlotsBase
<1>1. /\ names' = New /\ phase = "run" /\ Running
      /\ points' = Extend(points, New, Place(New, 0, dims))
      /\ stack_state' = [c \in DOMAIN stack_state \cup cells |->
                           IF c \in cells THEN first + c[2] ELSE stack_state[c]]
      /\ ptr_state' = Extend(ptr_state, New, first)
      /\ stack' = stack \o word
      /\ UNCHANGED <<elements, operands, reg_state, var_state, regs, data, phase>>
  BY DEF AllocaInst, Running
<1>2. /\ IsFiniteSet(cells) /\ Cardinality(cells) = size
      /\ cells \subseteq (1 .. names') \X Nat
      /\ cells \cap DOMAIN stack_state = {}
      /\ \A c \in cells : c[2] \in Nat
  <2>1. IsFiniteSet(cells) /\ Cardinality(cells) = size
    BY <1>0, CellsOfArray
  <2>2. cells \subseteq (1 .. names') \X Nat /\ \A c \in cells : c[2] \in Nat
    BY <1>0, <1>1 DEF Cell, Cells
  <2>3. \A c \in cells : c[1] = names + 1
    BY <1>0 DEF Cell, Cells
  <2>4. \A c \in DOMAIN stack_state : c[1] \in 1 .. names
    BY <1>0 DEF TypeOK
  <2>5. cells \cap DOMAIN stack_state = {}
    BY <1>0, <2>3, <2>4
  <2>6. QED
    BY <2>1, <2>2, <2>5
<1>3. /\ IsFiniteSet(DOMAIN stack_state')
      /\ Cardinality(DOMAIN stack_state') = StackSize + size
  <2> HIDE DEF cells, size
  <2>1. DOMAIN stack_state' = DOMAIN stack_state \cup cells
    BY <1>1
  <2>2. IsFiniteSet(DOMAIN stack_state)
    BY <1>0 DEF FiniteTable
  <2>3. Cardinality(DOMAIN stack_state \cap cells) = 0
    BY <1>2, FS_EmptySet
  <2>4. QED
    BY <1>0, <1>2, <2>1, <2>2, <2>3, FS_Union DEF StackSize
<1>4. /\ DOMAIN stack_state' \subseteq (1 .. names') \X Nat
      /\ \A c \in DOMAIN stack_state' : stack_state'[c] \in Nat
  <2> HIDE DEF cells, first
  <2>1. (1 .. names) \X Nat \subseteq (1 .. names') \X Nat
    BY <1>0, <1>1
  <2>2. DOMAIN stack_state' \subseteq (1 .. names') \X Nat
    BY <1>0, <1>1, <1>2, <2>1 DEF TypeOK
  <2>3. \A c \in DOMAIN stack_state' : stack_state'[c] \in Nat
    BY <1>0, <1>1, <1>2 DEF TypeOK
  <2>4. QED
    BY <2>2, <2>3
<1>5. stack' \in Seq(Vals) /\ Len(stack') = Len(stack) + size
  <2>1. word \in Seq(Vals) /\ Len(word) = size
    BY <1>0 DEF Vals
  <2>2. stack \in Seq(Vals)
    BY <1>0 DEF TypeOK
  <2> HIDE DEF word, size
  <2>3. Len(stack \o word) = Len(stack) + Len(word) /\ stack \o word \in Seq(Vals)
    BY <2>1, <2>2, ConcatIsSeq
  <2>4. QED
    BY <1>1, <2>1, <2>3
<1> HIDE DEF size, cells, first, word
<1>6. TypeOK'
  <2>1. /\ Pointers' \cup Elements' \subseteq DOMAIN ptr_state' \cap (1 .. names')
        /\ DOMAIN ptr_state' \subseteq Pointers' \cup Elements' \cup Globals
    <3>1. /\ Pointers' = Pointers \cup {names'} /\ Elements' = Elements
          /\ DOMAIN ptr_state' = DOMAIN ptr_state \cup {names'}
      BY <1>1 DEF Pointers, Elements, Extend
    <3>2. QED
      BY <1>0, <1>1, <3>1 DEF TypeOK
  <2>2. names' \in Nat /\ operands' \in Seq(1 .. names')
    BY <1>0, <1>1 DEF TypeOK
  <2>3. /\ reg_state' \in [Registers -> 0 .. names']
        /\ DOMAIN var_state' \subseteq 1 .. names'
    BY <1>0, <1>1 DEF TypeOK
  <2>4. QED
    BY <1>0, <1>1, <1>4, <1>5, <2>1, <2>2, <2>3 DEF TypeOK
<1>7. FiniteTable' /\ SpMatchesTable'
  BY <1>0, <1>1, <1>3, <1>5 DEF FiniteTable, SpMatchesTable, StackSize, Running
<1>8. RegistersAgree' /\ OperandsKnown' /\ TopInRegister'
  BY <1>0, <1>1 DEF RegistersAgree, OperandsKnown, TopInRegister, Prelude
<1>9. QED
  BY <1>6, <1>7, <1>8 DEF IInv

(* bitcast and getelementptr only name an address.                         *)
LEMMA AddressPreserves ==
  ASSUME IInv, names' = New,
         Pointers' \cup Elements' = Pointers \cup Elements \cup {New},
         DOMAIN ptr_state \cup {New} \subseteq DOMAIN ptr_state',
         DOMAIN ptr_state' \subseteq DOMAIN ptr_state \cup {New} \cup Globals,
         UNCHANGED <<operands, reg_state, var_state, stack_state,
                     regs, stack, data, phase>>
  PROVE  IInv'
<1>0. TypeOK /\ names \in Nat /\ names' = names + 1 /\ New = names'
  BY DEF IInv, TypeOK, New
<1>1. TypeOK'
  <2>1. /\ Pointers' \cup Elements' \subseteq DOMAIN ptr_state' \cap (1 .. names')
        /\ DOMAIN ptr_state' \subseteq Pointers' \cup Elements' \cup Globals
    BY <1>0 DEF TypeOK
  <2>2. names' \in Nat /\ operands' \in Seq(1 .. names')
    BY <1>0 DEF TypeOK
  <2>3. /\ reg_state' \in [Registers -> 0 .. names']
        /\ DOMAIN var_state' \subseteq 1 .. names'
    BY <1>0 DEF TypeOK
  <2>4. DOMAIN stack_state' \subseteq (1 .. names') \X Nat
    BY <1>0 DEF TypeOK
  <2>5. QED
    BY <1>0, <2>1, <2>2, <2>3, <2>4 DEF TypeOK
<1>2. FiniteTable' /\ SpMatchesTable'
  BY <1>0 DEF IInv, FiniteTable, SpMatchesTable, StackSize, Running
<1>3. RegistersAgree' /\ OperandsKnown' /\ TopInRegister'
  BY <1>0 DEF IInv, RegistersAgree, OperandsKnown, TopInRegister, Prelude
<1>4. QED
  BY <1>1, <1>2, <1>3 DEF IInv

LEMMA NewPointerPreserves ==
  ASSUME IInv, NEW base, NEW i, NEW pos, NewPointer(base, i, pos)
  PROVE  IInv'
<1>1. /\ names' = New /\ Pointers' = Pointers \cup {New} /\ Elements' = Elements
      /\ DOMAIN ptr_state' = DOMAIN ptr_state \cup {New}
      /\ UNCHANGED <<operands, reg_state, var_state, stack_state,
                     regs, stack, data, phase>>
  BY DEF NewPointer, Extend, Pointers, Elements, machine
<1>2. QED
  BY <1>1, AddressPreserves

LEMMA GlobalPointerPreserves ==
  ASSUME IInv, NEW g \in Globals, NEW idx, GetelementptrGlobal(g, idx)
  PROVE  IInv'
<1>1. /\ names' = New /\ Pointers' = Pointers /\ Elements' = Elements \cup {New}
      /\ UNCHANGED <<operands, reg_state, var_state, stack_state,
                     regs, stack, data, phase>>
  BY DEF GetelementptrGlobal, Extend, Pointers, Elements, machine
<1>2. DOMAIN ptr_state' = DOMAIN ptr_state \cup {g} \cup {New}
  BY DEF GetelementptrGlobal, Extend
<1>3. QED
  BY <1>1, <1>2, AddressPreserves

LEMMA LoadPreserves ==
  ASSUME IInv, NEW v, NEW loaded \in Vals, NEW temps \in [Registers -> Vals],
         LoadInto(LoadReg, v, loaded, temps)
  PROVE  IInv'
<1>1. LoadReg \in Registers \ {0}
  BY DEF LoadReg, Registers
<1>2. operands \in Seq(1 .. names)
  BY DEF IInv, TypeOK
<1>3. regs' \in [Registers -> Vals]
  BY <1>1 DEF LoadInto
<1>4. Running
  BY DEF LoadInto, Fresh
<1>5. /\ names' = New /\ operands' = Append(operands, New)
      /\ reg_state' = [reg_state EXCEPT ![LoadReg] = New]
      /\ var_state' = Assigned(LoadReg, New)
      /\ stack_state' = GetRegSlots(LoadReg) /\ stack' = GetRegStack(LoadReg)
      /\ UNCHANGED <<points, elements, ptr_state, data, phase>>
  BY DEF LoadInto
<1>6. QED
  BY <1>1, <1>2, <1>3, <1>4, <1>5, NewTemporary

LEMMA StoredTypes ==
  ASSUME TypeOK, NEW imm \in BOOLEAN
  PROVE  /\ StoredRegs(imm) \in [Registers -> Vals]
         /\ StoredWord(imm) \in Vals
<1>1. Imm \in Vals /\ Wrong \in Vals
  BY DEF Vals
<1>2. StoredRegs(imm) \in [Registers -> Vals]
  BY <1>1 DEF StoredRegs, TypeOK
<1>3. QED
  BY <1>1, <1>2 DEF StoredWord

LEMMA StorePreserves ==
  ASSUME IInv, NEW imm \in BOOLEAN, NEW c, StoreValue(imm, c),
         regs' \in [Registers -> Vals], data' \in [GlobalCells -> Vals],
         stack' \in Seq(Vals), Len(stack') = Len(stack)
  PROVE  IInv'
<1> DEFINE v == Last(operands)
<1>0. /\ TypeOK /\ SpMatchesTable /\ FiniteTable /\ RegistersAgree
      /\ OperandsKnown /\ TopInRegister
      /\ operands \in Seq(1 .. names) /\ names \in Nat /\ NumParams \in Nat
      /\ UNCHANGED <<names, points, elements, reg_state, stack_state, ptr_state,
                     phase>>
      /\ Running
  BY NumParamsAssumption DEF IInv, TypeOK, StoreValue
<1>length. Len(operands) \in Nat /\ (operands # <<>> <=> Len(operands) >= 1)
  <2>1. operands \in Seq(1 .. names)
    BY <1>0
  <2>2. QED
    BY <2>1, NonEmpty
<1>nonEmpty. ~imm => operands # <<>>
  <2>1. ~imm => Prelude \/ Len(operands) = 1
    BY DEF StoreValue
  <2>2. Prelude => operands # <<>>
    BY DEF Prelude
  <2>3. Len(operands) = 1 => operands # <<>>
    BY <1>length
  <2>4. QED
    BY <2>1, <2>2, <2>3
<1>1. /\ DOMAIN var_state' \subseteq 1 .. names
      /\ DOMAIN var_state \subseteq DOMAIN var_state'
      /\ \A n \in DOMAIN var_state' :
           var_state'[n] = IF n \in DOMAIN var_state THEN var_state[n] ELSE 0
  <2>1. CASE imm
    <3>1. var_state' = var_state
      BY <2>1 DEF StoreValue, StoredVars
    <3>2. QED
      BY <1>0, <3>1 DEF TypeOK
  <2>2. CASE ~imm
    <3>1. operands # <<>>
      BY <2>2, <1>nonEmpty
    <3>2. v \in 1 .. names
      BY <1>0, <3>1, LastIsElement
    <3>3. var_state' = Extend(var_state, v, RegOf(v))
      BY <2>2 DEF StoreValue, StoredVars
    <3> HIDE DEF v
    <3>4. DOMAIN var_state' = DOMAIN var_state \cup {v}
      BY <3>3 DEF Extend
    <3>5. \A n \in DOMAIN var_state' :
            var_state'[n] = IF n = v THEN RegOf(v) ELSE var_state[n]
      BY <3>3 DEF Extend
    <3>6. QED
      BY <1>0, <3>2, <3>4, <3>5 DEF TypeOK, RegOf
  <2>3. QED
    BY <2>1, <2>2
<1>2. /\ operands' \in Seq(1 .. names)
      /\ operands' # <<>> => Prelude'
      /\ \A k \in DOMAIN operands' : operands'[k] <= NumParams
  <2>1. CASE imm
    BY <1>0, <2>1 DEF StoreValue
  <2>2. CASE ~imm
    <3>1. operands # <<>> /\ 1 \in 0 .. Len(operands)
      BY <2>2, <1>length, <1>nonEmpty
    <3>2. /\ operands' \in Seq(1 .. names) /\ Len(operands') = Len(operands) - 1
          /\ \A k \in 1 .. Len(operands) - 1 : operands'[k] = operands[k]
      <4>1. operands' = Popped(1)
        BY <2>2 DEF StoreValue
      <4>2. QED
        BY <1>0, <3>1, <4>1, PoppedIsSeq
    <3>3. Prelude \/ Len(operands) = 1
      BY <2>2 DEF StoreValue
    <3>4. \A k \in DOMAIN operands' : operands'[k] <= NumParams
      <4>1. CASE Prelude
        <5>1. \A k \in DOMAIN operands : operands[k] <= NumParams
          BY <1>0, <4>1 DEF OperandsKnown
        <5>2. /\ DOMAIN operands' = 1 .. Len(operands) - 1
              /\ DOMAIN operands = 1 .. Len(operands)
          BY <1>0, <3>2
        <5>3. SUFFICES ASSUME NEW k \in 1 .. Len(operands) - 1
                       PROVE  operands'[k] <= NumParams
          BY <5>2
        <5>4. operands'[k] = operands[k]
          BY <3>2
        <5>5. k \in DOMAIN operands
          BY <1>0, <5>2
        <5>6. QED
          BY <5>1, <5>4, <5>5
      <4>2. CASE Len(operands) = 1
        BY <3>2, <4>2
      <4>3. QED
        BY <3>3, <4>1, <4>2
    <3>5. operands' # <<>> => Prelude'
      BY <3>2, <3>4, LastIsElement DEF Prelude
    <3>6. QED
      BY <3>2, <3>4, <3>5
  <2>3. QED
    BY <2>1, <2>2
<1> HIDE DEF v
<1>3. TypeOK'
  <2>1. \A n \in DOMAIN var_state' : var_state'[n] \in Registers \cup {InStack}
    <3>1. 0 \in Registers
      BY DEF Registers
    <3>2. \A n \in DOMAIN var_state : var_state[n] \in Registers \cup {InStack}
      BY <1>0 DEF TypeOK
    <3>3. QED
      BY <1>1, <3>1, <3>2
  <2>2. QED
    BY <1>0, <1>1, <1>2, <2>1 DEF TypeOK, Pointers, Elements
<1>4. FiniteTable' /\ SpMatchesTable'
  BY <1>0 DEF FiniteTable, SpMatchesTable, StackSize, Running
<1>5. RegistersAgree'
  <2>1. \A r \in Registers : reg_state'[r] = reg_state[r]
    BY <1>0
  <2>2. \A r \in Registers : reg_state'[r] # NoName =>
          reg_state'[r] \in DOMAIN var_state' /\ var_state'[reg_state'[r]] = r
    BY <1>0, <1>1, <2>1 DEF RegistersAgree
  <2>3. \A n \in DOMAIN var_state' :
          var_state'[n] > 0 => reg_state'[var_state'[n]] = n
    BY <1>0, <1>1 DEF RegistersAgree
  <2>4. QED
    BY <2>2, <2>3 DEF RegistersAgree
<1>6. OperandsKnown' /\ TopInRegister'
  BY <1>0, <1>2 DEF OperandsKnown, TopInRegister
<1>7. QED
  BY <1>3, <1>4, <1>5, <1>6 DEF IInv

LEMMA StoreInstPreserves ==
  ASSUME IInv, NEW imm \in BOOLEAN, NEW p \in Addresses, StoreInst(imm, p)
  PROVE  IInv'
<1>1. TypeOK
  BY DEF IInv
<1>2. StoredRegs(imm) \in [Registers -> Vals] /\ StoredWord(imm) \in Vals
  BY <1>1, StoredTypes
<1>3. stack' \in Seq(Vals) /\ Len(stack') = Len(stack)
  BY <1>1, <1>2, PokeType DEF StoreInst, TypeOK
<1>4. regs' \in [Registers -> Vals] /\ data' \in [GlobalCells -> Vals]
  BY <1>1, <1>2 DEF StoreInst, TypeOK
<1>5. QED
  BY <1>3, <1>4, StorePreserves DEF StoreInst

LEMMA StoreGlobalPreserves ==
  ASSUME IInv, NEW imm \in BOOLEAN, NEW g \in Globals, StoreGlobal(imm, g)
  PROVE  IInv'
<1>1. TypeOK
  BY DEF IInv
<1>2. StoredRegs(imm) \in [Registers -> Vals] /\ StoredWord(imm) \in Vals
  BY <1>1, StoredTypes
<1>3. stack' \in Seq(Vals) /\ Len(stack') = Len(stack)
  BY <1>1 DEF StoreGlobal, TypeOK
<1>4. regs' \in [Registers -> Vals]
  BY <1>2 DEF StoreGlobal, Vals
<1>5. data' \in [GlobalCells -> Vals]
  BY <1>1, <1>2 DEF StoreGlobal, TypeOK
<1>6. QED
  BY <1>3, <1>4, <1>5, StorePreserves DEF StoreGlobal

(* The word a global or a pointer stands for is loaded.                    *)
LEMMA LoadGlobalPreserves ==
  ASSUME IInv, NEW g \in Globals, LoadGlobal(g)
  PROVE  IInv'
<1> DEFINE temps == [regs EXCEPT ![5] = Wrong]
<1>1. data[Cell(g, 0)] \in Vals
  <2>1. Cell(g, 0) \in GlobalCells /\ data \in [GlobalCells -> Vals]
    BY GlobalCellOfInt DEF LoadGlobal, IInv, TypeOK
  <2>2. QED
    BY <2>1
<1>2. temps \in [Registers -> Vals]
  <2>1. regs \in [Registers -> Vals] /\ Wrong \in Vals
    BY DEF IInv, TypeOK, Vals
  <2>2. QED
    BY <2>1
<1>3. LoadInto(LoadReg, content[Cell(g, 0)], data[Cell(g, 0)], temps)
  BY DEF LoadGlobal
<1> HIDE DEF temps
<1>4. QED
  BY <1>1, <1>2, <1>3, LoadPreserves

LEMMA LoadInstPreserves ==
  ASSUME IInv, NEW p \in Addresses, LoadInst(p)
  PROVE  IInv'
<1> DEFINE size   == Cardinality(DOMAIN GetRegSlots(LoadReg))
           loaded == Peek(GetRegStack(LoadReg), size - ptr_state[p])
           v      == content[CellOf(p)]
<1>1. TypeOK /\ FiniteTable /\ regs \in [Registers -> Vals]
  BY DEF IInv, TypeOK
<1>2. LoadReg \in Registers
  BY DEF LoadReg, Registers
<1>3. GetRegStack(LoadReg) \in Seq(Vals)
  BY <1>1, <1>2, GetRegTable
<1>4. loaded \in Vals
  BY <1>3, PeekType
<1>5. LoadInto(LoadReg, v, loaded, regs)
  BY DEF LoadInst
<1> HIDE DEF loaded, v
<1>6. QED
  BY <1>1, <1>4, <1>5, LoadPreserves

LEMMA PointerPreserves ==
  ASSUME IInv, NEW p \in Pointers, NEW idx,
         BitcastInst(p) \/ ElementInst(p, idx) \/ GetelementptrInst(p, idx)
  PROVE  IInv'
<1>1. CASE BitcastInst(p)
  BY <1>1, NewPointerPreserves DEF BitcastInst
<1>2. CASE ElementInst(p, idx)
  BY <1>2, NewPointerPreserves DEF ElementInst
<1>3. CASE GetelementptrInst(p, idx)
  BY <1>3, NewPointerPreserves DEF GetelementptrInst
<1>4. QED
  BY <1>1, <1>2, <1>3

-----------------------------------------------------------------------------
(* Arithmetic, the statement of an expression, and ret.                    *)

LEMMA ReloadType ==
  ASSUME TypeOK, FiniteTable, NEW rs \in [Registers -> Vals],
         NEW r \in Registers, NEW v
  PROVE  Reload(rs, r, v) \in [Registers -> Vals]
<1>1. CASE GetRegVars(1)[v] = InStack
  <2> DEFINE slots == GetRegSlots(1)
             off   == Cardinality(DOMAIN slots) - slots[Cell(v, 0)]
  <2>1. 1 \in Registers
    BY DEF Registers
  <2>2. GetRegStack(1) \in Seq(Vals)
    BY <2>1, GetRegTable
  <2>3. Operand(v) = Peek(GetRegStack(1), off)
    BY <1>1 DEF Operand
  <2> HIDE DEF off
  <2>4. Operand(v) \in Vals
    BY <2>2, <2>3, PeekType
  <2>5. Reload(rs, r, v) = [rs EXCEPT ![r] = Operand(v)]
    BY <1>1 DEF Reload
  <2>6. QED
    BY <2>4, <2>5
<1>2. CASE GetRegVars(1)[v] # InStack
  BY <1>2 DEF Reload
<1>3. QED
  BY <1>1, <1>2

LEMMA ResultPreserves ==
  ASSUME IInv, Running, NEW used \in 0 .. Len(operands),
         NEW temps \in [Registers -> Vals], NEW right \in BOOLEAN,
         ResultInR1(used, temps, right)
  PROVE  IInv'
<1>1. 1 \in Registers \ {0}
  BY DEF Registers
<1>2. operands \in Seq(1 .. names) /\ names \in Nat
  BY DEF IInv, TypeOK
<1>3. Popped(used) \in Seq(1 .. names)
  BY <1>2, PoppedIsSeq
<1>4. regs' \in [Registers -> Vals]
  <2>1. New \in Vals /\ Wrong \in Vals
    BY <1>2 DEF New, Vals
  <2>2. regs' = [temps EXCEPT ![1] = IF right THEN New ELSE Wrong]
    BY DEF ResultInR1
  <2>3. QED
    BY <2>1, <2>2
<1>5. /\ names' = New /\ operands' = Append(Popped(used), New)
      /\ reg_state' = [reg_state EXCEPT ![1] = New]
      /\ var_state' = Assigned(1, New)
      /\ stack_state' = GetRegSlots(1) /\ stack' = GetRegStack(1)
      /\ UNCHANGED <<points, elements, ptr_state, data, phase>>
  BY DEF ResultInR1
<1>6. QED
  BY <1>1, <1>3, <1>4, <1>5, NewTemporary

LEMMA BinaryOpInstPreserves ==
  ASSUME IInv, NEW op \in Ops, BinaryOpInst(op)
  PROVE  IInv'
<1> DEFINE rhs   == Last(operands)
           lhs   == operands[Len(operands) - 1]
           found == Reload(Reload(regs, 2, lhs), 3, rhs)
           temps == IF op = "rem" THEN [found EXCEPT ![4] = Wrong] ELSE found
           right == op # "mul" /\ Operand(lhs) = value[lhs]
                      /\ Operand(rhs) = value[rhs]
<1>1. /\ TypeOK /\ FiniteTable /\ regs \in [Registers -> Vals]
      /\ operands \in Seq(1 .. names)
  BY DEF IInv, TypeOK
<1>2. 2 \in Registers /\ 3 \in Registers /\ Wrong \in Vals
  BY DEF Registers, Vals
<1>3. found \in [Registers -> Vals]
  <2>1. Reload(regs, 2, lhs) \in [Registers -> Vals]
    BY <1>1, <1>2, ReloadType
  <2>2. QED
    BY <1>1, <1>2, <2>1, ReloadType
<1> HIDE DEF found
<1>4. temps \in [Registers -> Vals]
  BY <1>2, <1>3
<1>5. right \in BOOLEAN
  OBVIOUS
<1>6. 2 \in 0 .. Len(operands) /\ Running
  BY <1>1 DEF BinaryOpInst, Fresh
<1>7. ResultInR1(2, temps, right)
  BY DEF BinaryOpInst, found
<1> HIDE DEF temps, right
<1>8. QED
  BY <1>4, <1>5, <1>6, <1>7, ResultPreserves

LEMMA BinaryOpImmPreserves ==
  ASSUME IInv, NEW op \in Ops, NEW imm \in Imms, BinaryOpImm(op, imm)
  PROVE  IInv'
<1> DEFINE rhs   == Last(operands)
           found == Reload(regs, 2, rhs)
           temps == IF imm = "imm32" \/ op \notin {"add", "sub"}
                    THEN [found EXCEPT ![3] = Imm] ELSE found
           used  == IF op = "rem" THEN [temps EXCEPT ![4] = Wrong] ELSE temps
           right == op \in {"add", "sub"} /\ Operand(rhs) = value[rhs]
<1>1. /\ TypeOK /\ FiniteTable /\ regs \in [Registers -> Vals]
      /\ operands \in Seq(1 .. names)
  BY DEF IInv, TypeOK
<1>2. 2 \in Registers /\ Wrong \in Vals /\ Imm \in Vals
  BY DEF Registers, Vals
<1>3. found \in [Registers -> Vals]
  BY <1>1, <1>2, ReloadType
<1> HIDE DEF found
<1>4. temps \in [Registers -> Vals]
  BY <1>2, <1>3
<1> HIDE DEF temps
<1>5. used \in [Registers -> Vals]
  BY <1>2, <1>4
<1>6. right \in BOOLEAN
  OBVIOUS
<1>7. 1 \in 0 .. Len(operands) /\ Running
  BY <1>1, NonEmpty DEF BinaryOpImm, Fresh
<1>8. ResultInR1(1, used, right)
  BY DEF BinaryOpImm, found, temps
<1> HIDE DEF used, right
<1>9. QED
  BY <1>5, <1>6, <1>7, <1>8, ResultPreserves

(* ret empties the frame, and the value is found in a register.            *)
LEMMA RetPreserves ==
  ASSUME IInv, NEW has \in BOOLEAN, NEW imm \in BOOLEAN, RetInst(has, imm)
  PROVE  IInv'
<1> DEFINE v == Last(operands)
<1>0. /\ TypeOK /\ SpMatchesTable /\ OperandsKnown /\ TopInRegister
      /\ phase' = "returned" /\ ~Prelude
      /\ UNCHANGED <<names, points, elements, operands, reg_state, var_state,
                     stack_state, ptr_state, data>>
  BY DEF IInv, RetInst, func
<1>1. stack' = <<>>
  <2>1. Len(stack) = StackSize /\ stack \in Seq(Vals)
    BY <1>0 DEF RetInst, SpMatchesTable, TypeOK
  <2>2. stack' = SubSeq(stack, 1, Len(stack) - StackSize)
    BY DEF RetInst, Unwound
  <2>3. QED
    BY <2>1, <2>2
<1>2. regs' \in [Registers -> Vals]
  <2>0. regs \in [Registers -> Vals] /\ Imm \in Vals /\ 0 \in Registers
    BY <1>0 DEF TypeOK, Vals, Registers
  <2>1. CASE ~has
    <3>1. regs' = regs
      BY <2>1, ZenonT(30) DEF RetInst
    <3>2. QED
      BY <2>0, <3>1
  <2>2. CASE has /\ imm
    <3>1. regs' = [regs EXCEPT ![0] = Imm]
      BY <2>2, ZenonT(30) DEF RetInst
    <3>2. QED
      BY <2>0, <3>1
  <2>3. CASE has /\ ~imm
    <3>1. regs' = [regs EXCEPT ![0] = RetValue(v)]
      BY <2>3, ZenonT(30) DEF RetInst
    <3>2. Len(operands) = 1
      BY <2>3 DEF RetInst
    <3>3. operands # <<>>
      <4>1. operands \in Seq(1 .. names)
        BY <1>0 DEF TypeOK
      <4>2. operands # <<>> <=> Len(operands) >= 1
        BY <4>1, NonEmpty
      <4>3. QED
        BY <3>2, <4>2
    <3>4. v \in DOMAIN var_state /\ var_state[v] # InStack
      BY <1>0, <3>3 DEF OperandsKnown, TopInRegister
    <3>5. var_state[v] \in Registers
      BY <1>0, <3>4 DEF TypeOK
    <3>6. RetValue(v) \in Vals
      BY <2>0, <3>4, <3>5 DEF RetValue
    <3> HIDE DEF v
    <3>7. QED
      BY <2>0, <3>1, <3>6
  <2>4. QED
    BY <2>1, <2>2, <2>3
<1>3. TypeOK'
  BY <1>0, <1>1, <1>2 DEF TypeOK, Pointers, Elements
<1>4. FiniteTable' /\ SpMatchesTable'
  BY <1>0, <1>1 DEF IInv, FiniteTable, SpMatchesTable, Running
<1>5. RegistersAgree' /\ OperandsKnown' /\ TopInRegister'
  BY <1>0 DEF IInv, RegistersAgree, OperandsKnown, TopInRegister, Prelude
<1>6. QED
  BY <1>3, <1>4, <1>5 DEF IInv

LEMMA ThrowPreserves ==
  ASSUME IInv, BinaryOpThrows
  PROVE  IInv'
<1>1. /\ phase' = "thrown"
      /\ UNCHANGED <<names, points, elements, operands, reg_state, var_state,
                     stack_state, ptr_state, regs, stack, data>>
  BY DEF BinaryOpThrows, ir, func, machine
<1>2. TypeOK'
  BY <1>1 DEF IInv, TypeOK, Pointers, Elements
<1>3. FiniteTable' /\ SpMatchesTable'
  BY <1>1 DEF IInv, FiniteTable, SpMatchesTable, Running
<1>4. RegistersAgree' /\ OperandsKnown' /\ TopInRegister'
  BY <1>1 DEF IInv, RegistersAgree, OperandsKnown, TopInRegister, Prelude
<1>5. QED
  BY <1>2, <1>3, <1>4 DEF IInv

LEMMA StutterPreserves ==
  ASSUME IInv, UNCHANGED vars
  PROVE  IInv'
<1>1. UNCHANGED <<names, points, elements, operands, reg_state, var_state,
                  stack_state, ptr_state, regs, stack, data, phase>>
  BY DEF vars, ir, func, machine
<1>2. TypeOK'
  BY <1>1 DEF IInv, TypeOK, Pointers, Elements
<1>3. FiniteTable' /\ SpMatchesTable'
  BY <1>1 DEF IInv, FiniteTable, SpMatchesTable, StackSize, Running
<1>4. RegistersAgree' /\ OperandsKnown' /\ TopInRegister'
  BY <1>1 DEF IInv, RegistersAgree, OperandsKnown, TopInRegister, Prelude
<1>5. QED
  BY <1>2, <1>3, <1>4 DEF IInv

LEMMA NextIInv == IInv /\ [Next]_vars => IInv'
<1> SUFFICES ASSUME IInv, [Next]_vars
             PROVE  IInv'
  OBVIOUS
<1>1. ASSUME NEW dims \in Dims \cup {<<>>}, AllocaInst(dims)
      PROVE  IInv'
  BY <1>1, AllocaPreserves
<1>2. ASSUME NEW p \in Pointers, BitcastInst(p)
      PROVE  IInv'
  BY <1>2, PointerPreserves
<1>3. ASSUME NEW p \in Pointers, NEW idx, ElementInst(p, idx)
      PROVE  IInv'
  BY <1>3, PointerPreserves
<1>4. ASSUME NEW p \in Pointers, NEW idx, GetelementptrInst(p, idx)
      PROVE  IInv'
  BY <1>4, PointerPreserves
<1>5. ASSUME NEW g \in Globals, LoadGlobal(g)
      PROVE  IInv'
  BY <1>5, LoadGlobalPreserves
<1>6. ASSUME NEW p \in Addresses, LoadInst(p)
      PROVE  IInv'
  BY <1>6, LoadInstPreserves
<1>7. ASSUME NEW imm \in BOOLEAN, NEW g \in Globals, StoreGlobal(imm, g)
      PROVE  IInv'
  BY <1>7, StoreGlobalPreserves
<1>8. ASSUME NEW imm \in BOOLEAN, NEW p \in Addresses, StoreInst(imm, p)
      PROVE  IInv'
  BY <1>8, StoreInstPreserves
<1>9. ASSUME NEW op \in Ops, BinaryOpInst(op)
      PROVE  IInv'
  BY <1>9, BinaryOpInstPreserves
<1>10. ASSUME NEW op \in Ops, NEW imm \in Imms, BinaryOpImm(op, imm)
       PROVE  IInv'
  BY <1>10, BinaryOpImmPreserves
<1>11. CASE BinaryOpThrows
  BY <1>11, ThrowPreserves
<1>12. ASSUME NEW has \in BOOLEAN, NEW imm \in BOOLEAN, RetInst(has, imm)
       PROVE  IInv'
  BY <1>12, RetPreserves
<1>13. CASE Stopped \/ UNCHANGED vars
  BY <1>13, StutterPreserves DEF Stopped
<1>14. ASSUME NEW g \in Globals, NEW idx, GetelementptrGlobal(g, idx)
       PROVE  IInv'
  BY <1>14, GlobalPointerPreserves
<1>15. QED
  BY <1>1, <1>2, <1>3, <1>4, <1>5, <1>6, <1>7, <1>8, <1>9, <1>10, <1>11,
     <1>12, <1>13, <1>14 DEF Next

LEMMA Invariance == Spec => []IInv
BY InitIInv, NextIInv, PTL DEF Spec

-----------------------------------------------------------------------------
(* The tables of class Function keep their shapes whatever block is        *)
(* translated: every name in them exists, and every number is a register,  *)
(* -1 or an offset.                                                        *)
THEOREM TablesTyped == Spec => []TypeOK
<1>1. IInv => TypeOK
  BY DEF IInv
<1>2. QED
  BY <1>1, Invariance, PTL

(* The frame has exactly the words stack_state counts, from which all the  *)
(* offsets are computed, and ret leaves sp where the function found it,    *)
(* whatever arrays are allocated and however often GetReg pushes.          *)
THEOREM SpIsCounted == Spec => []SpMatchesTable
<1>1. IInv => SpMatchesTable
  BY DEF IInv
<1>2. QED
  BY <1>1, Invariance, PTL

(* GetReg and the entries its callers make after it never give one         *)
(* register to two variables, nor one variable two registers.              *)
THEOREM RegistersNeverShared == Spec => []RegistersAgree
<1>1. IInv => RegistersAgree
  BY DEF IInv
<1>2. QED
  BY <1>1, Invariance, PTL

(* The value a store or a ret takes has not been pushed, which is why      *)
(* TranslateStoreInst may do without reloading it.                         *)
THEOREM TopNeverPushed == Spec => []TopInRegister
<1>1. IInv => TopInRegister
  BY DEF IInv
<1>2. QED
  BY <1>1, Invariance, PTL

-----------------------------------------------------------------------------
(* The word offset that TranslateGetelementptrInst computes is right for   *)
(* arrays of one or two dimensions, whatever these are.                    *)

(* A fold over a sequence of length 1 or 2 is a recursion on the subsets   *)
(* of its domain, which these definitions name for the provers.            *)
None == {}
One  == {1}
Two  == {2}
Both == {1, 2}
Rest(s) == s \ {Max(s)}

(* The only sets such a fold visits.                                     *)
LEMMA SubsetsOfBoth ==
  /\ SUBSET Both = {None, One, Two, Both} /\ SUBSET One = {None, One}
  /\ Max(One) = 1 /\ Max(Two) = 2 /\ Max(Both) = 2
  /\ Rest(One) = None /\ Rest(Two) = None /\ Rest(Both) = One
  /\ None = {} /\ One # {} /\ Two # {} /\ Both # {}
  /\ One # None /\ Two # None /\ Both # None
  /\ One # Two /\ Both # Two /\ Both # One
<1>1. SUBSET Both = {None, One, Two, Both} /\ SUBSET One = {None, One}
  BY DEF None, One, Two, Both
<1>2. Max(One) = 1 /\ Max(Two) = 2 /\ Max(Both) = 2
  BY DEF One, Two, Both, Max
<1>3. /\ One \ {1} = None /\ Two \ {2} = None /\ Both \ {2} = One
      /\ None = {} /\ One # {} /\ Two # {} /\ Both # {}
      /\ One # None /\ Two # None /\ Both # None
      /\ One # Two /\ Both # Two /\ Both # One
  BY DEF None, One, Two, Both
<1>4. QED
  BY <1>1, <1>2, <1>3 DEF Rest

LEMMA DomainOfShort ==
  ASSUME NEW S, NEW d \in Seq(S), Len(d) \in {1, 2}
  PROVE  /\ DOMAIN d = (IF Len(d) = 1 THEN One ELSE Both)
         /\ d[1] \in S /\ (Len(d) = 2 => d[2] \in S)
<1>1. DOMAIN d = 1 .. Len(d) /\ d[1] \in S /\ (Len(d) = 2 => d[2] \in S)
  OBVIOUS
<1>2. 1 .. 2 = {1, 2} /\ 1 .. 1 = {1}
  OBVIOUS
<1>3. QED
  BY <1>1, <1>2 DEF One, Both

-----------------------------------------------------------------------------
(* What the three folds compute.  Each proof gives the function that the   *)
(* fold's recursion chooses: its value on every set the fold visits.       *)

LEMMA SizeOfShort ==
  ASSUME NEW d \in Seq(Nat), Len(d) \in {1, 2}
  PROVE  Size(d) = IF Len(d) = 1 THEN d[1] ELSE d[1] * d[2]
<1> DEFINE D == DOMAIN d
           Step(h) == [s \in SUBSET D |->
                         IF s = {} THEN 1 ELSE h[s \ {Max(s)}] * d[Max(s)]]
           iter == CHOOSE h : h = Step(h)
           w == [s \in SUBSET D |->
                   IF s = None THEN 1 ELSE IF s = One THEN d[1]
                   ELSE IF s = Two THEN d[2] ELSE d[1] * d[2]]
<1>1. /\ Len(d) = 1 => D = One
      /\ Len(d) = 2 => D = Both /\ d[2] \in Nat
      /\ d[1] \in Nat
  BY DomainOfShort
<1>2. \A h : Step(h) = [s \in SUBSET D |->
                        IF s = {} THEN 1 ELSE h[Rest(s)] * d[Max(s)]]
  BY DEF Rest
<1>3. /\ SUBSET D \in {{None, One}, {None, One, Two, Both}}
      /\ Len(d) = 1 => SUBSET D = {None, One}
      /\ Len(d) = 2 => SUBSET D = {None, One, Two, Both}
  BY <1>1, SubsetsOfBoth
<1> HIDE DEF D
<1>4. w = Step(w)
  <2>1. /\ w[None] = 1 /\ w[One] = d[1]
        /\ Len(d) = 2 => w[Two] = d[2] /\ w[Both] = d[1] * d[2]
    BY <1>3, SubsetsOfBoth
  <2>2. w = [s \in SUBSET D |-> w[s]]
    OBVIOUS
  <2> HIDE DEF w, Step
  <2>3. ASSUME NEW s \in SUBSET D
        PROVE  w[s] = IF s = {} THEN 1 ELSE w[Rest(s)] * d[Max(s)]
    <3>1. s \in {None, One} \/ (Len(d) = 2 /\ s \in {Two, Both})
      BY <1>3
    <3>2. w[One] = w[None] * d[1]
      BY <1>1, <2>1
    <3>3. Len(d) = 2 => w[Two] = w[None] * d[2] /\ w[Both] = w[One] * d[2]
      BY <1>1, <2>1
    <3>4. CASE s = None
      BY <2>1, <3>4, SubsetsOfBoth
    <3>5. CASE s = One
      <4>1. Rest(s) = None /\ Max(s) = 1 /\ s # {}
        BY <3>5, SubsetsOfBoth
      <4>2. QED
        BY <1>1, <3>2, <3>5, <4>1
    <3>6. CASE Len(d) = 2 /\ s = Two
      <4>1. Rest(s) = None /\ Max(s) = 2 /\ s # {}
        BY <3>6, SubsetsOfBoth
      <4>2. QED
        BY <1>1, <3>3, <3>6, <4>1
    <3>7. CASE Len(d) = 2 /\ s = Both
      <4>1. Rest(s) = One /\ Max(s) = 2 /\ s # {}
        BY <3>7, SubsetsOfBoth
      <4>2. QED
        BY <1>1, <3>3, <3>7, <4>1
    <3>8. QED
      BY <3>1, <3>4, <3>5, <3>6, <3>7
  <2>4. QED
    BY <1>2, <2>2, <2>3
<1>5. iter = Step(iter)
  <2> HIDE DEF w
  <2>1. QED
    BY <1>4
<1>6. Size(d) = iter[D]
  BY DEF Size, FoldLeft, MapThenFoldSet, D
<1> HIDE DEF iter, Step
<1>7. iter[One] = d[1] /\ (Len(d) = 2 => iter[Both] = d[1] * d[2])
  <2>1. \A s \in SUBSET D :
          iter[s] = IF s = {} THEN 1 ELSE iter[Rest(s)] * d[Max(s)]
    BY <1>2, <1>5
  <2>2. iter[None] = 1
    BY <1>3, <2>1, SubsetsOfBoth
  <2>3. iter[One] = iter[None] * d[1]
    <3>1. One \in SUBSET D /\ Rest(One) = None /\ Max(One) = 1 /\ One # {}
      BY <1>3, SubsetsOfBoth
    <3>2. QED
      BY <1>1, <2>1, <3>1
  <2>4. Len(d) = 2 => iter[Both] = iter[One] * d[2]
    BY <1>1, <1>3, <2>1, SubsetsOfBoth
  <2>5. QED
    BY <1>1, <2>2, <2>3, <2>4
<1>9. CASE Len(d) = 1
  BY <1>1, <1>6, <1>7, <1>9
<1>10. CASE Len(d) = 2
  BY <1>1, <1>6, <1>7, <1>10
<1>11. QED
  BY <1>9, <1>10

LEMMA RowMajorOfShort ==
  ASSUME NEW d \in Seq(Nat), Len(d) \in {1, 2},
         NEW idx \in Seq(Nat), Len(idx) = Len(d)
  PROVE  RowMajor(d, idx) = IF Len(d) = 1 THEN idx[1]
                            ELSE idx[1] * d[2] + idx[2]
<1> DEFINE id == [i \in DOMAIN d |-> i]
           D == DOMAIN id
           Step(h) == [s \in SUBSET D |->
                         IF s = {} THEN 0
                         ELSE h[s \ {Max(s)}] * d[id[Max(s)]]
                                + idx[id[Max(s)]]]
           iter == CHOOSE h : h = Step(h)
           w == [s \in SUBSET D |->
                   IF s = None THEN 0 ELSE IF s = One THEN idx[1]
                   ELSE IF s = Two THEN idx[2] ELSE idx[1] * d[2] + idx[2]]
<1>1. /\ Len(d) = 1 => D = One
      /\ Len(d) = 2 => D = Both /\ d[2] \in Nat /\ idx[2] \in Nat /\ id[2] = 2
      /\ d[1] \in Nat /\ idx[1] \in Nat /\ id[1] = 1
  <2>1. /\ DOMAIN d = (IF Len(d) = 1 THEN One ELSE Both)
        /\ d[1] \in Nat /\ (Len(d) = 2 => d[2] \in Nat)
    BY DomainOfShort
  <2>2. idx[1] \in Nat /\ (Len(d) = 2 => idx[2] \in Nat)
    BY DomainOfShort
  <2>3. 1 \in One /\ 1 \in Both /\ 2 \in Both
    BY DEF One, Both
  <2>4. QED
    BY SMTT(30), <2>1, <2>2, <2>3
<1>2. \A h : Step(h) = [s \in SUBSET D |->
                        IF s = {} THEN 0
                        ELSE h[Rest(s)] * d[id[Max(s)]] + idx[id[Max(s)]]]
  BY DEF Rest
<1>3. /\ SUBSET D \in {{None, One}, {None, One, Two, Both}}
      /\ Len(d) = 1 => SUBSET D = {None, One}
      /\ Len(d) = 2 => SUBSET D = {None, One, Two, Both}
  BY <1>1, SubsetsOfBoth
<1> HIDE DEF D, id
<1>4. w = Step(w)
  <2>1. /\ w[None] = 0 /\ w[One] = idx[1]
        /\ Len(d) = 2 => w[Two] = idx[2] /\ w[Both] = idx[1] * d[2] + idx[2]
    BY <1>3, SubsetsOfBoth
  <2>2. w = [s \in SUBSET D |-> w[s]]
    OBVIOUS
  <2> HIDE DEF w, Step
  <2>3. ASSUME NEW s \in SUBSET D
        PROVE  w[s] = IF s = {} THEN 0
                      ELSE w[Rest(s)] * d[id[Max(s)]] + idx[id[Max(s)]]
    <3>1. s \in {None, One} \/ (Len(d) = 2 /\ s \in {Two, Both})
      BY <1>3
    <3>2. w[One] = w[None] * d[1] + idx[1]
      BY <1>1, <2>1
    <3>3. Len(d) = 2 => /\ w[Two] = w[None] * d[2] + idx[2]
                        /\ w[Both] = w[One] * d[2] + idx[2]
      BY <1>1, <2>1
    <3>4. CASE s = None
      BY <2>1, <3>4, SubsetsOfBoth
    <3>5. CASE s = One
      <4>1. Rest(s) = None /\ Max(s) = 1 /\ s # {}
        BY <3>5, SubsetsOfBoth
      <4>2. QED
        BY <1>1, <3>2, <3>5, <4>1
    <3>6. CASE Len(d) = 2 /\ s = Two
      <4>1. Rest(s) = None /\ Max(s) = 2 /\ s # {}
        BY <3>6, SubsetsOfBoth
      <4>2. QED
        BY <1>1, <3>3, <3>6, <4>1
    <3>7. CASE Len(d) = 2 /\ s = Both
      <4>1. Rest(s) = One /\ Max(s) = 2 /\ s # {}
        BY <3>7, SubsetsOfBoth
      <4>2. QED
        BY <1>1, <3>3, <3>7, <4>1
    <3>8. QED
      BY <3>1, <3>4, <3>5, <3>6, <3>7
  <2>4. QED
    BY <1>2, <2>2, <2>3
<1>5. iter = Step(iter)
  <2> HIDE DEF w
  <2>1. QED
    BY <1>4
<1>6. RowMajor(d, idx) = iter[D]
  BY DEF RowMajor, FoldLeftDomain, FoldLeft, MapThenFoldSet, D, id
<1> HIDE DEF iter, Step
<1>7. iter[One] = idx[1] /\ (Len(d) = 2 => iter[Both] = idx[1] * d[2] + idx[2])
  <2>1. \A s \in SUBSET D :
          iter[s] = IF s = {} THEN 0
                    ELSE iter[Rest(s)] * d[id[Max(s)]] + idx[id[Max(s)]]
    BY <1>2, <1>5
  <2>2. iter[None] = 0
    BY <1>3, <2>1, SubsetsOfBoth
  <2>3. iter[One] = iter[None] * d[1] + idx[1]
    <3>1. One \in SUBSET D /\ Rest(One) = None /\ Max(One) = 1 /\ One # {}
      BY <1>3, SubsetsOfBoth
    <3>2. QED
      BY <1>1, <2>1, <3>1
  <2>4. Len(d) = 2 => iter[Both] = iter[One] * d[2] + idx[2]
    BY ZenonT(30), <1>1, <1>3, <2>1, SubsetsOfBoth
  <2>5. QED
    BY SMTT(30), <1>1, <2>2, <2>3, <2>4
<1>9. CASE Len(d) = 1
  BY <1>1, <1>6, <1>7, <1>9
<1>10. CASE Len(d) = 2
  BY <1>1, <1>6, <1>7, <1>10
<1>11. QED
  BY <1>9, <1>10

LEMMA WordOffsetOfShort ==
  ASSUME NEW d \in Seq(Nat), Len(d) \in {1, 2},
         NEW idx \in Seq(Nat), Len(idx) = Len(d)
  PROVE  WordOffset(d, idx) = IF Len(d) = 1 THEN idx[1]
                              ELSE idx[1] * d[2] + idx[2]
<1> DEFINE id == [i \in DOMAIN d |-> i]
           D == DOMAIN id
           indices == <<0>> \o idx
           Step(h) == [s \in SUBSET D |->
                         IF s = {} THEN 0
                         ELSE h[s \ {Max(s)}]
                                + d[id[Max(s)]] * indices[id[Max(s)]]]
           iter == CHOOSE h : h = Step(h)
           w == [s \in SUBSET D |->
                   IF s = None THEN 0 ELSE IF s = One THEN 0
                   ELSE IF s = Two THEN d[2] * idx[1] ELSE d[2] * idx[1]]
<1>1. /\ Len(d) = 1 => D = One
      /\ Len(d) = 2 => /\ D = Both /\ d[2] \in Nat /\ idx[2] \in Nat
                        /\ id[2] = 2 /\ indices[2] = idx[1]
      /\ d[1] \in Nat /\ idx[1] \in Nat /\ id[1] = 1 /\ indices[1] = 0
  <2>1. /\ DOMAIN d = (IF Len(d) = 1 THEN One ELSE Both)
        /\ d[1] \in Nat /\ (Len(d) = 2 => d[2] \in Nat)
    BY DomainOfShort
  <2>2. idx[1] \in Nat /\ (Len(d) = 2 => idx[2] \in Nat)
    BY DomainOfShort
  <2>3. 1 \in One /\ 1 \in Both /\ 2 \in Both
    BY DEF One, Both
  <2>4. indices[1] = 0 /\ (Len(d) = 2 => indices[2] = idx[1])
    OBVIOUS
  <2>5. QED
    BY SMTT(30), <2>1, <2>2, <2>3, <2>4
<1>2. \A h : Step(h) = [s \in SUBSET D |->
                        IF s = {} THEN 0
                        ELSE h[Rest(s)] + d[id[Max(s)]] * indices[id[Max(s)]]]
  BY DEF Rest
<1>3. /\ SUBSET D \in {{None, One}, {None, One, Two, Both}}
      /\ Len(d) = 1 => SUBSET D = {None, One}
      /\ Len(d) = 2 => SUBSET D = {None, One, Two, Both}
  BY <1>1, SubsetsOfBoth
<1> HIDE DEF D, id, indices
<1>4. w = Step(w)
  <2>1. /\ w[None] = 0 /\ w[One] = 0
        /\ Len(d) = 2 => w[Two] = d[2] * idx[1] /\ w[Both] = d[2] * idx[1]
    BY <1>3, SubsetsOfBoth
  <2>2. w = [s \in SUBSET D |-> w[s]]
    OBVIOUS
  <2> HIDE DEF w, Step
  <2>3. ASSUME NEW s \in SUBSET D
        PROVE  w[s] = IF s = {} THEN 0
                      ELSE w[Rest(s)] + d[id[Max(s)]] * indices[id[Max(s)]]
    <3>1. s \in {None, One} \/ (Len(d) = 2 /\ s \in {Two, Both})
      BY <1>3
    <3>2. w[One] = w[None] + d[1] * indices[1]
      BY <1>1, <2>1
    <3>3. Len(d) = 2 => /\ w[Two] = w[None] + d[2] * indices[2]
                        /\ w[Both] = w[One] + d[2] * indices[2]
      BY <1>1, <2>1
    <3>4. CASE s = None
      BY <2>1, <3>4, SubsetsOfBoth
    <3>5. CASE s = One
      <4>1. Rest(s) = None /\ Max(s) = 1 /\ s # {}
        BY <3>5, SubsetsOfBoth
      <4>2. QED
        BY <1>1, <3>2, <3>5, <4>1
    <3>6. CASE Len(d) = 2 /\ s = Two
      <4>1. Rest(s) = None /\ Max(s) = 2 /\ s # {}
        BY <3>6, SubsetsOfBoth
      <4>2. QED
        BY <1>1, <3>3, <3>6, <4>1
    <3>7. CASE Len(d) = 2 /\ s = Both
      <4>1. Rest(s) = One /\ Max(s) = 2 /\ s # {}
        BY <3>7, SubsetsOfBoth
      <4>2. QED
        BY <1>1, <3>3, <3>7, <4>1
    <3>8. QED
      BY <3>1, <3>4, <3>5, <3>6, <3>7
  <2>4. QED
    BY <1>2, <2>2, <2>3
<1>5. iter = Step(iter)
  <2> HIDE DEF w
  <2>1. QED
    BY <1>4
<1>6. WordOffset(d, idx) = iter[D] + Last(idx)
  BY DEF WordOffset, FoldLeftDomain, FoldLeft, MapThenFoldSet, D, id, indices
<1> HIDE DEF iter, Step
<1>7. iter[One] = 0 /\ (Len(d) = 2 => iter[Both] = d[2] * idx[1])
  <2>1. \A s \in SUBSET D :
          iter[s] = IF s = {} THEN 0
                    ELSE iter[Rest(s)] + d[id[Max(s)]] * indices[id[Max(s)]]
    BY <1>2, <1>5
  <2>2. iter[None] = 0
    BY <1>3, <2>1, SubsetsOfBoth
  <2>3. iter[One] = iter[None] + d[1] * indices[1]
    <3>1. One \in SUBSET D /\ Rest(One) = None /\ Max(One) = 1 /\ One # {}
      BY <1>3, SubsetsOfBoth
    <3>2. QED
      BY <1>1, <2>1, <3>1
  <2>4. Len(d) = 2 => iter[Both] = iter[One] + d[2] * indices[2]
    BY SMTT(30), <1>1, <1>3, <2>1, SubsetsOfBoth
  <2>5. QED
    BY <1>1, <2>2, <2>3, <2>4
<1>8. Last(idx) = (IF Len(d) = 1 THEN idx[1] ELSE idx[2])
  BY DEF Last
<1>9. CASE Len(d) = 1
  BY <1>1, <1>6, <1>7, <1>9, <1>8
<1>10. CASE Len(d) = 2
  BY <1>1, <1>6, <1>7, <1>10, <1>8
<1>11. QED
  BY <1>9, <1>10

-----------------------------------------------------------------------------
(* An element lies before the end of its array.                            *)
LEMMA RowMajorBound ==
  ASSUME NEW a \in Nat, NEW b \in Nat, NEW i \in Nat, NEW j \in Nat,
         i < a, j < b
  PROVE  i * b + j \in Nat /\ i * b + j < a * b
<1> DEFINE k == a - (i + 1)
<1>1. k \in Nat /\ a = (i + 1) + k
  OBVIOUS
<1> HIDE DEF k
<1>2. k * b \in Nat /\ i * b \in Nat
  BY <1>1
<1>3. a * b = i * b + b + k * b
  BY <1>1
<1>4. QED
  BY <1>2, <1>3

(* getelementptr weighs each index with the next dimension alone, not with *)
(* the product of all that follow (asm.cc, TranslateGetelementptrInst).    *)
(* For an array of one or two dimensions, of any lengths, the sum is still *)
(* the row-major offset of the element, which lies inside the array.       *)
THEOREM OffsetIsRowMajor ==
  ASSUME NEW d \in Seq(Nat), Len(d) \in {1, 2},
         NEW idx \in Seq(Nat), Len(idx) = Len(d),
         \A j \in DOMAIN d : idx[j] < d[j]
  PROVE  /\ WordOffset(d, idx) = RowMajor(d, idx)
         /\ RowMajor(d, idx) \in 0 .. Size(d) - 1
<1>1. WordOffset(d, idx) = RowMajor(d, idx)
  BY ZenonT(30), RowMajorOfShort, WordOffsetOfShort
<1>2. CASE Len(d) = 1
  <2>1. RowMajor(d, idx) = idx[1] /\ Size(d) = d[1]
    BY <1>2, RowMajorOfShort, SizeOfShort
  <2>2. idx[1] \in Nat /\ d[1] \in Nat /\ idx[1] < d[1]
    BY <1>2
  <2>3. QED
    BY <1>1, <2>1, <2>2
<1>3. CASE Len(d) = 2
  <2>1. Size(d) = d[1] * d[2]
    <3>1. Size(d) = IF Len(d) = 1 THEN d[1] ELSE d[1] * d[2]
      BY SizeOfShort
    <3>2. QED
      BY <1>3, <3>1
  <2>2. RowMajor(d, idx) = idx[1] * d[2] + idx[2]
    <3>1. RowMajor(d, idx) = IF Len(d) = 1 THEN idx[1]
                             ELSE idx[1] * d[2] + idx[2]
      BY RowMajorOfShort
    <3>2. QED
      BY <1>3, <3>1
  <2>3. /\ idx[1] \in Nat /\ d[1] \in Nat /\ idx[1] < d[1]
        /\ idx[2] \in Nat /\ d[2] \in Nat /\ idx[2] < d[2]
    BY SMTT(30), <1>3
  <2>4. /\ idx[1] * d[2] + idx[2] \in Nat
        /\ idx[1] * d[2] + idx[2] < d[1] * d[2]
    BY <2>3, RowMajorBound
  <2>5. d[1] * d[2] \in Nat
    BY <2>3
  <2>6. QED
    BY <1>1, <2>1, <2>2, <2>4, <2>5
<1>4. QED
  BY <1>2, <1>3
=============================================================================
