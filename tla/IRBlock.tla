------------------------------ MODULE IRBlock ------------------------------
(***************************************************************************)
(* What one basic block of IR promises, with no registers, no stack        *)
(* pointer and no tables: names that keep their value once they have one,  *)
(* memory made of cells that only a store to that very cell changes, and   *)
(* a result.  IRToAsm implements it (ImplementsBlock there): the cells     *)
(* are then words of the stack and of the data section, and a name's value *)
(* is what the register holds that is given to it.                         *)
(*                                                                         *)
(* The instructions are those of src/include/ir/ir.h, in the order in      *)
(* which src/src/frontend/ast_to_ir.cc emits them for an expression:       *)
(* operands is the stack of temporaries that await their one use.          *)
(***************************************************************************)
EXTENDS Integers, Sequences

CONSTANTS
  NumParams,    (* number of parameters                                    *)
  GlobalCells,  (* the cells of the global variables and arrays            *)
  Sizes,        (* numbers of cells an alloca may have                     *)
  Undef,        (* content of a cell that has not been written             *)
  Imm           (* an immediate                                            *)

VARIABLES
  names,        (* the names are 1 .. names                                *)
  value,        (* of a name that is no pointer                            *)
  points,       (* the cell a pointer points to                            *)
  content,      (* of each cell                                            *)
  operands,
  ret,
  over

vars == <<names, value, points, content, operands, ret, over>>

-----------------------------------------------------------------------------
New          == names + 1
With(f, k, v) == [x \in DOMAIN f \cup {k} |-> IF x = k THEN v ELSE f[x]]
Without(k)   == SubSeq(operands, 1, Len(operands) - k)

Init ==
  /\ names = NumParams
  /\ value = [n \in 1 .. NumParams |-> n]
  /\ points = <<>>
  /\ content = [c \in GlobalCells |-> Undef]
  /\ operands = [k \in 1 .. NumParams |-> NumParams + 1 - k]
  /\ ret = Undef
  /\ over = FALSE

Alloca(size) ==
  /\ names' = New
  /\ points' = With(points, New, <<New, 0>>)
  /\ content' = [c \in DOMAIN content \cup {<<New, i>> : i \in 0 .. size - 1} |->
                   IF c \in DOMAIN content THEN content[c] ELSE Undef]
  /\ UNCHANGED <<value, operands, ret, over>>

(* bitcast, getelementptr: a cell of a global array, or of one that some   *)
(* pointer points into.                                                    *)
Pointer(c) ==
  /\ c \in GlobalCells \/ \E p \in DOMAIN points : c[1] = points[p][1]
  /\ names' = New
  /\ points' = With(points, New, c)
  /\ UNCHANGED <<value, content, operands, ret, over>>

Load(c) ==
  /\ names' = New
  /\ value' = With(value, New, content[c])
  /\ operands' = Append(operands, New)
  /\ UNCHANGED <<points, content, ret, over>>

StoreImm(c) ==
  /\ content' = [content EXCEPT ![c] = Imm]
  /\ UNCHANGED <<names, value, points, operands, ret, over>>

Store(c) ==
  /\ operands # <<>>
  /\ content' = [content EXCEPT ![c] = value[operands[Len(operands)]]]
  /\ operands' = Without(1)
  /\ UNCHANGED <<names, value, points, ret, over>>

(* A binary operator with k variables as operands: a value of its own.     *)
Compute(k) ==
  /\ Len(operands) >= k
  /\ names' = New
  /\ value' = With(value, New, New)
  /\ operands' = Append(Without(k), New)
  /\ UNCHANGED <<points, content, ret, over>>

(* The caller sees the globals and the result, the locals are gone.        *)
Return(v) ==
  /\ over' = TRUE
  /\ ret' = v
  /\ content' = [c \in GlobalCells |-> content[c]]
  /\ UNCHANGED <<names, value, points, operands>>

(* The translator gave up: no code.                                        *)
NoCode ==
  /\ over' = TRUE
  /\ UNCHANGED <<names, value, points, content, operands, ret>>

Results ==
  {Undef, Imm} \cup (IF operands = <<>> THEN {}
                     ELSE {value[operands[Len(operands)]]})

Accessible == GlobalCells \cup {points[p] : p \in DOMAIN points}

Next ==
  /\ ~over
  /\ \/ \E size \in Sizes : Alloca(size)
     \/ \E c \in DOMAIN content : Pointer(c)
     \/ \E c \in Accessible : Load(c) \/ StoreImm(c) \/ Store(c)
     \/ Compute(1) \/ Compute(2)
     \/ \E v \in Results : Return(v)
     \/ NoCode

Spec == Init /\ [][Next]_vars
=============================================================================
