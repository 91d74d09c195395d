----------------------------- MODULE Immediates -----------------------------
(***************************************************************************)
(* What the back end does with a 32-bit constant: the two tests that the   *)
(* constructor of ImmOperand runs (src/src/backend/operand.cc), the choice *)
(* between an immediate and a load in the translation of ret, alloca and   *)
(* the binary operators (src/src/backend/asm.cc), and the checks of the    *)
(* instructions' constructors, which end the compilation                   *)
(* (src/src/backend/instruction.cc, CheckImm).                             *)
(*                                                                         *)
(* A word is the set of its bits that are 1.  IRToAsm has the rest of the  *)
(* translation, with immediates as classes.                                *)
(*                                                                         *)
(* A definition whose name has a suffix after an underscore is a wrong     *)
(* form of the one that follows it, which no action uses.                  *)
(***************************************************************************)
EXTENDS Integers

Bits  == 0 .. 31
Words == SUBSET Bits

CONSTANTS
  Values,     (* the constants an instruction of the IR may have           *)
  Sizes       (* bytes that the stack may grow or shrink by                *)

ASSUME ValuesAssumption == Values \subseteq Words /\ Sizes \subseteq Words

VARIABLES
  use,        (* what the constant is for                                  *)
  value,
  window,     (* CheckImm8m: the bits an immediate can set                 *)
  i,          (* CheckImm8m: turns of its loop                             *)
  isImm8m, isImm16,
  inst,       (* the instruction that got the constant                     *)
  phase

vars == <<use, value, window, i, isImm8m, isImm16, inst, phase>>

-----------------------------------------------------------------------------
Shr(w, k) == {b - k : b \in {c \in w : c >= k}}
Shl_Unbounded(w, k) == {b + k : b \in w}
Shl(w, k) == {b + k : b \in {c \in w : c + k \in Bits}}
Not(w)    == Bits \ w

(* CheckImm16m: a signed number of 16 bits has 17 equal bits at its head.  *)
CheckImm16m(w) == 15 .. 31 \subseteq w \/ (15 .. 31) \cap w = {}

(* Uses of an immediate: by TranslateRetInst, for the value (ret) and for  *)
(* the size of the stack (recover); by TranslateAllocaInst; and by         *)
(* TranslateBinaryOpInst, as the left operand.                             *)
StackUses  == {"recover", "alloca"}
BinaryUses == {"add", "rsb", "mul", "sdiv", "srem"}
ValueUses  == BinaryUses \cup {"ret"}

(* new ImmOperand(value)                                                   *)
Init ==
  /\ use \in StackUses \cup ValueUses
  /\ value \in (IF use \in StackUses THEN Sizes ELSE Values)
  /\ window = 0 .. 7
  /\ i = 0
  /\ isImm8m = FALSE
  /\ isImm16 = CheckImm16m(value)
  /\ inst = "none"
  /\ phase = "check"

(* The loop of CheckImm8m: it accepts the complement of an immediate too.  *)
Fits == value \subseteq window \/ Not(window) \subseteq value

Fit ==
  /\ phase = "check"
  /\ i < 15
  /\ Fits
  /\ isImm8m' = TRUE
  /\ phase' = "made"
  /\ UNCHANGED <<use, value, window, i, isImm16, inst>>

Rotated_ByOne == Shr(window, 1) \cup Shl(window, 31)
Rotated == Shr(window, 2) \cup Shl(window, 30)

Rotate ==
  /\ phase = "check"
  /\ i < 15
  /\ ~Fits
  /\ window' = Rotated
  /\ i' = i + 1
  /\ UNCHANGED <<use, value, isImm8m, isImm16, inst, phase>>

NoFit ==
  /\ phase = "check"
  /\ i = 15
  /\ phase' = "made"
  /\ UNCHANGED <<use, value, window, i, isImm8m, isImm16, inst>>

-----------------------------------------------------------------------------
(* CheckImm of the constructors of InsMov; InsAdd, InsSub and InsRsb.      *)
Accepts(name) == isImm8m \/ (name = "mov" /\ isImm16)

(* The instruction that takes the constant as an immediate.                *)
Form ==
  CASE use \in {"ret", "mul", "sdiv", "srem"} -> "mov"
    [] use \in {"recover", "add"}             -> "add"
    [] use = "alloca"                         -> "sub"
    [] use = "rsb"                            -> "rsb"

(* The test before the constructor: recover asks for what its instruction  *)
(* takes, the others for either class.                                     *)
Immediate_Eager == isImm8m \/ isImm16
Immediate == isImm8m \/ (use # "recover" /\ isImm16)

Emit ==
  /\ phase = "made"
  /\ Immediate
  /\ Accepts(Form)
  /\ inst' = Form
  /\ phase' = "emitted"
  /\ UNCHANGED <<use, value, window, i, isImm8m, isImm16>>

(* ldr Rd, =imm, and the instruction takes the register.                   *)
Load ==
  /\ phase = "made"
  /\ ~Immediate
  /\ inst' = "ldr"
  /\ phase' = "emitted"
  /\ UNCHANGED <<use, value, window, i, isImm8m, isImm16>>

(* InvalidParameterException.                                              *)
Refuse ==
  /\ phase = "made"
  /\ Immediate
  /\ ~Accepts(Form)
  /\ phase' = "thrown"
  /\ UNCHANGED <<use, value, window, i, isImm8m, isImm16, inst>>

Stopped == phase \in {"emitted", "thrown"} /\ UNCHANGED vars

Next == Fit \/ Rotate \/ NoFit \/ Emit \/ Load \/ Refuse \/ Stopped

Spec == Init /\ [][Next]_vars

-----------------------------------------------------------------------------
(* The constants of the ARM instructions: #<imm8> ror #<imm4>*2.           *)
Ror(w, k)    == {(b - k) % 32 : b \in w}
Encodable(w) == \E imm4 \in 0 .. 15 : w \subseteq Ror(0 .. 7, imm4 * 2)

TypeOK ==
  /\ use \in StackUses \cup ValueUses
  /\ value \in Words
  /\ window \in Words
  /\ i \in 0 .. 15
  /\ isImm8m \in BOOLEAN
  /\ isImm16 \in BOOLEAN
  /\ inst \in {"none", "mov", "add", "sub", "rsb", "ldr"}
  /\ phase \in {"check", "made", "emitted", "thrown"}

(* The loop of CheckImm8m knows a constant exactly when an 8-bit window    *)
(* in one of 15 of its 16 rotations holds the bits that are 1, or all that *)
(* are 0: no rotation is passed over and none but the last is missed       *)
(* (operand.cc: CheckImm8m).  This is the class the code gives, not the    *)
(* one that is documented: the complements, of which a TODO (operand.h:65) *)
(* asks why they pass, are no #<imm8m> of an add, a sub or a rsb (doc/ARM  *)
(* Assembly.md:86-88), which get them all the same.                        *)
Covers(imm4) ==
  LET bits == Ror(0 .. 7, imm4 * 2) IN
  value \subseteq bits \/ Not(value) \subseteq bits

ClassIsExact ==
  phase # "check" => (isImm8m <=> \E imm4 \in 0 .. 14 : Covers(imm4))

(* The compilation ends with an exception only for an array or an operand  *)
(* of + or - whose constant has 16 bits and is refused by CheckImm8m:      *)
(* a value returned, the size of the frame and the operands of the other   *)
(* operators find an instruction, whatever they are (asm.cc:               *)
(* TranslateRetInst, TranslateBinaryOpInst).                               *)
ThrownOnlyForImm16 ==
  phase = "thrown" =>
    /\ use \in {"alloca", "add", "rsb"}
    /\ CheckImm16m(value)
    /\ ~isImm8m

(* What operand.h:63-64 calls an imm8m is one: "A kind of #<imm32> that    *)
(* can be generated through "#<imm8> ror #<imm4>*2"".  The loop leaves out *)
(* the last of the 16 rotations, so an int[65] is refused (operand.cc:     *)
(* CheckImm8m).                                                            *)
EncodableIsImm8m == phase # "check" /\ Encodable(value) => isImm8m
=============================================================================
