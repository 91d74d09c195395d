-------------------------- MODULE ImmediatesProofs --------------------------
(***************************************************************************)
(* Proofs about Immediates, for every set of constants.                    *)
(*                                                                         *)
(* What carries them is the window of the loop: after i turns it is the    *)
(* immediate 0xff rotated right by 2 * i bits, so the test of turn i is    *)
(* Covers(i), and a value still unknown is covered by none of 0 .. i - 1.  *)
(***************************************************************************)
EXTENDS Immediates, TLAPS

WindowRotated == window = Ror(0 .. 7, i * 2)

Verdict ==
  /\ isImm16 = CheckImm16m(value)
  /\ phase = "check" => ~isImm8m /\ \A j \in 0 .. i - 1 : ~Covers(j)
  /\ ClassIsExact
  /\ phase = "thrown" =>
       /\ use \in {"alloca", "add", "rsb"}
       /\ isImm16
       /\ ~isImm8m

(* The rotation of the loop is one by 2 bits of a 32-bit word.             *)
LEMMA RotateWindow ==
  ASSUME NEW k \in Nat
  PROVE  LET w == Ror(0 .. 7, k)
         IN Shr(w, 2) \cup Shl(w, 30) = Ror(0 .. 7, k + 2)
<1> DEFINE w == Ror(0 .. 7, k)
           v == Ror(0 .. 7, k + 2)
<1>1. \A b \in w : b \in Bits
  BY DEF Ror, Bits
<1>2. ASSUME NEW b \in 0 .. 7
      PROVE  IF (b - k) % 32 >= 2
             THEN ((b - k) % 32) - 2 = (b - (k + 2)) % 32
             ELSE ((b - k) % 32) + 30 = (b - (k + 2)) % 32
  OBVIOUS
<1>3. ASSUME NEW x \in v PROVE x \in Shr(w, 2) \cup Shl(w, 30)
  <2>1. PICK b \in 0 .. 7 : x = (b - (k + 2)) % 32
    BY DEF Ror
  <2>2. (b - k) % 32 \in w
    BY DEF Ror
  <2>3. CASE (b - k) % 32 >= 2
    BY <1>2, <2>1, <2>2, <2>3 DEF Shr
  <2>4. CASE ~((b - k) % 32 >= 2)
    <3>1. x = ((b - k) % 32) + 30
      BY <1>2, <2>1, <2>4
    <3>2. x \in Bits
      BY <2>1 DEF Bits
    <3> QED BY <2>2, <3>1, <3>2 DEF Shl
  <2> QED BY <2>3, <2>4
<1>4. ASSUME NEW x \in Shr(w, 2) PROVE x \in v
  <2>1. PICK c \in w : c >= 2 /\ x = c - 2
    BY DEF Shr
  <2>2. PICK b \in 0 .. 7 : c = (b - k) % 32
    BY DEF Ror
  <2> QED BY <1>2, <2>1, <2>2 DEF Ror
<1>5. ASSUME NEW x \in Shl(w, 30) PROVE x \in v
  <2>1. PICK c \in w : c + 30 \in Bits /\ x = c + 30
    BY DEF Shl
  <2>2. PICK b \in 0 .. 7 : c = (b - k) % 32
    BY DEF Ror
  <2>3. ~(c >= 2)
    BY <1>1, <2>1 DEF Bits
  <2> QED BY <1>2, <2>1, <2>2, <2>3 DEF Ror
<1> QED BY <1>3, <1>4, <1>5

(* The test in the loop is that of rotation i.                             *)
LEMMA FitsCovers ==
  ASSUME TypeOK, WindowRotated
  PROVE  Fits <=> Covers(i)
<1>1. value \subseteq Bits /\ window \subseteq Bits
  BY DEF TypeOK, Words
<1>2. Not(window) \subseteq value <=> Not(value) \subseteq window
  BY <1>1 DEF Not
<1> QED BY <1>2 DEF Fits, Covers, WindowRotated

(* Every variable keeps its type, and the loop ends within 15 turns.       *)
THEOREM TypeCorrect == Spec => []TypeOK
<1> USE DEF TypeOK
<1>1. Init => TypeOK
  <2> SUFFICES ASSUME Init PROVE TypeOK
    OBVIOUS
  <2>1. value \in Words
    BY ValuesAssumption DEF Init
  <2>2. 0 .. 7 \in Words
    BY DEF Words, Bits
  <2>3. CheckImm16m(value) \in BOOLEAN
    BY DEF CheckImm16m
  <2>4. isImm16 \in BOOLEAN
    BY <2>3 DEF Init
  <2>5. window \in Words /\ i \in 0 .. 15
    BY <2>2 DEF Init
  <2> QED BY <2>1, <2>4, <2>5, Zenon DEF Init
<1>2. TypeOK /\ [Next]_vars => TypeOK'
  <2> SUFFICES ASSUME TypeOK, [Next]_vars PROVE TypeOK'
    OBVIOUS
  <2>1. CASE Fit BY <2>1 DEF Fit
  <2>2. CASE Rotate
    <3>1. Rotated \in Words
      BY DEF Rotated, Shr, Shl, Words, Bits
    <3> QED BY <2>2, <3>1 DEF Rotate
  <2>3. CASE NoFit BY <2>3 DEF NoFit
  <2>4. CASE Emit
    BY <2>4 DEF Emit, Form, StackUses, ValueUses, BinaryUses
  <2>5. CASE Load BY <2>5 DEF Load
  <2>6. CASE Refuse BY <2>6 DEF Refuse
  <2>7. CASE Stopped \/ UNCHANGED vars BY <2>7 DEF Stopped, vars
  <2> QED BY <2>1, <2>2, <2>3, <2>4, <2>5, <2>6, <2>7 DEF Next
<1> QED BY <1>1, <1>2, PTL DEF Spec

(* The window is the rotated immediate, a constant not known yet fits none *)
(* of the rotations before it, and the verdict is exact once it is made.   *)
THEOREM VerdictHolds == Spec => [](WindowRotated /\ Verdict)
<1>1. Init => WindowRotated /\ Verdict
  <2> SUFFICES ASSUME Init PROVE WindowRotated /\ Verdict
    OBVIOUS
  <2>1. 0 .. 7 = Ror(0 .. 7, 0 * 2)
    <3>1. \A b \in 0 .. 7 : (b - 0 * 2) % 32 = b
      OBVIOUS
    <3> QED BY <3>1 DEF Ror
  <2>2. \A j \in 0 .. i - 1 : FALSE
    BY DEF Init
  <2> QED BY <2>1, <2>2 DEF Init, WindowRotated, Verdict, ClassIsExact
<1>2. TypeOK /\ WindowRotated /\ Verdict /\ [Next]_vars => (WindowRotated /\ Verdict)'
  <2> SUFFICES ASSUME TypeOK, WindowRotated, Verdict, [Next]_vars
               PROVE  WindowRotated' /\ Verdict'
    OBVIOUS
  <2> DEFINE covered == {j \in 0 .. 14 : Covers(j)}
  <2>0. /\ i \in 0 .. 15
        /\ UNCHANGED value /\ covered' = covered
    <3>1. i \in 0 .. 15
      BY DEF TypeOK
    <3>2. UNCHANGED value
      BY DEF Next, Fit, Rotate, NoFit, Emit, Load, Refuse, Stopped, vars
    <3> QED BY <3>1, <3>2 DEF Covers, Ror, Not
  <2>class. ClassIsExact <=> (phase # "check" => (isImm8m <=> covered # {}))
    BY DEF ClassIsExact
  <2>class2. ClassIsExact' <=> (phase' # "check" => (isImm8m' <=> covered # {}))
    BY <2>0 DEF ClassIsExact, Covers, Ror, Not
  <2>1. CASE Fit
    <3>1. Covers(i) /\ i \in 0 .. 14
      BY <2>0, <2>1, FitsCovers DEF Fit
    <3>2. i \in covered
      BY <3>1
    <3>3. ClassIsExact'
      BY <2>1, <2>class2, <3>2 DEF Fit
    <3> QED BY <2>1, <3>3 DEF Fit, WindowRotated, Verdict
  <2>2. CASE Rotate
    <3>1. i \in Nat /\ i * 2 + 2 = (i + 1) * 2
      BY DEF TypeOK
    <3>2. Rotated = Ror(0 .. 7, i * 2 + 2)
      BY <3>1, RotateWindow DEF WindowRotated, Rotated
    <3>3. WindowRotated'
      BY <2>2, <3>1, <3>2 DEF Rotate, WindowRotated
    <3>4. \A j \in 0 .. i : ~Covers(j)
      <4>1. ~Covers(i) /\ \A j \in 0 .. i - 1 : ~Covers(j)
        BY <2>2, FitsCovers DEF Rotate, Verdict
      <4>2. \A j \in 0 .. i : j = i \/ j \in 0 .. i - 1
        BY <2>0
      <4> QED BY <4>1, <4>2
    <3>5. \A j \in 0 .. i' - 1 : ~Covers(j)'
      <4>1. i' - 1 = i
        BY <2>0, <2>2 DEF Rotate
      <4> QED BY <2>0, <3>4, <4>1 DEF Covers, Ror, Not
    <3>6. phase' = "check" /\ ~isImm8m'
      BY <2>2 DEF Rotate, Verdict
    <3>7. ClassIsExact'
      BY <3>6 DEF ClassIsExact
    <3> QED BY <2>2, <3>3, <3>5, <3>6, <3>7 DEF Rotate, Verdict
  <2>3. CASE NoFit
    <3>1. ~isImm8m /\ covered = {}
      BY <2>0, <2>3 DEF NoFit, Verdict
    <3>2. ClassIsExact'
      BY <2>3, <2>class2, <3>1 DEF NoFit
    <3> QED BY <2>3, <3>2 DEF NoFit, WindowRotated, Verdict
  <2>4. CASE Emit
    BY <2>4, <2>class, <2>class2 DEF Emit, WindowRotated, Verdict
  <2>5. CASE Load
    BY <2>5, <2>class, <2>class2 DEF Load, WindowRotated, Verdict
  <2>6. CASE Refuse
    <3>1. use \in {"alloca", "add", "rsb"} /\ isImm16 /\ ~isImm8m
      BY <2>6 DEF Refuse, Accepts, Immediate, Form, TypeOK, StackUses,
                  ValueUses, BinaryUses
    <3> QED BY <2>6, <2>class, <2>class2, <3>1 DEF Refuse, WindowRotated, Verdict
  <2>7. CASE Stopped \/ UNCHANGED vars
    <3>1. UNCHANGED vars
      BY <2>7 DEF Stopped
    <3>2. \A j \in 0 .. i - 1 : Covers(j)' <=> Covers(j)
      BY <2>0 DEF Covers, Ror, Not
    <3> QED BY <2>class, <2>class2, <3>1, <3>2 DEF vars, WindowRotated, Verdict
  <2> QED BY <2>1, <2>2, <2>3, <2>4, <2>5, <2>6, <2>7 DEF Next
<1> QED BY <1>1, <1>2, TypeCorrect, PTL DEF Spec

(* The loop gives every constant the class of a rotated 8-bit number or of *)
(* the complement of one, but for the last rotation, and no other constant *)
(* (operand.cc: CheckImm8m), whatever the constants of the program are.    *)
THEOREM ClassExact == Spec => []ClassIsExact
<1>1. WindowRotated /\ Verdict => ClassIsExact
  BY DEF Verdict
<1> QED BY <1>1, VerdictHolds, PTL

(* The only constants that end the compilation are 16-bit ones of an array *)
(* or of + and - (asm.cc: TranslateAllocaInst, TranslateBinaryOpInst).     *)
THEOREM OnlyImm16Throws == Spec => []ThrownOnlyForImm16
<1>1. WindowRotated /\ Verdict => ThrownOnlyForImm16
  BY DEF Verdict, ThrownOnlyForImm16
<1> QED BY <1>1, VerdictHolds, PTL
=============================================================================
