------------------------- MODULE ExpressionsProofs -------------------------
(***************************************************************************)
(* Proofs about Expressions, for every width of an int, every set of       *)
(* literals, variables and operators, every constant array and every bound *)
(* on the size of the expression.                                          *)
(***************************************************************************)
EXTENDS Expressions, TLAPS

-----------------------------------------------------------------------------
(* Arithmetic of words.                                                    *)

LEMMA Words ==
  /\ Half \in Nat /\ Half > 1
  /\ \A i \in Word : i \in Int /\ -Half <= i /\ i < Half
  /\ \A i \in Int : -Half <= i /\ i < Half => i \in Word
  /\ 0 \in Word /\ 1 \in Word /\ Absent \notin Word /\ Absent \in Int
BY HalfAssumption DEF Word, Absent

LEMMA TruthIsWord == \A b : Truth(b) \in Word /\ Truth(b) \in {0, 1}
BY Words DEF Truth

LEMMA WrapIsWord ==
  ASSUME NEW i \in Int
  PROVE  Wrap(i) \in Word
<1>1. 2 * Half \in Nat /\ 2 * Half > 0
  BY Words
<1>2. (i + Half) % (2 * Half) \in 0 .. 2 * Half - 1
  BY <1>1, Words
<1> QED BY <1>2, Words DEF Wrap, Word

(* A number that fits is unchanged; the negation of the least int is it.   *)
LEMMA WrapNegation ==
  ASSUME NEW a \in Word
  PROVE  Wrap(-a) = IF a = -Half THEN a ELSE -a
<1>1. CASE a = -Half
  <2>1. (2 * Half) % (2 * Half) = 0
    BY Words
  <2>2. (-a) + Half = 2 * Half
    BY <1>1, Words
  <2> QED BY <1>1, <2>1, <2>2, Words DEF Wrap
<1>2. CASE a # -Half
  <2>1. /\ (-a) + Half \in 0 .. 2 * Half - 1
        /\ 2 * Half \in Nat \ {0}
    BY <1>2, Words
  <2>2. ((-a) + Half) % (2 * Half) = (-a) + Half
    BY <2>1
  <2> QED BY <1>2, <2>2, Words DEF Wrap
<1> QED BY <1>1, <1>2

LEMMA QuotientIsInt ==
  ASSUME NEW a \in Word, NEW b \in Word, b # 0
  PROVE  Quotient(a, b) \in Int
<1>1. Size(a) \in Nat /\ Size(b) \in Nat \ {0}
  BY Words DEF Size
<1>2. Size(a) \div Size(b) \in Int
  BY <1>1
<1> QED BY <1>2 DEF Quotient

LEMMA Int32IsWord ==
  ASSUME NEW op, NEW a \in Word, NEW b \in Word, ~Undefined(op, a, b)
  PROVE  Int32(op, a, b) \in Word
<1>1. a \in Int /\ b \in Int /\ a * b \in Int
  BY Words
<1>2. a + b \in Int /\ a - b \in Int
  BY <1>1
<1>3. ASSUME op \in {"div", "rem"}
      PROVE  Quotient(a, b) \in Int /\ a - (b * Quotient(a, b)) \in Int
  <2>1. Quotient(a, b) \in Int
    BY <1>3, QuotientIsInt DEF Undefined
  <2>2. b * Quotient(a, b) \in Int
    BY <2>1, <1>1
  <2> QED BY <2>1, <2>2, <1>1
<1> DEFINE rest == a - (b * Quotient(a, b))
<1>4. /\ Wrap(a + b) \in Word /\ Wrap(a - b) \in Word /\ Wrap(a * b) \in Word
      /\ op = "div" => Wrap(Quotient(a, b)) \in Word
      /\ op = "rem" => Wrap(rest) \in Word
  BY <1>1, <1>2, <1>3, WrapIsWord
<1> QED BY Zenon, <1>4, TruthIsWord DEF Int32

LEMMA FoldedIsWord ==
  ASSUME NEW op, NEW a \in Word, NEW b \in Word, ~Undefined(op, a, b)
  PROVE  /\ Folded(op, a, b) \in Word
         /\ op \notin LogicOps => Folded(op, a, b) = Int32(op, a, b)
         /\ op = "or" => Folded(op, a, b) = Truth(a # 0 \/ b # 0)
         /\ op = "and" => Folded(op, a, b) = Truth(a # 0 /\ b # 0)
<1>1. Int32(op, a, b) \in Word
  BY Int32IsWord
<1>2. "or" # "and" /\ "or" \in LogicOps /\ "and" \in LogicOps
  BY DEF LogicOps
<1> QED BY Zenon, <1>1, <1>2, TruthIsWord DEF Folded

(* The folder's unary operators are the language's.                        *)
LEMMA FoldedUnaryExact ==
  ASSUME NEW op, NEW a \in Word
  PROVE  /\ FoldedUnary(op, a) \in Word
         /\ FoldedUnary(op, a) = UnaryMeaning(op, a)
<1>1. a # Absent
  BY Words
<1>2. Wrap(-a) \in Word /\ Truth(a = 0) \in Word
  BY Words, WrapIsWord, TruthIsWord
<1>3. Truth(a = 0) = IF a = 0 THEN 1 ELSE 0
  BY DEF Truth
<1>4. FoldedUnary(op, a) \in Word
  BY Zenon, <1>2 DEF FoldedUnary
<1>5. FoldedUnary(op, a) = UnaryMeaning(op, a)
  BY Zenon, <1>1, <1>3, WrapNegation DEF FoldedUnary, UnaryMeaning
<1> QED BY <1>4, <1>5

LEMMA UnaryMeaningType ==
  ASSUME NEW op, NEW v \in Word \cup {Absent}
  PROVE  /\ UnaryMeaning(op, v) \in Word \cup {Absent}
         /\ v # Absent => UnaryMeaning(op, v) # Absent
<1>1. CASE v = Absent
  BY <1>1 DEF UnaryMeaning
<1>2. CASE v # Absent
  BY <1>2, FoldedUnaryExact, Words
<1> QED BY <1>1, <1>2

-----------------------------------------------------------------------------
(* The inductive invariant.                                                *)

(* A node has the operands its kind needs, and is a constant as its kind   *)
(* and its operands say.                                                   *)
WellFormed(m) ==
  /\ m.kind \in {"element", "call", "unary", "paren"} => Len(m.args) = 1
  /\ m.kind \in {"binary", "logic"} => Len(m.args) = 2
  /\ m.kind \in {"literal", "const"} => m.const
  /\ m.kind \in {"var", "call"} => ~m.const /\ m.op \in Vars
  /\ m.kind = "binary" => m.op \in ArithOps \cup RelOps
  /\ m.kind = "paren" /\ ~m.const => ~IsConst(m.args[1])
  /\ m.kind = "logic" /\ ~m.const =>
       \/ IsConst(m.args[1]) /\ ~IsConst(m.args[2])
       \/ ~IsConst(m.args[1]) /\ IsConst(m.args[2])

TreeOK == \A n \in DOMAIN nodes : WellFormed(nodes[n])

(* What the source evaluates has a value, unless it did something          *)
(* undefined before; and a constant's initialiser is constant.             *)
EvaluatedOK ==
  /\ \A i \in DOMAIN stack : Reached(i - 1) => meant[stack[i].node] # Absent
  /\ \A d \in consts : IsConst(d) /\ (srcTrap \/ meant[d] # Absent)

(* The lowering comes after the parse, on one tree.                        *)
Staged ==
  /\ phase \in {"parse", "crashed"} => frames = <<>> /\ code = <<>>
  /\ phase = "lower" =>
       frames # <<>> /\ Len(stack) = 1 /\ context \in AllContexts

IInv ==
  /\ TypeOK
  /\ TreeOK
  /\ EvaluatedOK
  /\ Staged
  /\ FoldingExact
  /\ CrashMeansTrap
  /\ OperandsTyped

LEMMA InitInv == Init => IInv
<1> SUFFICES ASSUME Init PROVE IInv
  OBVIOUS
<1>1. source \in Program
  BY StartAssumption DEF Init, Program
<1>2. TypeOK
  <2>1. /\ nodes \in Seq(NodeSet) /\ meant \in Seq(Word \cup {Absent})
        /\ stack \in Seq([node : DOMAIN nodes, logic : {"none"} \cup LogicOps])
        /\ code \in Seq(InstSet)
        /\ frames \in Seq([node : {0} \cup DOMAIN nodes, got : Seq(OperandSet)])
    BY DEF Init
  <2>2. DOMAIN nodes = {} /\ DOMAIN frames = {} /\ Len(meant) = Len(nodes)
    BY DEF Init
  <2>3. run \in Program
    BY <1>1 DEF Init
  <2>4. /\ consts \subseteq DOMAIN nodes /\ srcTrap \in BOOLEAN
        /\ context \in {"none"} \cup AllContexts /\ outcome \in Word
        /\ phase \in {"parse", "lower", "done", "crashed", "thrown", "trapped"}
    BY Words DEF Init
  <2> QED BY <1>1, <2>1, <2>2, <2>3, <2>4 DEF TypeOK
<1>3. DOMAIN nodes = {} /\ DOMAIN stack = {} /\ DOMAIN code = {}
  BY DEF Init
<1>4. TreeOK /\ FoldingExact /\ EvaluatedOK
  BY <1>3 DEF Init, TreeOK, FoldingExact, EvaluatedOK
<1>5. Staged /\ CrashMeansTrap /\ OperandsTyped
  BY <1>3 DEF Init, Staged, CrashMeansTrap, OperandsTyped
<1> QED
  BY <1>2, <1>4, <1>5 DEF IInv

LEMMA StutterInv == IInv /\ UNCHANGED vars => IInv'
<1> SUFFICES ASSUME IInv, UNCHANGED vars PROVE IInv'
  OBVIOUS
<1>1. UNCHANGED <<nodes, stack, consts, meant, source, srcTrap>>
      /\ UNCHANGED <<context, frames, code, run, outcome, phase>>
  BY DEF vars, ast, low
<1>2. TypeOK' /\ TreeOK'
  BY <1>1 DEF IInv, TypeOK, TreeOK, WellFormed, IsConst
<1>3. EvaluatedOK' /\ CrashMeansTrap'
  BY <1>1 DEF IInv, EvaluatedOK, CrashMeansTrap, Reached, Skipping, IsConst
<1>4. Staged' /\ FoldingExact' /\ OperandsTyped'
  BY <1>1 DEF IInv, Staged, FoldingExact, OperandsTyped, IsConst, Val
<1> QED BY <1>2, <1>3, <1>4 DEF IInv

-----------------------------------------------------------------------------
(* The parser.                                                             *)

LEMMA Prefix ==
  ASSUME NEW S, NEW s \in Seq(S), NEW n \in 0 .. Len(s)
  PROVE  /\ SubSeq(s, 1, n) \in Seq(S) /\ Len(SubSeq(s, 1, n)) = n
         /\ \A i \in 1 .. n : SubSeq(s, 1, n)[i] = s[i]
OBVIOUS

LEMMA StackEntries ==
  ASSUME TypeOK
  PROVE  /\ Len(stack) \in Nat /\ DOMAIN stack = 1 .. Len(stack)
         /\ \A i \in DOMAIN stack : /\ stack[i].node \in DOMAIN nodes
                                   /\ stack[i].logic \in {"none"} \cup LogicOps
<1> DEFINE Entry == [node : DOMAIN nodes, logic : {"none"} \cup LogicOps]
<1>1. stack \in Seq(Entry)
  BY DEF TypeOK
<1>2. \A e \in Entry : e.node \in DOMAIN nodes /\ e.logic \in {"none"} \cup LogicOps
  OBVIOUS
<1> HIDE DEF Entry
<1>3. Len(stack) \in Nat /\ DOMAIN stack = 1 .. Len(stack)
      /\ \A i \in DOMAIN stack : stack[i] \in Entry
  BY <1>1
<1> QED BY <1>2, <1>3

(* What Reduce does to the tree, its meaning and the stack.                *)
LEMMA ReduceEffect ==
  ASSUME TypeOK, NEW k \in 0 .. Len(stack), NEW node \in NodeSet,
         node.args \in Seq(DOMAIN nodes),
         NEW v \in Word \cup {Absent}, Reduce(k, node, v)
  PROVE  /\ nodes' \in Seq(NodeSet) /\ Len(nodes') = New
         /\ \A n \in DOMAIN nodes : n \in DOMAIN nodes' /\ nodes'[n] = nodes[n]
         /\ nodes'[New] = node
         /\ \A n \in DOMAIN nodes' : nodes'[n].args \in Seq(1 .. n - 1)
         /\ meant' \in Seq(Word \cup {Absent}) /\ Len(meant') = New
         /\ \A n \in DOMAIN nodes : meant'[n] = meant[n]
         /\ meant'[New] = IF Reached(Len(stack) - k) THEN v ELSE Absent
         /\ stack' \in Seq([node : DOMAIN nodes', logic : {"none"} \cup LogicOps])
         /\ Len(stack') = Len(stack) - k + 1
         /\ \A i \in 1 .. Len(stack) - k : stack'[i] = stack[i]
         /\ stack'[Len(stack')] = Operand(New)
<1>1. nodes' \in Seq(NodeSet) /\ Len(nodes') = New
      /\ (\A n \in DOMAIN nodes : n \in DOMAIN nodes' /\ nodes'[n] = nodes[n])
      /\ nodes'[New] = node
  BY DEF TypeOK, Reduce, New
<1>2. \A n \in DOMAIN nodes' : n \in DOMAIN nodes \/ n = New
  BY <1>1 DEF TypeOK, New
<1>3. DOMAIN nodes = 1 .. New - 1
  BY DEF TypeOK, New
<1>4. \A n \in DOMAIN nodes' : nodes'[n].args \in Seq(1 .. n - 1)
  BY <1>1, <1>2, <1>3 DEF TypeOK
<1>5. meant' \in Seq(Word \cup {Absent}) /\ Len(meant') = New
      /\ (\A n \in DOMAIN nodes : meant'[n] = meant[n])
      /\ meant'[New] = IF Reached(Len(stack) - k) THEN v ELSE Absent
  <2> DEFINE w == IF Reached(Len(stack) - k) THEN v ELSE Absent
  <2>1. w \in Word \cup {Absent}
    OBVIOUS
  <2>2. meant' = Append(meant, w)
    BY DEF Reduce
  <2> HIDE DEF w
  <2>3. meant' \in Seq(Word \cup {Absent}) /\ Len(meant') = New
        /\ (\A n \in DOMAIN nodes : meant'[n] = meant[n]) /\ meant'[New] = w
    BY <2>1, <2>2 DEF TypeOK, New
  <2> QED BY <2>3 DEF w
<1> DEFINE Entry == [node : DOMAIN nodes, logic : {"none"} \cup LogicOps]
           Entry2 == [node : DOMAIN nodes', logic : {"none"} \cup LogicOps]
<1>6. /\ Popped(k) \in Seq(Entry) /\ Len(Popped(k)) = Len(stack) - k
      /\ \A i \in 1 .. Len(stack) - k : Popped(k)[i] = stack[i]
  <2>1. stack \in Seq(Entry)
    BY DEF TypeOK
  <2> HIDE DEF Entry
  <2> QED BY <2>1 DEF Popped
<1>7. Popped(k) \in Seq(Entry2) /\ Operand(New) \in Entry2
  <2>1. Entry \subseteq Entry2
    BY <1>1
  <2>2. New \in DOMAIN nodes'
    BY <1>1 DEF New, TypeOK
  <2>3. Operand(New) \in Entry2
    BY <2>2 DEF Operand
  <2> HIDE DEF Entry, Entry2
  <2> QED BY <1>6, <2>1, <2>3
<1>8. /\ stack' \in Seq(Entry2) /\ Len(stack') = Len(stack) - k + 1
      /\ \A i \in 1 .. Len(stack) - k : stack'[i] = stack[i]
      /\ stack'[Len(stack')] = Operand(New)
  <2>1. stack' = Append(Popped(k), Operand(New)) /\ Len(stack) - k \in Nat
    BY DEF Reduce, TypeOK
  <2> HIDE DEF Entry, Entry2
  <2> QED BY <1>6, <1>7, <2>1
<1> QED BY <1>1, <1>4, <1>5, <1>8

(* Whether operand k is reached depends on the operands below it and on    *)
(* whether something undefined has happened.                               *)
LEMMA ReachedStays ==
  ASSUME NEW k \in Nat, k <= Len(stack), k <= Len(stack'),
         Len(stack) \in Nat, Len(stack') \in Nat,
         \A i \in 1 .. k : /\ stack'[i] = stack[i]
                           /\ meant'[stack[i].node] = meant[stack[i].node],
         srcTrap => srcTrap'
  PROVE  /\ Skipping(k)' <=> Skipping(k)
         /\ Reached(k)' => Reached(k)
<1>1. Skipping(k)' <=> Skipping(k)
  BY SMTT(30) DEF Skipping, Decides
<1> QED BY <1>1 DEF Reached

(* A node is built on k operands, and what the source does meanwhile.      *)
LEMMA NodeBuilt ==
  ASSUME IInv, Parsing, NEW k \in 0 .. Len(stack), NEW node \in NodeSet,
         node.args \in Seq(DOMAIN nodes), WellFormed(node),
         NEW v \in Word \cup {Absent}, Reduce(k, node, v),
         Reached(Len(stack) - k) => v # Absent \/ srcTrap',
         node.const /\ v # Absent => node.value = v,
         source' \in Program, srcTrap' \in BOOLEAN, srcTrap => srcTrap',
         UNCHANGED <<consts, low, phase>>
  PROVE  IInv'
<1> DEFINE h == Len(stack) - k
<1>1. TypeOK /\ TreeOK /\ EvaluatedOK /\ Staged /\ FoldingExact /\ OperandsTyped
  BY DEF IInv
<1>2. /\ nodes' \in Seq(NodeSet) /\ Len(nodes') = New
      /\ \A n \in DOMAIN nodes : n \in DOMAIN nodes' /\ nodes'[n] = nodes[n]
      /\ nodes'[New] = node
      /\ \A n \in DOMAIN nodes' : nodes'[n].args \in Seq(1 .. n - 1)
  BY <1>1, ReduceEffect
<1>3. /\ meant' \in Seq(Word \cup {Absent}) /\ Len(meant') = New
      /\ \A n \in DOMAIN nodes : meant'[n] = meant[n]
      /\ meant'[New] = IF Reached(h) THEN v ELSE Absent
  BY <1>1, ReduceEffect
<1>4. /\ stack' \in Seq([node : DOMAIN nodes', logic : {"none"} \cup LogicOps])
      /\ Len(stack') = h + 1
      /\ \A i \in 1 .. h : stack'[i] = stack[i]
      /\ stack'[h + 1] = Operand(New)
  BY <1>1, ReduceEffect
<1>5. UNCHANGED <<consts, context, frames, code, run, outcome, phase>>
  BY DEF low
<1>6. \A n \in DOMAIN nodes' : n \in DOMAIN nodes \/ n = New
  <2>1. Len(nodes) \in Nat /\ DOMAIN nodes = 1 .. Len(nodes)
    BY <1>1 DEF TypeOK
  <2>2. DOMAIN nodes' = 1 .. Len(nodes')
    BY <1>2
  <2> QED BY <1>2, <2>1, <2>2 DEF New
<1>7. /\ h \in Nat /\ h <= Len(stack) /\ h <= Len(stack')
      /\ Len(stack) \in Nat /\ Len(stack') \in Nat
      /\ DOMAIN stack = 1 .. Len(stack) /\ DOMAIN stack' = 1 .. h + 1
  BY <1>1, <1>4 DEF TypeOK
<1>8. frames = <<>> /\ code = <<>> /\ phase = "parse"
  BY <1>1 DEF Staged, Parsing
<1> HIDE DEF h
<1>9. TypeOK'
  <2>1. consts' \subseteq DOMAIN nodes'
    BY <1>1, <1>2, <1>5 DEF TypeOK
  <2>2. frames' \in Seq([node : {0} \cup DOMAIN nodes', got : Seq(OperandSet)])
        /\ DOMAIN frames' = {}
    BY <1>5, <1>8
  <2>3. /\ run' \in Program /\ context' \in {"none"} \cup AllContexts
        /\ code' \in Seq(InstSet) /\ outcome' \in Word
        /\ phase' \in {"parse", "lower", "done", "crashed", "thrown", "trapped"}
    BY <1>1, <1>5 DEF TypeOK
  <2> QED BY <1>2, <1>3, <1>4, <2>1, <2>2, <2>3 DEF TypeOK
<1>10. TreeOK'
  <2>1. ASSUME NEW m \in NodeSet, m.args \in Seq(DOMAIN nodes), WellFormed(m)
        PROVE  WellFormed(m)'
    <3>1. \A i \in DOMAIN m.args : IsConst(m.args[i])' = IsConst(m.args[i])
      BY SMTT(30), <1>2, <2>1 DEF IsConst
    <3>2. m.kind = "paren" => 1 \in DOMAIN m.args
      BY <2>1 DEF WellFormed
    <3>3. m.kind = "logic" => 1 \in DOMAIN m.args /\ 2 \in DOMAIN m.args
      BY <2>1 DEF WellFormed
    <3> QED BY <2>1, <3>1, <3>2, <3>3 DEF WellFormed
  <2>2. \A n \in DOMAIN nodes :
          nodes[n] \in NodeSet /\ nodes[n].args \in Seq(DOMAIN nodes)
    BY <1>1 DEF TypeOK
  <2> QED BY <1>1, <1>2, <1>6, <2>1, <2>2 DEF TreeOK
<1>11. \A i \in 1 .. h : stack[i].node \in DOMAIN nodes
  BY <1>1, <1>7, StackEntries
<1>12. \A j \in 0 .. h : Reached(j)' => Reached(j)
  <2> TAKE j \in 0 .. h
  <2>1. \A i \in 1 .. j : /\ stack'[i] = stack[i]
                          /\ meant'[stack[i].node] = meant[stack[i].node]
    BY <1>3, <1>4, <1>7, <1>11
  <2>2. j \in Nat /\ j <= Len(stack) /\ j <= Len(stack')
    BY <1>7
  <2> QED BY <1>7, <2>1, <2>2, ReachedStays
<1>13. EvaluatedOK'
  <2>1. ASSUME NEW i \in DOMAIN stack', Reached(i - 1)'
        PROVE  meant'[stack'[i].node] # Absent
    <3>1. Reached(i - 1) /\ ~srcTrap'
      <4>1. i - 1 \in 0 .. h
        BY <1>7
      <4> QED BY <1>12, <2>1, <4>1 DEF Reached
    <3>2. CASE i \in 1 .. h
      BY <1>1, <1>3, <1>4, <1>7, <1>11, <3>1, <3>2 DEF EvaluatedOK
    <3>3. CASE i = h + 1
      <4>1. i - 1 = h /\ stack'[i].node = New
        BY <1>4, <1>7, <3>3 DEF Operand
      <4> QED BY <1>3, <3>1, <4>1 DEF h
    <3> QED BY <1>7, <3>2, <3>3
  <2>2. ASSUME NEW d \in consts'
        PROVE  IsConst(d)' /\ (srcTrap' \/ meant'[d] # Absent)
    <3>1. d \in consts /\ d \in DOMAIN nodes
      BY <1>1, <1>5 DEF TypeOK
    <3> QED BY <1>1, <1>2, <1>3, <3>1 DEF EvaluatedOK, IsConst
  <2>3. Absent' = Absent
    BY DEF Absent
  <2> QED BY <2>1, <2>2, <2>3 DEF EvaluatedOK
<1>14. FoldingExact'
  <2> SUFFICES ASSUME NEW n \in DOMAIN nodes', nodes'[n].const,
                      meant'[n] # Absent
               PROVE  nodes'[n].value = meant'[n]
    BY DEF FoldingExact, IsConst, Val, Absent
  <2>1. CASE n \in DOMAIN nodes
    BY <1>1, <1>2, <1>3, <2>1 DEF FoldingExact, IsConst, Val
  <2>2. CASE n = New
    BY <1>2, <1>3, <2>2
  <2> QED BY <1>6, <2>1, <2>2
<1>15. Staged' /\ CrashMeansTrap' /\ OperandsTyped'
  BY <1>1, <1>5, <1>8 DEF Staged, CrashMeansTrap, OperandsTyped
<1> QED BY <1>9, <1>10, <1>13, <1>14, <1>15 DEF IInv

LEMMA NodeFacts ==
  ASSUME TypeOK, NEW n \in DOMAIN nodes
  PROVE  /\ nodes[n] \in NodeSet /\ nodes[n].const \in BOOLEAN
         /\ Val(n) \in Word /\ meant[n] \in Word \cup {Absent}
         /\ nodes[n].args \in Seq(1 .. n - 1) /\ n \in Nat /\ n # 0
<1>1. nodes[n] \in NodeSet
  BY DEF TypeOK
<1>2. nodes[n].const \in BOOLEAN /\ Val(n) \in Word
  BY <1>1 DEF NodeSet, Val
<1>3. n \in DOMAIN meant
  BY DEF TypeOK
<1>4. meant[n] \in Word \cup {Absent}
  BY <1>3 DEF TypeOK
<1> QED BY <1>1, <1>2, <1>4 DEF TypeOK

(* The operands on top of the stack.                                       *)
LEMMA TopFacts ==
  ASSUME IInv, IsOperand(Len(stack))
  PROVE  /\ Top \in DOMAIN nodes /\ 1 \in 0 .. Len(stack) /\ Len(stack) \in Nat
         /\ Reached(Len(stack) - 1) => meant[Top] # Absent
         /\ IsConst(Top) /\ meant[Top] # Absent => Val(Top) = meant[Top]
<1>1. /\ Len(stack) \in Nat /\ Len(stack) \in DOMAIN stack
      /\ Top \in DOMAIN nodes /\ DOMAIN stack = 1 .. Len(stack)
  BY StackEntries DEF IInv, IsOperand, Top
<1>2. Reached(Len(stack) - 1) => meant[Top] # Absent
  BY <1>1 DEF IInv, EvaluatedOK, Top
<1> QED BY <1>1, <1>2 DEF IInv, FoldingExact

LEMMA SecondFacts ==
  ASSUME IInv, IsOperand(Len(stack)), Len(stack) > 1
  PROVE  /\ Second \in DOMAIN nodes /\ 2 \in 0 .. Len(stack)
         /\ Reached(Len(stack) - 2) => meant[Second] # Absent
         /\ IsConst(Second) /\ meant[Second] # Absent => Val(Second) = meant[Second]
<1>1. /\ Len(stack) \in Nat /\ Len(stack) - 1 \in DOMAIN stack
      /\ Second \in DOMAIN nodes /\ DOMAIN stack = 1 .. Len(stack)
  BY StackEntries DEF IInv, IsOperand, Second
<1>2. (Len(stack) - 1) - 1 = Len(stack) - 2
  BY <1>1
<1>3. Reached(Len(stack) - 2) => meant[Second] # Absent
  BY <1>1, <1>2 DEF IInv, EvaluatedOK, Second
<1> QED BY <1>1, <1>3 DEF IInv, FoldingExact

LEMMA ReachedNext ==
  ASSUME NEW i \in Nat, i # 0, Reached(i - 1),
         ~Decides(stack[i].logic, meant[stack[i].node])
  PROVE  Reached(i)
BY DEF Reached, Skipping

LEMMA NoneDecidesNothing == \A v : ~Decides("none", v)
BY DEF Decides

-----------------------------------------------------------------------------
(* What the source did, node by node: W[n] is the program after node n and *)
(* W[0] the one at the start, D the nodes after which something undefined  *)
(* has been done, K the nodes that && and || skip, L[n] the first node of  *)
(* the expression whose root is n.                                         *)
Quiet(W, D, L, n) == W[n] = W[L[n] - 1] /\ (n \in D <=> L[n] - 1 \in D)
Alive(D, K, n)    == n - 1 \notin D /\ n \notin K

Leaves    == {"literal", "var", "const"}
OnOne     == {"element", "call", "unary", "paren"}
OnTwo     == {"binary", "logic"}

OpFits(m) ==
  /\ m.kind \in {"literal", "const", "element"} => m.op = "none"
  /\ m.kind \in {"var", "call"} => m.op \in Vars
  /\ m.kind = "unary" => m.op \in {"plus", "minus", "not"}
  /\ m.kind = "paren" => m.op = "paren"
  /\ m.kind = "binary" => m.op \in ArithOps \cup RelOps
  /\ m.kind = "logic" => m.op \in LogicOps

(* Nodes are in the order of evaluation: the last operand of a node is the *)
(* one before it, and its operands stand side by side.                     *)
Laid(ns, L, n) ==
  /\ OpFits(ns[n]) /\ L[n] \in 1 .. n
  /\ ns[n].kind \in Leaves => Len(ns[n].args) = 0 /\ L[n] = n
  /\ ns[n].kind \in OnOne =>
       /\ Len(ns[n].args) = 1 /\ ns[n].args[1] \in 1 .. n - 1
       /\ ns[n].args[1] = n - 1 /\ L[n] = L[ns[n].args[1]]
  /\ ns[n].kind \in OnTwo =>
       /\ Len(ns[n].args) = 2 /\ ns[n].args[1] \in 1 .. n - 1 /\ ns[n].args[2] \in 1 .. n - 1
       /\ ns[n].args[2] = n - 1 /\ L[ns[n].args[2]] = ns[n].args[1] + 1
       /\ L[n] = L[ns[n].args[1]]

(* An operand is skipped with its node, or because the one on its left     *)
(* decides.                                                                *)
Skips(ns, mt, K, n) ==
  /\ ns[n].kind \in OnOne \cup OnTwo => (ns[n].args[1] \in K <=> n \in K)
  /\ ns[n].kind = "binary" => (ns[n].args[2] \in K <=> n \in K)
  /\ ns[n].kind = "logic" =>
       (ns[n].args[2] \in K <=> n \in K \/ Decides(ns[n].op, mt[ns[n].args[1]]))

(* What node n does once its operands are done.                            *)
Does(m, v, a, b, W, D, K, n) ==
  /\ m.kind # "call" \/ ~Alive(D, K, n) => W[n] = W[n - 1]
  /\ m.kind \notin {"element", "binary"} \/ ~Alive(D, K, n) => (n \in D <=> n - 1 \in D)
  /\ n \notin K /\ n \notin D => v # Absent
  /\ Alive(D, K, n) =>
       /\ m.kind = "var" => v = W[n - 1].mem[m.op]
       /\ m.kind = "element" =>
            (n \in D <=> ~InTable(a)) /\ (InTable(a) => v = Table[a + 1])
       /\ m.kind = "call" => v = a /\ W[n] = Called(W[n - 1], m.op, a)
       /\ m.kind \in {"unary", "paren"} => v = UnaryMeaning(m.op, a)
       /\ m.kind = "binary" =>
            (n \in D <=> Undefined(m.op, a, b))
              /\ (~Undefined(m.op, a, b) => v = Int32(m.op, a, b))
       /\ m.kind = "logic" => v = LogicMeaning(m.op, a, b)
DoesAt(ns, mt, W, D, K, n) ==
  Does(ns[n], mt[n], mt[ns[n].args[1]], mt[ns[n].args[2]], W, D, K, n)

PureNode(m) == m.kind \notin {"call", "element"} /\ m.op \notin {"div", "rem"}
IsPure(ns)  == \A n \in 1 .. Len(ns) : PureNode(ns[n])

NodeRecorded(ns, mt, W, D, K, L, n) ==
  /\ Laid(ns, L, n) /\ Skips(ns, mt, K, n) /\ DoesAt(ns, mt, W, D, K, n)
  /\ n \in K \/ ns[n].const => Quiet(W, D, L, n)

(* What is undefined stops the source.                                     *)
Recorded(ns, mt, W, D, K, L) ==
  /\ W \in [0 .. Len(ns) -> Program]
  /\ \A n \in 1 .. Len(ns) : NodeRecorded(ns, mt, W, D, K, L, n)
  /\ \A i, j \in 0 .. Len(ns) : i <= j /\ i \in D => j \in D /\ W[j] = W[i]
  /\ IsPure(ns) => \A i \in 0 .. Len(ns) : W[i] = W[0] /\ i \notin D

(* The operands on the stack stand side by side.                           *)
Start0 == [mem |-> [x \in Vars |-> Start], calls |-> <<>>]
StackFirst(L) == IF stack = <<>> THEN Len(nodes) ELSE L[stack[1].node] - 1
StackRecorded(W, D, K, L) ==
  /\ stack # <<>> => Top = Len(nodes)
  /\ \A i \in 1 .. Len(stack) - 1 : L[stack[i + 1].node] = stack[i].node + 1
  /\ \A i \in 1 .. Len(stack) : stack[i].node \in K <=> Skipping(i - 1)
  /\ W[StackFirst(L)] = Start0 /\ StackFirst(L) \notin D

(* The nodes of which the lowering gives no more than the truth.           *)
RawNode(ns, R, n) ==
  \/ /\ ns[n].kind = "logic" /\ ~ns[n].const
     /\ ~\E k \in 1 .. 2 : /\ ns[ns[n].args[k]].const
                           /\ Decides(ns[n].op, ns[ns[n].args[k]].value)
  \/ ns[n].op \in {"plus", "paren"} /\ ns[n].args[1] \in R
RawSet(ns, R) == \A n \in 1 .. Len(ns) : n \in R <=> RawNode(ns, R, n)

Remembered(W, D, K, L) ==
  /\ Recorded(nodes, meant, W, D, K, L)
  /\ phase # "crashed" => (srcTrap <=> Len(nodes) \in D)
  /\ phase = "parse" => /\ StackRecorded(W, D, K, L) /\ run = Start0
                        /\ source = W[Len(nodes)]
  /\ phase \notin {"parse", "crashed"} =>
       /\ Root = Len(nodes) /\ Root \notin K
       /\ source = IF context = "assign" /\ ~srcTrap
                   THEN Stored(W[Len(nodes)], Target, meant[Root]) ELSE W[Len(nodes)]

-----------------------------------------------------------------------------
(* The lowering: the operand that it has for a node has the node's value,  *)
(* or its truth; the node of a call stands for the operand its caller      *)
(* needs; and the code has done what the source does before the next node. *)
IsRaw(n)    == Raw[n]
Match(v, n) == IF IsRaw(n) THEN (v # 0) <=> (meant[n] # 0) ELSE v = meant[n]

StandsFor(d, c, W, D, K, L) ==
  /\ d \in 1 .. Len(nodes) /\ d \notin K /\ ~IsConst(d)
  /\ W[L[d] - 1] = W[L[c] - 1] /\ (L[d] - 1 \in D <=> L[c] - 1 \in D)
  /\ W[d] = W[c] /\ (d \in D <=> c \in D)
  /\ d \notin D => \A v \in Word : Match(v, d) => Match(v, c)

First(n, L) == L[IF n = 0 THEN Root ELSE n] - 1
Position(f, L) ==
  IF f.got = <<>> THEN First(f.node, L) ELSE Args(f.node)[Len(f.got)]

FrameFollows(f, K) ==
  /\ Len(f.got) <= Len(Args(f.node))
  /\ \A k \in 1 .. Len(f.got) : Match(f.got[k].val, Args(f.node)[k])
  /\ f.node # 0 => f.node \notin K
  /\ Kind(f.node) \in {"logic", "paren"} => f.got = <<>>
Asks(f, g, W, D, K, L) ==
  /\ Len(f.got) < Len(Args(f.node)) /\ Kind(f.node) \notin {"logic", "paren"}
  /\ StandsFor(g.node, Args(f.node)[Len(f.got) + 1], W, D, K, L)
Follows(fs, r, W, D, K, L) ==
  /\ \A i \in 1 .. Len(fs) : FrameFollows(fs[i], K)
  /\ \A i \in 1 .. Len(fs) - 1 : Asks(fs[i], fs[i + 1], W, D, K, L)
  /\ r = W[Position(fs[Len(fs)], L)] /\ Position(fs[Len(fs)], L) \notin D

Lowered(W, D, K, L) ==
  phase = "lower" /\ Regular => Follows(frames, run, W, D, K, L)

XInv ==
  /\ IInv /\ LoweringExact
  /\ \E W, D, K, L : Remembered(W, D, K, L) /\ Lowered(W, D, K, L)
  /\ \E R : RawSet(nodes, R)

-----------------------------------------------------------------------------
(* The record of the source goes on with every node that is built.         *)

(* The record of the old nodes does not change when one is added.          *)
LEMMA RecordedStays ==
  ASSUME NEW N \in Nat, NEW ns, Len(ns) = N, NEW mt, NEW W, NEW D, NEW K, NEW L,
         NEW ns2, NEW mt2, NEW W2, NEW D2, NEW K2, NEW L2,
         \A i \in 0 .. N : W2[i] = W[i] /\ (i \in D2 <=> i \in D),
         \A i \in 1 .. N : /\ ns2[i] = ns[i] /\ mt2[i] = mt[i] /\ L2[i] = L[i]
                           /\ (i \in K2 <=> i \in K),
         NEW n \in 1 .. N, NodeRecorded(ns, mt, W, D, K, L, n)
  PROVE  NodeRecorded(ns2, mt2, W2, D2, K2, L2, n)
<1> DEFINE as == ns[n].args
<1>1. /\ ns2[n] = ns[n] /\ mt2[n] = mt[n] /\ L2[n] = L[n] /\ (n \in K2 <=> n \in K)
      /\ n \in 0 .. N /\ n - 1 \in 0 .. N /\ W2[n] = W[n] /\ W2[n - 1] = W[n - 1]
      /\ (n \in D2 <=> n \in D) /\ (n - 1 \in D2 <=> n - 1 \in D)
  OBVIOUS
<1>2. /\ Laid(ns, L, n) /\ Skips(ns, mt, K, n) /\ DoesAt(ns, mt, W, D, K, n)
      /\ n \in K \/ ns[n].const => Quiet(W, D, L, n)
  BY DEF NodeRecorded
<1>3. /\ ns[n].kind \in OnOne \cup OnTwo =>
           /\ as[1] \in 1 .. N /\ L2[as[1]] = L[as[1]] /\ mt2[as[1]] = mt[as[1]]
           /\ (as[1] \in K2 <=> as[1] \in K)
      /\ ns[n].kind \in OnTwo =>
           /\ as[2] \in 1 .. N /\ L2[as[2]] = L[as[2]] /\ mt2[as[2]] = mt[as[2]]
           /\ (as[2] \in K2 <=> as[2] \in K)
  BY <1>2 DEF Laid
<1> HIDE DEF as
<1>4. Laid(ns2, L2, n)
  BY <1>1, <1>2, <1>3 DEF Laid, as
<1>5. Skips(ns2, mt2, K2, n)
  BY <1>1, <1>2, <1>3 DEF Skips, as, OnTwo
<1>6. DoesAt(ns2, mt2, W2, D2, K2, n)
  <2> DEFINE m == ns[n]
             v == mt[n]
  <2>1. Does(m, v, mt[as[1]], mt[as[2]], W, D, K, n)
    BY <1>2 DEF DoesAt, as
  <2>2. Alive(D2, K2, n) <=> Alive(D, K, n)
    BY <1>1 DEF Alive
  <2>3. /\ m.kind \in {"element", "call", "unary", "paren", "binary", "logic"} =>
             mt2[as[1]] = mt[as[1]]
        /\ m.kind \in {"binary", "logic"} => mt2[as[2]] = mt[as[2]]
    BY <1>3 DEF OnOne, OnTwo
  <2> HIDE DEF m, v
  <2>4. Does(m, v, mt2[as[1]], mt2[as[2]], W2, D2, K2, n)
    BY <1>1, <2>1, <2>2, <2>3 DEF Does
  <2> QED
    BY <1>1, <2>4 DEF DoesAt, as, m, v
<1>7. n \in K2 \/ ns2[n].const => Quiet(W2, D2, L2, n)
  <2>1. L[n] - 1 \in 0 .. N
    BY <1>2 DEF Laid
  <2> QED
    BY <1>1, <1>2, <2>1 DEF Quiet
<1> QED
  BY <1>4, <1>5, <1>6, <1>7 DEF NodeRecorded

(* A node more.                                                            *)
LEMMA RecordedGrows ==
  ASSUME NEW N \in Nat, NEW ns, Len(ns) = N, NEW mt, NEW W, NEW D, NEW K, NEW L,
         Recorded(ns, mt, W, D, K, L),
         NEW ns2, NEW mt2, NEW W2, NEW D2, NEW K2, NEW L2, Len(ns2) = N + 1,
         \A i \in 0 .. N : W2[i] = W[i] /\ (i \in D2 <=> i \in D),
         \A i \in 1 .. N : /\ ns2[i] = ns[i] /\ mt2[i] = mt[i] /\ L2[i] = L[i]
                           /\ (i \in K2 <=> i \in K),
         W2 \in [0 .. N + 1 -> Program],
         NodeRecorded(ns2, mt2, W2, D2, K2, L2, N + 1),
         N \in D2 => N + 1 \in D2 /\ W2[N + 1] = W2[N],
         PureNode(ns2[N + 1]) => W2[N + 1] = W2[N] /\ (N + 1 \in D2 <=> N \in D2)
  PROVE  Recorded(ns2, mt2, W2, D2, K2, L2)
<1>1. \A n \in 1 .. N + 1 : NodeRecorded(ns2, mt2, W2, D2, K2, L2, n)
  <2> SUFFICES ASSUME NEW n \in 1 .. N + 1
               PROVE  NodeRecorded(ns2, mt2, W2, D2, K2, L2, n)
    OBVIOUS
  <2>1. CASE n \in 1 .. N
    <3>1. NodeRecorded(ns, mt, W, D, K, L, n)
      BY <2>1 DEF Recorded
    <3> QED
      BY <2>1, <3>1, RecordedStays
  <2>2. CASE n = N + 1
    BY <2>2
  <2> QED
    BY <2>1, <2>2
<1>2. ASSUME NEW i \in 0 .. N + 1, NEW j \in 0 .. N + 1, i <= j, i \in D2
      PROVE  j \in D2 /\ W2[j] = W2[i]
  <2>1. CASE j \in 0 .. N
    <3>1. i \in 0 .. N /\ i \in D
      BY <1>2, <2>1
    <3>2. j \in D /\ W[j] = W[i]
      BY <1>2, <2>1, <3>1 DEF Recorded
    <3> QED
      BY <2>1, <3>1, <3>2
  <2>2. CASE j = N + 1 /\ i = N + 1
    BY <1>2, <2>2
  <2>3. CASE j = N + 1 /\ i \in 0 .. N
    <3>1. N \in 0 .. N /\ i <= N /\ i \in D
      BY <1>2, <2>3
    <3>2. N \in D /\ W[N] = W[i]
      BY <2>3, <3>1 DEF Recorded
    <3>3. N \in D2 /\ W2[N] = W2[i]
      BY <2>3, <3>1, <3>2
    <3> QED
      BY <2>3, <3>3
  <2> QED
    BY <2>1, <2>2, <2>3
<1>3. ASSUME IsPure(ns2)
      PROVE  \A i \in 0 .. N + 1 : W2[i] = W2[0] /\ i \notin D2
  <2>1. PureNode(ns2[N + 1])
    BY <1>3 DEF IsPure
  <2>2. IsPure(ns)
    BY <1>3 DEF IsPure
  <2>3. \A i \in 0 .. N : W[i] = W[0] /\ i \notin D
    BY <2>2 DEF Recorded
  <2>4. \A i \in 0 .. N : W2[i] = W2[0] /\ i \notin D2
    BY <2>3
  <2>5. W2[N + 1] = W2[0] /\ N + 1 \notin D2
    BY <2>1, <2>4
  <2> QED
    BY <2>4, <2>5
<1> QED
  BY <1>1, <1>2, <1>3 DEF Recorded

(* What is skipped above an entry of the stack.                            *)
LEMMA SkipStep ==
  ASSUME NEW i \in Nat, i > 0
  PROVE  Skipping(i) <=> Skipping(i - 1) \/ Decides(stack[i].logic, meant[stack[i].node])
<1>1. 1 .. i = (1 .. i - 1) \cup {i}
  OBVIOUS
<1> QED
  BY <1>1 DEF Skipping

LEMMA SkipNothing == ~Skipping(0)
BY DEF Skipping

(* What a reduction does to the source, with the operands' values a and b. *)
DoesNow(m, v, a, b, alive) ==
  /\ m.kind # "call" \/ ~alive => source' = source
  /\ m.kind \notin {"element", "binary"} \/ ~alive => (srcTrap' <=> srcTrap)
  /\ alive /\ ~srcTrap' => v # Absent
  /\ alive =>
       /\ m.kind = "var" => v = source.mem[m.op]
       /\ m.kind = "element" =>
            (srcTrap' <=> ~InTable(a)) /\ (InTable(a) => v = Table[a + 1])
       /\ m.kind = "call" => v = a /\ source' = Called(source, m.op, a)
       /\ m.kind \in {"unary", "paren"} => v = UnaryMeaning(m.op, a)
       /\ m.kind = "binary" =>
            (srcTrap' <=> Undefined(m.op, a, b))
              /\ (~Undefined(m.op, a, b) => v = Int32(m.op, a, b))
       /\ m.kind = "logic" => v = LogicMeaning(m.op, a, b)

(* The operands of the node: the topmost k.                                *)
OnTop(k, m) ==
  \/ k = 0 /\ m.kind \in Leaves /\ m.args = <<>>
  \/ k = 1 /\ m.kind \in OnOne /\ m.args = <<Top>> /\ IsOperand(Len(stack))
  \/ /\ k = 2 /\ m.kind \in OnTwo /\ m.args = <<Second, Top>>
     /\ IsOperand(Len(stack)) /\ Len(stack) > 1
     /\ IF m.kind = "binary" THEN IsOperand(Len(stack) - 1)
        ELSE stack[Len(stack) - 1].logic = m.op

(* The record of a reduction.                                              *)
Extends(W, D, K, L, W2, D2, K2, L2, k) ==
  /\ \A i \in 0 .. Len(nodes) : W2[i] = W[i] /\ (i \in D2 <=> i \in D)
  /\ \A i \in 1 .. Len(nodes) : L2[i] = L[i] /\ (i \in K2 <=> i \in K)
  /\ W2 \in [0 .. New -> Program] /\ W2[New] = source' /\ (New \in D2 <=> srcTrap')
  /\ New \in K2 <=> Skipping(Len(stack) - k)
  /\ L2[New] = IF k = 0 THEN New ELSE L[stack[Len(stack) - k + 1].node]

LEMMA ExtensionExists ==
  ASSUME TypeOK, source' \in Program, NEW W \in [0 .. Len(nodes) -> Program],
         NEW D, NEW K, NEW L, NEW k
  PROVE  \E W2, D2, K2, L2 : Extends(W, D, K, L, W2, D2, K2, L2, k)
<1> DEFINE W2 == [i \in 0 .. New |-> IF i = New THEN source' ELSE W[i]]
           D2 == {i \in 0 .. New : IF i = New THEN srcTrap' ELSE i \in D}
           K2 == {i \in 0 .. New : IF i = New THEN Skipping(Len(stack) - k) ELSE i \in K}
           L2 == [i \in 0 .. New |->
                    IF i = New
                    THEN IF k = 0 THEN New ELSE L[stack[Len(stack) - k + 1].node]
                    ELSE L[i]]
<1>1. Len(nodes) \in Nat /\ New = Len(nodes) + 1
  BY DEF TypeOK, New
<1>2. Extends(W, D, K, L, W2, D2, K2, L2, k)
  <2> HIDE DEF New
  <2>1. New \in 0 .. New /\ \A i \in 0 .. Len(nodes) : i \in 0 .. New /\ i # New
    BY <1>1
  <2>2. W2 \in [0 .. New -> Program]
    BY <1>1
  <2> QED
    BY <1>1, <2>1, <2>2 DEF Extends
<1> QED
  BY <1>2

ReduceOK(k, m, v) ==
  /\ m \in NodeSet /\ m.args \in Seq(DOMAIN nodes) /\ OpFits(m) /\ WellFormed(m)
  /\ v \in Word \cup {Absent} /\ Reduce(k, m, v)
  /\ OnTop(k, m)
  /\ DoesNow(m, v, meant[m.args[1]], meant[m.args[2]], Reached(Len(stack) - k))
  /\ m.const => (srcTrap' <=> srcTrap) /\ \A i \in DOMAIN m.args : IsConst(m.args[i])

(* The operands of a reduction, as the record has them.                    *)
LEMMA TopsRecorded ==
  ASSUME IInv, NEW W, NEW D, NEW K, NEW L, StackRecorded(W, D, K, L),
         NEW k, NEW m, OnTop(k, m)
  PROVE  /\ Len(stack) - k \in Nat /\ k \in 0 .. 2 /\ k \in 0 .. Len(stack)
         /\ k # 0 => stack # <<>> /\ Top = Len(nodes) /\ Top \in 1 .. Len(nodes)
         /\ k = 1 => /\ stack[Len(stack) - k + 1].node = Top
                     /\ Top \in K <=> Skipping(Len(stack) - k)
         /\ k = 2 => /\ stack[Len(stack) - k + 1].node = Second /\ Second \in 1 .. Len(nodes)
                     /\ L[Top] = Second + 1
                     /\ Second \in K <=> Skipping(Len(stack) - k)
                     /\ m.kind = "binary" => (Top \in K <=> Skipping(Len(stack) - k))
                     /\ m.kind = "logic" =>
                          (Top \in K <=> \/ Skipping(Len(stack) - k)
                                         \/ Decides(m.op, meant[Second]))
<1>1. TypeOK /\ Len(nodes) \in Nat /\ DOMAIN nodes = 1 .. Len(nodes)
  BY DEF IInv, TypeOK
<1>2. Len(stack) \in Nat /\ DOMAIN stack = 1 .. Len(stack)
      /\ \A i \in DOMAIN stack : stack[i].node \in 1 .. Len(nodes)
  BY <1>1, StackEntries
<1>3. CASE k = 0
  BY <1>2, <1>3
<1>4. k # 0 => Len(stack) \in DOMAIN stack
  BY DEF OnTop, IsOperand
<1>5. k # 0 => stack # <<>> /\ Top = Len(nodes) /\ Top \in 1 .. Len(nodes)
  BY <1>2, <1>4 DEF StackRecorded, Top
<1>6. CASE k = 1
  <2>1. Len(stack) - k + 1 = Len(stack) /\ Len(stack) - k = Len(stack) - 1
        /\ Len(stack) - k \in Nat
    BY <1>2, <1>4, <1>6
  <2>2. stack[Len(stack)].node \in K <=> Skipping(Len(stack) - 1)
    BY <1>2, <1>4, <1>6 DEF StackRecorded
  <2> QED
    BY <1>2, <1>5, <1>6, <2>1, <2>2 DEF Top
<1>7. CASE k = 2
  <2> DEFINE s == Len(stack) - 1
  <2>1. Len(stack) > 1 /\ s \in Nat /\ s > 0 /\ s \in DOMAIN stack /\ s + 1 = Len(stack)
        /\ s \in 1 .. Len(stack) - 1 /\ s \in 1 .. Len(stack)
        /\ Len(stack) - k = s - 1 /\ Len(stack) - k + 1 = s /\ s - 1 \in Nat
    BY <1>2, <1>7 DEF OnTop
  <2>2. L[Top] = Second + 1
    BY <2>1 DEF StackRecorded, Top, Second
  <2>3. (Second \in K <=> Skipping(s - 1)) /\ (Top \in K <=> Skipping(s))
    <3>1. stack[s].node \in K <=> Skipping(s - 1)
      BY <2>1 DEF StackRecorded
    <3>2. stack[s + 1].node \in K <=> Skipping(s + 1 - 1)
      BY <1>2, <2>1 DEF StackRecorded
    <3>3. s + 1 - 1 = s
      BY <2>1
    <3> QED
      BY <2>1, <3>1, <3>2, <3>3 DEF Top, Second
  <2>4. Skipping(s) <=> Skipping(s - 1) \/ Decides(stack[s].logic, meant[Second])
    BY <2>1, SkipStep DEF Second
  <2>5. m.kind = "binary" => stack[s].logic = "none"
    BY <1>7 DEF OnTop, IsOperand
  <2>6. m.kind = "logic" => stack[s].logic = m.op
    BY <1>7 DEF OnTop
  <2>7. Second \in 1 .. Len(nodes) /\ stack[s].node = Second
    BY <1>2, <2>1 DEF Second
  <2> HIDE DEF s
  <2>8. m.kind = "binary" => (Top \in K <=> Skipping(s - 1))
    BY <2>3, <2>4, <2>5, NoneDecidesNothing
  <2> QED
    BY <1>2, <1>5, <1>7, <2>1, <2>2, <2>3, <2>4, <2>6, <2>7, <2>8
<1> QED
  BY <1>3, <1>6, <1>7 DEF OnTop

(* The node built is laid out, skipped and done as the record says.        *)
LEMMA NewRecorded ==
  ASSUME IInv, NEW W, NEW D, NEW K, NEW L, StackRecorded(W, D, K, L),
         Recorded(nodes, meant, W, D, K, L),
         srcTrap <=> Len(nodes) \in D, source = W[Len(nodes)],
         NEW k, NEW m, NEW v, ReduceOK(k, m, v),
         NEW W2, NEW D2, NEW K2, NEW L2, Extends(W, D, K, L, W2, D2, K2, L2, k)
  PROVE  NodeRecorded(nodes', meant', W2, D2, K2, L2, New)
<1> DEFINE N == Len(nodes)
           h == Len(stack) - k
<1>1. /\ TypeOK /\ N \in Nat /\ DOMAIN nodes = 1 .. N /\ New = N + 1 /\ New \in 1 .. New
      /\ New - 1 = N
  BY DEF IInv, TypeOK, New
<1>2. /\ h \in Nat /\ k \in 0 .. 2 /\ k \in 0 .. Len(stack)
      /\ k # 0 => stack # <<>> /\ Top = N /\ Top \in 1 .. N
      /\ k = 1 => /\ stack[h + 1].node = Top /\ (Top \in K <=> Skipping(h))
      /\ k = 2 => /\ stack[h + 1].node = Second /\ Second \in 1 .. N
                  /\ L[Top] = Second + 1 /\ (Second \in K <=> Skipping(h))
                  /\ m.kind = "binary" => (Top \in K <=> Skipping(h))
                  /\ m.kind = "logic" =>
                       (Top \in K <=> Skipping(h) \/ Decides(m.op, meant[Second]))
  BY TopsRecorded DEF ReduceOK
<1>3. /\ nodes'[New] = m /\ Len(nodes') = New
      /\ \A n \in 1 .. N : nodes'[n] = nodes[n] /\ meant'[n] = meant[n]
      /\ meant'[New] = IF Reached(h) THEN v ELSE Absent
  BY <1>1, <1>2, ReduceEffect DEF ReduceOK
<1>4. /\ \A i \in 0 .. N : W2[i] = W[i] /\ (i \in D2 <=> i \in D)
      /\ \A i \in 1 .. N : L2[i] = L[i] /\ (i \in K2 <=> i \in K)
      /\ W2[New] = source' /\ (New \in D2 <=> srcTrap')
      /\ New \in K2 <=> Skipping(h)
      /\ L2[New] = IF k = 0 THEN New ELSE L[stack[h + 1].node]
      /\ N \in 0 .. N
  BY <1>1 DEF Extends
<1>5. Alive(D2, K2, New) <=> Reached(h)
  BY <1>1, <1>4 DEF Alive, Reached
<1>6. \/ k = 0 /\ m.kind \in Leaves /\ m.args = <<>>
      \/ k = 1 /\ m.kind \in OnOne /\ m.args = <<Top>>
      \/ k = 2 /\ m.kind \in OnTwo /\ m.args = <<Second, Top>>
  BY DEF ReduceOK, OnTop
<1> HIDE DEF N, h
<1>7. \A n \in 1 .. N : L[n] \in 1 .. n /\ (n \in K \/ IsConst(n) => Quiet(W, D, L, n))
  BY DEF Recorded, NodeRecorded, Laid, IsConst, N
<1>8. Laid(nodes', L2, New)
  <2>1. OpFits(m)
    BY DEF ReduceOK
  <2>2. CASE k = 0
    BY <1>1, <1>2, <1>3, <1>4, <1>6, <2>1, <2>2 DEF Laid, Leaves, OnOne, OnTwo
  <2>3. CASE k = 1
    <3>1. m.args = <<Top>>
      BY <1>6, <2>3
    <3>2. \A s, x : s = <<x>> => Len(s) = 1 /\ s[1] = x
      OBVIOUS
    <3>3. Len(m.args) = 1 /\ m.args[1] = Top
      BY Zenon, <3>1, <3>2
    <3>4. L2[New] = L[Top] /\ L2[Top] = L[Top] /\ L[Top] \in 1 .. New
      BY <1>1, <1>2, <1>4, <1>7, <2>3
    <3> QED
      BY <1>1, <1>2, <1>3, <1>6, <2>1, <2>3, <3>3, <3>4 DEF Laid, Leaves, OnOne, OnTwo
  <2>4. CASE k = 2
    <3>1. m.args = <<Second, Top>>
      BY <1>6, <2>4
    <3>2. \A s, x, y : s = <<x, y>> => Len(s) = 2 /\ s[1] = x /\ s[2] = y
      OBVIOUS
    <3>3. Len(m.args) = 2 /\ m.args[1] = Second /\ m.args[2] = Top
      BY Zenon, <3>1, <3>2
    <3>4. /\ L2[New] = L[Second] /\ L2[Top] = Second + 1 /\ L2[Second] = L[Second]
          /\ L[Second] \in 1 .. New
      BY <1>1, <1>2, <1>4, <1>7, <2>4
    <3> QED
      BY <1>1, <1>2, <1>3, <1>6, <2>1, <2>4, <3>3, <3>4 DEF Laid, Leaves, OnOne, OnTwo
  <2> QED
    BY <1>6, <2>2, <2>3, <2>4
<1>9. Skips(nodes', meant', K2, New)
  <2>1. CASE k = 0
    BY <1>3, <1>6, <2>1 DEF Skips, Leaves, OnOne, OnTwo
  <2>2. CASE k = 1
    <3>1. m.args[1] = Top /\ m.kind \in OnOne
      BY <1>6, <2>2
    <3>2. Top \in K2 <=> New \in K2
      BY <1>2, <1>4, <2>2
    <3> QED
      BY <1>3, <3>1, <3>2 DEF Skips, OnOne, OnTwo
  <2>3. CASE k = 2
    <3>1. m.args[1] = Second /\ m.args[2] = Top /\ m.kind \in OnTwo
      BY <1>6, <2>3
    <3>2. (Second \in K2 <=> New \in K2) /\ (Top \in K2 <=> Top \in K)
          /\ meant'[Second] = meant[Second]
      BY <1>2, <1>3, <1>4, <2>3
    <3> QED
      BY <1>2, <1>3, <1>4, <2>3, <3>1, <3>2 DEF Skips
  <2> QED
    BY <1>6, <2>1, <2>2, <2>3
<1>10. DoesAt(nodes', meant', W2, D2, K2, New)
  <2> DEFINE a == meant[m.args[1]]
             b == meant[m.args[2]]
             a2 == meant'[m.args[1]]
             b2 == meant'[m.args[2]]
  <2>1. m.kind \in OnOne \cup OnTwo => a2 = a
    BY <1>2, <1>3, <1>6 DEF Leaves, OnOne, OnTwo
  <2>2. m.kind \in OnTwo => b2 = b
    BY <1>2, <1>3, <1>6 DEF Leaves, OnOne, OnTwo
  <2>3. DoesNow(m, v, a, b, Reached(h))
    BY DEF ReduceOK, h
  <2>4. Reached(h) => ~srcTrap
    BY DEF Reached
  <2>5. New \notin K2 /\ New \notin D2 => Reached(h)
    BY <1>4, <2>3 DEF Reached, DoesNow
  <2>6. /\ m.kind \in {"element", "call", "unary", "paren", "binary", "logic"} => a2 = a
        /\ m.kind \in {"binary", "logic"} => b2 = b
    BY <2>1, <2>2 DEF OnOne, OnTwo
  <2>7. W2[New - 1] = source /\ (New - 1 \in D2 <=> srcTrap)
    BY <1>1, <1>4 DEF N
  <2> HIDE DEF a, b, a2, b2
  <2>8. Does(m, meant'[New], a2, b2, W2, D2, K2, New)
    <3>1. /\ m.kind # "call" \/ ~Alive(D2, K2, New) => W2[New] = W2[New - 1]
          /\ m.kind \notin {"element", "binary"} \/ ~Alive(D2, K2, New) =>
               (New \in D2 <=> New - 1 \in D2)
          /\ New \notin K2 /\ New \notin D2 => meant'[New] # Absent
      BY <1>3, <1>4, <1>5, <2>3, <2>5, <2>7 DEF DoesNow
    <3>2. ASSUME Alive(D2, K2, New)
          PROVE  /\ Reached(h) /\ meant'[New] = v /\ W2[New] = source'
                 /\ (New \in D2 <=> srcTrap') /\ W2[New - 1] = source
      BY <1>3, <1>4, <1>5, <2>7, <3>2
    <3> QED
      BY <2>3, <2>6, <3>1, <3>2 DEF Does, DoesNow
  <2> QED
    BY <1>3, <2>8 DEF DoesAt, a2, b2
<1>11. ASSUME New \in K2 \/ m.const
       PROVE  Quiet(W2, D2, L2, New)
  <2>1. source' = source /\ (srcTrap' <=> srcTrap)
    <3>1. DoesNow(m, v, meant[m.args[1]], meant[m.args[2]], Reached(h))
      BY DEF ReduceOK, h
    <3>2. m.const => m.kind # "call"
      BY DEF ReduceOK, WellFormed
    <3>3. New \in K2 => ~Reached(h)
      BY <1>4 DEF Reached
    <3>4. m.const => (srcTrap' <=> srcTrap)
      BY DEF ReduceOK
    <3> QED
      BY <1>11, <3>1, <3>2, <3>3, <3>4 DEF DoesNow
  <2>2. W2[New] = W[N] /\ (New \in D2 <=> N \in D)
    BY <1>4, <2>1 DEF N
  <2>3. CASE k = 0
    BY <1>1, <1>4, <2>2, <2>3 DEF Quiet
  <2>4. k # 0 => Quiet(W, D, L, Top)
    <3>1. m.const /\ k # 0 => IsConst(Top)
      BY <1>6 DEF ReduceOK
    <3>2. New \in K2 /\ k # 0 => Top \in K
      BY <1>2, <1>4, <1>6 DEF OnTwo
    <3> QED
      BY <1>2, <1>7, <1>11, <3>1, <3>2
  <2>5. CASE k = 1
    <3>1. L2[New] = L[Top] /\ L[Top] - 1 \in 0 .. N /\ Top = N
      BY <1>1, <1>2, <1>4, <1>7, <2>5
    <3> QED
      BY <1>4, <2>2, <2>4, <2>5, <3>1 DEF Quiet
  <2>6. CASE k = 2
    <3>1. Quiet(W, D, L, Second)
      <4>1. m.const => IsConst(Second)
        BY <1>6, <2>6 DEF ReduceOK
      <4> QED
        BY <1>2, <1>4, <1>7, <1>11, <2>6, <4>1
    <3>2. /\ L2[New] = L[Second] /\ L[Second] - 1 \in 0 .. N /\ Top = N
          /\ L[Top] - 1 = Second
      <4>1. L2[New] = L[Second] /\ Top = N /\ L[Top] = Second + 1
        BY <1>2, <1>4, <2>6
      <4>2. Second \in 1 .. N /\ L[Second] \in 1 .. Second
        BY <1>2, <1>7, <2>6
      <4> QED
        BY <1>1, <4>1, <4>2
    <3> QED
      BY <1>4, <2>2, <2>4, <2>6, <3>1, <3>2 DEF Quiet
  <2> QED
    BY <1>6, <2>3, <2>5, <2>6
<1> QED
  BY <1>3, <1>8, <1>9, <1>10, <1>11 DEF NodeRecorded

(* The stack after a reduction.                                            *)
LEMMA NewStackRecorded ==
  ASSUME IInv, NEW W, NEW D, NEW K, NEW L, StackRecorded(W, D, K, L),
         \A n \in 1 .. Len(nodes) : L[n] \in 1 .. n,
         NEW k, NEW m, NEW v, ReduceOK(k, m, v), srcTrap => srcTrap',
         NEW W2, NEW D2, NEW K2, NEW L2, Extends(W, D, K, L, W2, D2, K2, L2, k)
  PROVE  StackRecorded(W2, D2, K2, L2)'
<1> DEFINE N == Len(nodes)
           h == Len(stack) - k
<1>1. /\ TypeOK /\ N \in Nat /\ DOMAIN nodes = 1 .. N /\ New = N + 1
  BY DEF IInv, TypeOK, New
<1>2. /\ h \in Nat /\ k \in 0 .. 2 /\ k \in 0 .. Len(stack)
      /\ k # 0 => stack # <<>> /\ Top = N
  BY TopsRecorded DEF ReduceOK
<1>3. /\ Len(nodes') = New
      /\ \A n \in 1 .. N : meant'[n] = meant[n]
      /\ Len(stack') = h + 1 /\ (\A i \in 1 .. h : stack'[i] = stack[i])
      /\ stack'[h + 1].node = New
  <2>1. /\ Len(nodes') = New /\ (\A n \in DOMAIN nodes : meant'[n] = meant[n])
        /\ Len(stack') = Len(stack) - k + 1
        /\ \A i \in 1 .. Len(stack) - k : stack'[i] = stack[i]
        /\ stack'[Len(stack')] = Operand(New)
    BY <1>1, <1>2, ReduceEffect DEF ReduceOK
  <2>2. Operand(New).node = New
    BY DEF Operand
  <2> QED
    BY <1>1, <2>1, <2>2
<1>4. Len(stack) \in Nat /\ DOMAIN stack = 1 .. Len(stack)
      /\ \A i \in 1 .. Len(stack) : stack[i].node \in 1 .. N
  BY <1>1, StackEntries
<1>5. /\ \A i \in 0 .. N : W2[i] = W[i] /\ (i \in D2 <=> i \in D)
      /\ \A i \in 1 .. N : L2[i] = L[i] /\ (i \in K2 <=> i \in K)
      /\ New \in K2 <=> Skipping(h)
      /\ L2[New] = IF k = 0 THEN New ELSE L[stack[h + 1].node]
  BY DEF Extends
<1>6. /\ stack # <<>> => Top = N
      /\ \A i \in 1 .. Len(stack) - 1 : L[stack[i + 1].node] = stack[i].node + 1
      /\ \A i \in 1 .. Len(stack) : stack[i].node \in K <=> Skipping(i - 1)
      /\ W[StackFirst(L)] = Start0 /\ StackFirst(L) \notin D
  BY DEF StackRecorded
<1>7. stack # <<>> <=> Len(stack) # 0
  BY <1>1 DEF TypeOK
<1>8. \A j \in 0 .. h : Skipping(j)' <=> Skipping(j)
  <2> SUFFICES ASSUME NEW j \in 0 .. h PROVE Skipping(j)' <=> Skipping(j)
    OBVIOUS
  <2>1. \A i \in 1 .. j : /\ stack'[i] = stack[i]
                          /\ meant'[stack[i].node] = meant[stack[i].node]
    <3> SUFFICES ASSUME NEW i \in 1 .. j
                 PROVE  /\ stack'[i] = stack[i]
                        /\ meant'[stack[i].node] = meant[stack[i].node]
      OBVIOUS
    <3>1. i \in 1 .. h /\ i \in 1 .. Len(stack)
      BY <1>2, <1>4
    <3> QED
      BY <1>3, <1>4, <3>1
  <2>2. j \in Nat /\ j <= Len(stack) /\ j <= Len(stack') /\ Len(stack') \in Nat
    BY <1>2, <1>3, <1>4
  <2> QED
    BY <1>4, <2>1, <2>2, ReachedStays
<1> HIDE DEF h, N
<1>9. Top' = Len(nodes')
  BY <1>3 DEF Top
<1>10. ASSUME NEW i \in 1 .. Len(stack') - 1
       PROVE  L2[stack'[i + 1].node] = stack'[i].node + 1
  <2>a. /\ Len(stack) \in Nat /\ h \in Nat /\ h <= Len(stack)
        /\ Len(stack') - 1 = h
    BY <1>2, <1>3, <1>4 DEF h
  <2>b. i \in 1 .. h
    BY Zenon, <2>a
  <2>c. i \in 1 .. Len(stack)
    BY <2>a, <2>b
  <2>1. i \in 1 .. h /\ stack'[i] = stack[i] /\ i \in 1 .. Len(stack)
    BY Zenon, <1>3, <2>b, <2>c
  <2>2. CASE i # h
    <3>1. i + 1 \in 1 .. h /\ i \in 1 .. Len(stack) - 1 /\ i + 1 \in 1 .. Len(stack)
      BY <2>a, <2>b, <2>2
    <3>2. stack'[i + 1] = stack[i + 1] /\ stack[i + 1].node \in 1 .. N
      BY Zenon, <1>3, <1>4, <3>1
    <3>3. L2[stack[i + 1].node] = L[stack[i + 1].node]
      BY Zenon, <1>5, <3>2
    <3>4. L[stack[i + 1].node] = stack[i].node + 1
      BY Zenon, <1>6, <3>1
    <3> QED
      BY Zenon, <2>1, <3>2, <3>3, <3>4
  <2>3. CASE i = h /\ k = 0
    <3>1. stack'[i + 1].node = New /\ L2[New] = New
      BY <1>3, <1>5, <2>3
    <3>2. stack[i].node = N
      BY <1>2, <1>4, <1>6, <1>7, <2>1, <2>3 DEF h, Top
    <3> QED
      BY <1>1, <2>1, <3>1, <3>2
  <2>4. CASE i = h /\ k # 0
    <3>1. i \in 1 .. Len(stack) - 1
      BY <1>2, <1>4, <2>1, <2>4 DEF h
    <3>2. L2[stack'[i + 1].node] = L[stack[i + 1].node]
      BY <1>3, <1>5, <2>4
    <3> QED
      BY <1>6, <2>1, <3>1, <3>2
  <2> QED
    BY <2>2, <2>3, <2>4
<1>11. ASSUME NEW i \in 1 .. Len(stack')
       PROVE  stack'[i].node \in K2 <=> Skipping(i - 1)'
  <2>1. CASE i \in 1 .. h
    <3>1. i \in 1 .. Len(stack) /\ i - 1 \in 0 .. h
      BY <1>2, <1>4, <2>1 DEF h
    <3>2. stack'[i].node = stack[i].node /\ stack[i].node \in 1 .. N
      BY <1>3, <1>4, <2>1, <3>1
    <3> QED
      BY <1>5, <1>6, <1>8, <3>1, <3>2
  <2>2. CASE i = h + 1
    <3>1. i - 1 = h /\ h \in 0 .. h
      BY <1>2, <2>2
    <3> QED
      BY <1>3, <1>5, <1>8, <2>2, <3>1
  <2> QED
    BY <1>2, <1>3, <2>1, <2>2
<1>12. StackFirst(L2)' = StackFirst(L) /\ StackFirst(L) \in 0 .. N
  <2>1. stack' # <<>>
    <3>1. stack' = <<>> => Len(stack') = 0
      OBVIOUS
    <3> QED
      BY <1>2, <1>3, <3>1
  <2>2. StackFirst(L2)' = L2[stack'[1].node] - 1
    BY <2>1 DEF StackFirst
  <2>3. CASE h # 0
    <3>1. 1 \in 1 .. h /\ 1 \in 1 .. Len(stack) /\ stack # <<>>
      <4>1. h \in Nat /\ h # 0
        BY <1>2, <2>3
      <4>2. Len(stack) \in Nat /\ k \in 0 .. Len(stack)
        BY <1>2, <1>4
      <4>3. h \in 1 .. Len(stack)
        BY <4>1, <4>2 DEF h
      <4> QED
        BY <1>7, <4>1, <4>2, <4>3
    <3>2. stack'[1].node = stack[1].node /\ stack[1].node \in 1 .. N
      BY <1>3, <1>4, <3>1
    <3>3. L2[stack[1].node] = L[stack[1].node] /\ L[stack[1].node] \in 1 .. N
      BY <1>1, <1>5, <3>2 DEF N
    <3>4. StackFirst(L) = L[stack[1].node] - 1
      BY <3>1 DEF StackFirst
    <3> QED
      BY <1>1, <2>2, <3>2, <3>3, <3>4
  <2>4. CASE h = 0 /\ k = 0
    <3>1. stack = <<>> /\ StackFirst(L) = N
      BY <1>4, <1>7, <2>4 DEF StackFirst, h, N
    <3>2. stack'[1].node = New /\ L2[New] = New
      BY <1>3, <1>5, <2>4
    <3> QED
      BY <1>1, <2>2, <3>1, <3>2
  <2>5. CASE h = 0 /\ k # 0
    <3>1. stack # <<>> /\ StackFirst(L) = L[stack[1].node] - 1 /\ stack[1].node \in 1 .. N
      BY <1>2, <1>4, <1>7, <2>5 DEF StackFirst
    <3>2. stack'[1].node = New /\ L2[New] = L[stack[1].node]
      BY <1>3, <1>5, <2>5
    <3>3. L[stack[1].node] \in 1 .. N
      BY <1>1, <3>1 DEF N
    <3> QED
      BY <1>1, <2>2, <3>1, <3>2, <3>3
  <2> QED
    BY <2>3, <2>4, <2>5
<1>13. W2[StackFirst(L2)'] = Start0 /\ StackFirst(L2)' \notin D2
  BY <1>5, <1>6, <1>12
<1> QED
  BY <1>9, <1>10, <1>11, <1>13 DEF StackRecorded, Start0

(* A node is built, and the record with it.                                *)
LEMMA NodeRemembered ==
  ASSUME IInv, Parsing, NEW W, NEW D, NEW K, NEW L, Remembered(W, D, K, L),
         NEW k, NEW m, NEW v, ReduceOK(k, m, v), source' \in Program,
         UNCHANGED <<consts, low, phase>>
  PROVE  \E W2, D2, K2, L2 : (Remembered(W2, D2, K2, L2) /\ Lowered(W2, D2, K2, L2))'
<1>1. /\ TypeOK /\ Len(nodes) \in Nat /\ DOMAIN nodes = 1 .. Len(nodes)
      /\ New = Len(nodes) + 1
  BY DEF IInv, TypeOK, New
<1>2. /\ Recorded(nodes, meant, W, D, K, L) /\ StackRecorded(W, D, K, L)
      /\ (srcTrap <=> Len(nodes) \in D) /\ source = W[Len(nodes)] /\ run = Start0
      /\ phase = "parse" /\ phase' = phase /\ run' = run
  BY DEF Remembered, Parsing, low
<1>3. W \in [0 .. Len(nodes) -> Program] /\ \A n \in 1 .. Len(nodes) : L[n] \in 1 .. n
  BY <1>2 DEF Recorded, NodeRecorded, Laid
<1>4. PICK W2, D2, K2, L2 : Extends(W, D, K, L, W2, D2, K2, L2, k)
  BY <1>1, <1>3, ExtensionExists
<1>5. NodeRecorded(nodes', meant', W2, D2, K2, L2, New)
  BY <1>2, <1>4, NewRecorded
<1>6. /\ DoesNow(m, v, meant[m.args[1]], meant[m.args[2]], Reached(Len(stack) - k))
      /\ Len(stack) - k \in Nat /\ k \in 0 .. Len(stack)
  BY <1>2, TopsRecorded DEF ReduceOK
<1>7. srcTrap => srcTrap' /\ source' = source
  BY <1>6 DEF DoesNow, Reached
<1>8. /\ nodes'[New] = m /\ Len(nodes') = New
      /\ \A n \in 1 .. Len(nodes) : nodes'[n] = nodes[n] /\ meant'[n] = meant[n]
  BY <1>1, <1>6, ReduceEffect DEF ReduceOK
<1>9. /\ \A i \in 0 .. Len(nodes) : W2[i] = W[i] /\ (i \in D2 <=> i \in D)
      /\ \A i \in 1 .. Len(nodes) : L2[i] = L[i] /\ (i \in K2 <=> i \in K)
      /\ W2 \in [0 .. New -> Program] /\ W2[New] = source' /\ (New \in D2 <=> srcTrap')
      /\ Len(nodes) \in 0 .. Len(nodes)
  BY <1>1, <1>4 DEF Extends
<1>10. PureNode(m) => source' = source /\ (srcTrap' <=> srcTrap)
  <2> SUFFICES ASSUME PureNode(m) PROVE source' = source /\ (srcTrap' <=> srcTrap)
    OBVIOUS
  <2>1. m.kind # "call" /\ m.kind # "element" /\ \A a, b : ~Undefined(m.op, a, b)
    BY DEF PureNode, Undefined
  <2>2. CASE ~Reached(Len(stack) - k)
    BY <1>6, <2>1, <2>2 DEF DoesNow
  <2>3. CASE Reached(Len(stack) - k)
    BY <1>6, <2>1, <2>3 DEF DoesNow, Reached
  <2> QED
    BY <2>2, <2>3
<1>11. Recorded(nodes', meant', W2, D2, K2, L2)
  <2>1. Len(nodes) \in D2 => New \in D2 /\ W2[New] = W2[Len(nodes)]
    BY <1>2, <1>7, <1>9
  <2>2. PureNode(nodes'[New]) =>
          W2[New] = W2[Len(nodes)] /\ (New \in D2 <=> Len(nodes) \in D2)
    BY <1>2, <1>8, <1>9, <1>10
  <2> DEFINE N == Len(nodes)
  <2>3. N \in Nat /\ Len(nodes) = N /\ New = N + 1
    BY <1>1
  <2> QED
    <3>1. /\ \A i \in 0 .. N : W2[i] = W[i] /\ (i \in D2 <=> i \in D)
          /\ \A i \in 1 .. N : /\ nodes'[i] = nodes[i] /\ meant'[i] = meant[i]
                              /\ L2[i] = L[i] /\ (i \in K2 <=> i \in K)
          /\ Len(nodes') = N + 1 /\ W2 \in [0 .. N + 1 -> Program]
          /\ NodeRecorded(nodes', meant', W2, D2, K2, L2, N + 1)
          /\ N \in D2 => N + 1 \in D2 /\ W2[N + 1] = W2[N]
          /\ PureNode(nodes'[N + 1]) => W2[N + 1] = W2[N] /\ (N + 1 \in D2 <=> N \in D2)
      BY <1>5, <1>8, <1>9, <2>1, <2>2, <2>3
    <3> HIDE DEF N
    <3> QED
      BY <1>2, <2>3, <3>1, RecordedGrows
<1>12. StackRecorded(W2, D2, K2, L2)'
  BY <1>2, <1>3, <1>4, <1>7, NewStackRecorded
<1>13. Remembered(W2, D2, K2, L2)'
  BY <1>2, <1>8, <1>9, <1>11, <1>12 DEF Remembered, Start0
<1>14. Lowered(W2, D2, K2, L2)'
  BY <1>2 DEF Lowered
<1> QED
  BY <1>13, <1>14

(* Where only truth is given, it is that of an earlier node.               *)
LEMMA PlusOnOne ==
  ASSUME NEW ns, NEW L, NEW n \in Nat, ns[n] \in NodeSet, Laid(ns, L, n)
  PROVE  /\ ns[n].op \in {"plus", "paren"} =>
              /\ ns[n].kind \in {"unary", "paren"} /\ Len(ns[n].args) = 1
              /\ ns[n].args[1] \in 1 .. n - 1
         /\ ns[n].kind = "logic" =>
              \A k \in 1 .. 2 : ns[n].args[k] \in 1 .. n - 1
<1> DEFINE m == ns[n]
<1>1. /\ OpFits(m)
      /\ m.kind \in OnOne => Len(m.args) = 1 /\ m.args[1] \in 1 .. n - 1
      /\ m.kind \in OnTwo => m.args[1] \in 1 .. n - 1 /\ m.args[2] \in 1 .. n - 1
  BY DEF Laid
<1>2. m.kind \in {"literal", "var", "const", "element", "call", "unary", "paren",
                  "binary", "logic"}
  BY DEF NodeSet
<1> HIDE DEF m
<1>3. m.op \in {"plus", "paren"} => m.kind \in {"unary", "paren"}
  <2>1. \A x \in Vars : x \notin {"plus", "paren"}
    BY VarsAssumption DEF AllUnary
  <2> QED
    BY <1>1, <1>2, <2>1 DEF OpFits, ArithOps, RelOps, LogicOps
<1>4. m.kind = "logic" => \A k \in 1 .. 2 : m.args[k] \in 1 .. n - 1
  BY <1>1 DEF OnTwo
<1>5. m.op \in {"plus", "paren"} => Len(m.args) = 1 /\ m.args[1] \in 1 .. n - 1
  BY <1>1, <1>3 DEF OnOne
<1> QED
  BY <1>3, <1>4, <1>5 DEF m

(* The nodes that give no more than the truth, with one node more.         *)
LEMMA RawGrows ==
  ASSUME NEW N \in Nat, NEW ns \in Seq(NodeSet), Len(ns) = N, NEW R, RawSet(ns, R),
         NEW ns2 \in Seq(NodeSet), Len(ns2) = N + 1,
         \A n \in 1 .. N : ns2[n] = ns[n],
         NEW L, \A n \in 1 .. N + 1 : Laid(ns2, L, n)
  PROVE  \E R2 : RawSet(ns2, R2)
<1> DEFINE R1 == {n \in 1 .. N : n \in R}
           R2 == IF RawNode(ns2, R1, N + 1) THEN R1 \cup {N + 1} ELSE R1
<1>1. /\ \A n \in 1 .. N : n \in R2 <=> n \in R
      /\ N + 1 \in R2 <=> RawNode(ns2, R1, N + 1)
      /\ \A n \in 1 .. N : n \in R1 <=> n \in R
  <2>1. \A n \in 1 .. N : n # N + 1
    OBVIOUS
  <2>2. N + 1 \notin R1
    BY <2>1
  <2> QED
    BY <2>1, <2>2
<1> HIDE DEF R1, R2
<1>2. ASSUME NEW n \in 1 .. N + 1
      PROVE  /\ ns2[n].op \in {"plus", "paren"} => ns2[n].args[1] \in 1 .. n - 1
             /\ ns2[n].kind = "logic" => \A k \in 1 .. 2 : ns2[n].args[k] \in 1 .. n - 1
  <2>1. n \in Nat /\ ns2[n] \in NodeSet
    OBVIOUS
  <2> QED
    BY <2>1, PlusOnOne
<1>3. ASSUME NEW n \in 1 .. N + 1
      PROVE  RawNode(ns2, R2, n) <=> RawNode(ns2, R1, n)
  <2>1. ns2[n].op \in {"plus", "paren"} => (ns2[n].args[1] \in R2 <=> ns2[n].args[1] \in R1)
    <3>1. 1 .. n - 1 \subseteq 1 .. N
      OBVIOUS
    <3> QED
      BY <1>1, <1>2, <3>1
  <2> QED
    BY <2>1 DEF RawNode
<1>4. ASSUME NEW n \in 1 .. N
      PROVE  RawNode(ns2, R1, n) <=> RawNode(ns, R, n)
  <2>1. ns2[n] = ns[n] /\ n \in 1 .. N + 1 /\ 1 .. n - 1 \subseteq 1 .. N
    OBVIOUS
  <2>2. ns[n].kind = "logic" => \A k \in 1 .. 2 : ns2[ns[n].args[k]] = ns[ns[n].args[k]]
    BY <1>2, <2>1
  <2>3. ns[n].op \in {"plus", "paren"} => (ns[n].args[1] \in R1 <=> ns[n].args[1] \in R)
    BY <1>1, <1>2, <2>1
  <2> QED
    BY <2>1, <2>2, <2>3 DEF RawNode
<1>5. RawSet(ns2, R2)
  <2> SUFFICES ASSUME NEW n \in 1 .. N + 1 PROVE n \in R2 <=> RawNode(ns2, R2, n)
    BY DEF RawSet
  <2>1. CASE n \in 1 .. N
    BY <1>1, <1>3, <1>4, <2>1 DEF RawSet
  <2>2. CASE n = N + 1
    BY <1>1, <1>3, <2>2
  <2> QED
    BY <2>1, <2>2
<1> QED
  BY <1>5

-----------------------------------------------------------------------------
(* The steps of the parser.                                                *)

(* Short sequences.                                                        *)
LEMMA OneOf == \A s, x : s = <<x>> => Len(s) = 1 /\ s[1] = x /\ DOMAIN s = {1}
OBVIOUS

LEMMA TwoOf ==
  \A s, x, y : s = <<x, y>> => Len(s) = 2 /\ s[1] = x /\ s[2] = y /\ DOMAIN s = {1, 2}
OBVIOUS

(* A node that changes nothing in the source.                              *)
LEMMA DoesNothing ==
  ASSUME NEW m, NEW v, NEW a, NEW b, NEW alive \in BOOLEAN,
         source' = source, srcTrap' <=> srcTrap, alive => ~srcTrap /\ v # Absent,
         m.kind \notin {"element", "call", "binary"},
         alive =>
           /\ m.kind = "var" => v = source.mem[m.op]
           /\ m.kind \in {"unary", "paren"} => v = UnaryMeaning(m.op, a)
           /\ m.kind = "logic" => v = LogicMeaning(m.op, a, b)
  PROVE  DoesNow(m, v, a, b, alive)
BY DEF DoesNow

LEMMA ReachedFacts ==
  ASSUME NEW k
  PROVE  Reached(k) \in BOOLEAN /\ (Reached(k) => ~srcTrap)
BY DEF Reached

LEMMA IntegerLiteralBuilds ==
  ASSUME IInv, NEW v \in Literals, IntegerLiteral(v)
  PROVE  IInv' /\ ReduceOK(0, Node("literal", "none", <<>>, TRUE, v), v)
<1> DEFINE node == Node("literal", "none", <<>>, TRUE, v)
<1>1. v \in Word /\ v # Absent
  BY LiteralsAssumption, Words
<1>2. node \in NodeSet /\ node.args \in Seq(DOMAIN nodes) /\ node.value = v
  BY <1>1 DEF Node, NodeSet
<1>3. WellFormed(node)
  BY DEF WellFormed, Node
<1>4. Len(stack) \in Nat
  BY StackEntries DEF IInv
<1>5. source' = source /\ srcTrap' = srcTrap
  BY DEF IntegerLiteral, NoEffect
<1>6. /\ Parsing /\ Reduce(0, node, v) /\ UNCHANGED <<consts, low, phase>>
      /\ source' \in Program /\ srcTrap' \in BOOLEAN
  BY <1>5 DEF IntegerLiteral, Room, IInv, TypeOK
<1>7. node.kind = "literal" /\ node.op = "none" /\ node.args = <<>>
  BY DEF Node
<1> HIDE DEF node
<1>8. OpFits(node) /\ OnTop(0, node)
  BY <1>7 DEF OpFits, OnTop, Leaves
<1>9. node.const => \A i \in DOMAIN node.args : IsConst(node.args[i])
  BY <1>7
<1>10. DoesNow(node, v, meant[node.args[1]], meant[node.args[2]], Reached(Len(stack) - 0))
  BY <1>1, <1>5, <1>7, ReachedFacts, DoesNothing
<1>11. IInv'
  BY <1>1, <1>2, <1>3, <1>4, <1>5, <1>6, NodeBuilt
<1>12. ReduceOK(0, node, v)
  BY <1>1, <1>2, <1>3, <1>4, <1>5, <1>6, <1>8, <1>9, <1>10 DEF ReduceOK
<1> QED BY <1>11, <1>12 DEF node

LEMMA VarRefBuilds ==
  ASSUME IInv, NEW x \in Vars, VarRef(x)
  PROVE  IInv' /\ ReduceOK(0, Node("var", x, <<>>, FALSE, 0), source.mem[x])
<1> DEFINE node == Node("var", x, <<>>, FALSE, 0)
           v == source.mem[x]
<1>1. v \in Word /\ v # Absent
  BY Words DEF IInv, TypeOK, Program
<1>2. node \in NodeSet /\ node.args \in Seq(DOMAIN nodes) /\ ~node.const
  BY Words DEF Node, NodeSet
<1>3. WellFormed(node)
  BY DEF WellFormed, Node
<1>4. Len(stack) \in Nat
  BY StackEntries DEF IInv
<1>5. source' = source /\ srcTrap' = srcTrap
  BY DEF VarRef, NoEffect
<1>6. /\ Parsing /\ Reduce(0, node, v) /\ UNCHANGED <<consts, low, phase>>
      /\ source' \in Program /\ srcTrap' \in BOOLEAN
  BY <1>5 DEF VarRef, Room, IInv, TypeOK
<1>7. node.kind = "var" /\ node.op = x /\ node.args = <<>> /\ v = source.mem[node.op]
  BY DEF Node
<1> HIDE DEF node, v
<1>8. OpFits(node) /\ OnTop(0, node)
  BY <1>7 DEF OpFits, OnTop, Leaves
<1>9. node.const => \A i \in DOMAIN node.args : IsConst(node.args[i])
  BY <1>7
<1>10. DoesNow(node, v, meant[node.args[1]], meant[node.args[2]], Reached(Len(stack) - 0))
  BY <1>1, <1>5, <1>7, ReachedFacts, DoesNothing
<1>11. IInv'
  BY <1>1, <1>2, <1>3, <1>4, <1>5, <1>6, NodeBuilt
<1>12. ReduceOK(0, node, v)
  BY <1>1, <1>2, <1>3, <1>4, <1>5, <1>6, <1>8, <1>9, <1>10 DEF ReduceOK
<1> QED BY <1>11, <1>12 DEF node, v

LEMMA ConstRefBuilds ==
  ASSUME IInv, NEW d \in consts, ConstRef(d)
  PROVE  IInv' /\ ReduceOK(0, Node("const", "none", <<>>, TRUE, Val(d)), meant[d])
<1> DEFINE node == Node("const", "none", <<>>, TRUE, Val(d))
           v == meant[d]
<1>1. d \in DOMAIN nodes
  BY DEF IInv, TypeOK
<1>2. v \in Word \cup {Absent} /\ Val(d) \in Word
  BY <1>1, NodeFacts DEF IInv
<1>3. node \in NodeSet /\ node.args \in Seq(DOMAIN nodes) /\ node.value = Val(d)
  BY <1>2 DEF Node, NodeSet
<1>4. WellFormed(node)
  BY DEF WellFormed, Node
<1>5. Len(stack) \in Nat
  BY StackEntries DEF IInv
<1>6. source' = source /\ srcTrap' = srcTrap
  BY DEF ConstRef, NoEffect
<1>7. /\ Parsing /\ Reduce(0, node, v) /\ UNCHANGED <<consts, low, phase>>
      /\ source' \in Program /\ srcTrap' \in BOOLEAN
  BY <1>6 DEF ConstRef, Room, IInv, TypeOK
<1>8. Reached(Len(stack) - 0) => v # Absent \/ srcTrap'
  BY DEF IInv, EvaluatedOK, Reached
<1>9. v # Absent => Val(d) = v
  BY <1>1 DEF IInv, FoldingExact, EvaluatedOK
<1>10. node.kind = "const" /\ node.op = "none" /\ node.args = <<>>
  BY DEF Node
<1> HIDE DEF node, v
<1>11. OpFits(node) /\ OnTop(0, node)
  BY <1>10 DEF OpFits, OnTop, Leaves
<1>12. node.const => \A i \in DOMAIN node.args : IsConst(node.args[i])
  BY <1>10
<1>13. DoesNow(node, v, meant[node.args[1]], meant[node.args[2]], Reached(Len(stack) - 0))
  BY <1>6, <1>8, <1>10, ReachedFacts, DoesNothing
<1>14. IInv'
  BY <1>2, <1>3, <1>4, <1>5, <1>6, <1>7, <1>8, <1>9, NodeBuilt
<1>15. ReduceOK(0, node, v)
  BY <1>2, <1>3, <1>4, <1>5, <1>6, <1>7, <1>8, <1>9, <1>11, <1>12, <1>13 DEF ReduceOK
<1> QED BY <1>14, <1>15 DEF node, v

(* A node over one operand.                                                *)
LEMMA OverOne ==
  ASSUME TypeOK, Top \in DOMAIN nodes
  PROVE  /\ <<Top>> \in Seq(DOMAIN nodes) /\ Len(<<Top>>) = 1
         /\ DOMAIN nodes \subseteq Nat
BY DEF TypeOK

LEMMA ElementRefBuilds ==
  ASSUME IInv, ElementRef
  PROVE  IInv' /\ \E m, w : ReduceOK(1, m, w)
<1> DEFINE i == meant[Top]
           known == IF IsConst(Top) THEN Table[Val(Top) + 1] ELSE 0
           node == Node("element", "none", <<Top>>, IsConst(Top), known)
           v == IF InTable(i) THEN Table[i + 1] ELSE Absent
<1>1. /\ TypeOK /\ IsOperand(Len(stack)) /\ Parsing
      /\ IsConst(Top) => InTable(Val(Top))
      /\ Reduce(1, node, v)
      /\ srcTrap' = (srcTrap \/ (Evaluated /\ i # Absent /\ ~InTable(i)))
      /\ UNCHANGED <<source, consts, low, phase>>
  BY DEF ElementRef, Room, IInv
<1>2. /\ Top \in DOMAIN nodes /\ 1 \in 0 .. Len(stack) /\ Len(stack) \in Nat
      /\ Reached(Len(stack) - 1) => i # Absent
      /\ IsConst(Top) /\ i # Absent => Val(Top) = i
  BY <1>1, TopFacts
<1>3. /\ IsConst(Top) \in BOOLEAN /\ Val(Top) \in Word /\ i \in Word \cup {Absent}
  BY <1>1, <1>2, NodeFacts DEF IsConst
<1>4. \A j \in Word \cup {Absent} : InTable(j) => Table[j + 1] \in Word
  BY TableAssumption, Words DEF InTable
<1>5. known \in Word /\ v \in Word \cup {Absent} /\ (InTable(i) => v # Absent)
  BY <1>1, <1>3, <1>4, Words
<1>6. node \in NodeSet /\ node.args \in Seq(DOMAIN nodes)
      /\ node.const = IsConst(Top) /\ node.value = known
  BY <1>1, <1>2, <1>3, <1>5, OverOne DEF Node, NodeSet
<1>7. WellFormed(node)
  BY OverOne, <1>1, <1>2 DEF WellFormed, Node
<1>8. Reached(Len(stack) - 1) => v # Absent \/ srcTrap'
  <2> SUFFICES ASSUME Reached(Len(stack) - 1), ~InTable(i) PROVE srcTrap'
    BY <1>5
  <2>1. stack[Len(stack)].logic = "none" /\ Len(stack) # 0
    BY <1>1, <1>2 DEF IsOperand
  <2>2. Evaluated
    BY <1>2, <2>1, ReachedNext DEF Evaluated, Decides
  <2> QED BY <1>1, <1>2, <2>2
<1>9. node.const /\ v # Absent => node.value = v
  BY <1>2, <1>3, <1>6, Words DEF InTable
<1>10. source' \in Program /\ srcTrap' \in BOOLEAN /\ (srcTrap => srcTrap')
       /\ UNCHANGED <<consts, low, phase>>
  <2>1. srcTrap \in BOOLEAN /\ source \in Program
    BY <1>1 DEF TypeOK
  <2> QED BY Zenon, <1>1, <2>1
<1>11. node.kind = "element" /\ node.op = "none" /\ node.args = <<Top>>
  BY DEF Node
<1> HIDE DEF node, v, i, known
<1>12. OpFits(node) /\ OnTop(1, node)
  BY <1>1, <1>11 DEF OpFits, OnTop, OnOne
<1>13. node.const => (srcTrap' <=> srcTrap) /\ \A k \in DOMAIN node.args : IsConst(node.args[k])
  <2>1. node.const => (srcTrap' <=> srcTrap)
    BY <1>1, <1>2, <1>6
  <2>2. node.const => \A k \in DOMAIN node.args : IsConst(node.args[k])
    <3>1. node.args[1] = Top /\ DOMAIN node.args = {1}
      BY Zenon, <1>11, OneOf
    <3> QED BY Zenon, <1>6, <3>1
  <2> QED BY <2>1, <2>2
<1>14. DoesNow(node, v, meant[node.args[1]], meant[node.args[2]], Reached(Len(stack) - 1))
  <2>1. Reached(Len(stack) - 1) => ~srcTrap /\ i # Absent /\ Evaluated
    <3> SUFFICES ASSUME Reached(Len(stack) - 1) PROVE ~srcTrap /\ i # Absent /\ Evaluated
      OBVIOUS
    <3>1. stack[Len(stack)].logic = "none" /\ Len(stack) # 0
      BY <1>1, <1>2 DEF IsOperand
    <3> QED BY <1>2, <3>1, ReachedNext, NoneDecidesNothing, ReachedFacts DEF Evaluated
  <2>2. Evaluated => Reached(Len(stack) - 1)
    BY <1>2 DEF Evaluated, Reached, Skipping
  <2>3. node.args[1] = Top /\ (InTable(i) => v = Table[i + 1])
    BY <1>11 DEF v
  <2> QED BY <1>1, <1>5, <1>11, <2>1, <2>2, <2>3 DEF DoesNow, i
<1>15. v \in Word \cup {Absent} /\ source' \in Program
  BY <1>5, <1>10
<1>16. IInv'
  BY <1>1, <1>2, <1>6, <1>7, <1>8, <1>9, <1>10, <1>15, NodeBuilt
<1>17. ReduceOK(1, node, v)
  BY <1>1, <1>6, <1>7, <1>12, <1>13, <1>14, <1>15 DEF ReduceOK
<1> QED BY <1>16, <1>17

(* An operand that is not the left one of && or || hides nothing.           *)
LEMMA OperandReached ==
  ASSUME IInv, IsOperand(Len(stack))
  PROVE  Evaluated <=> Reached(Len(stack) - 1)
<1>1. Len(stack) \in Nat /\ Len(stack) # 0 /\ stack[Len(stack)].logic = "none"
  BY StackEntries DEF IInv, IsOperand
<1>2. Reached(Len(stack) - 1) => Evaluated
  BY <1>1, ReachedNext, NoneDecidesNothing DEF Evaluated
<1>3. Evaluated => Reached(Len(stack) - 1)
  BY <1>1 DEF Evaluated, Reached, Skipping
<1> QED BY <1>2, <1>3

LEMMA CallBuilds ==
  ASSUME IInv, NEW x \in Vars, Call(x)
  PROVE  IInv' /\ \E m, w : ReduceOK(1, m, w)
<1> DEFINE node == Node("call", x, <<Top>>, FALSE, 0)
           v == meant[Top]
<1>1. /\ TypeOK /\ IsOperand(Len(stack)) /\ Parsing
      /\ Reduce(1, node, v)
      /\ source' = IF Evaluated /\ v # Absent THEN Called(source, x, v) ELSE source
      /\ UNCHANGED <<srcTrap, consts, low, phase>>
  BY DEF Call, Room, IInv
<1>2. /\ Top \in DOMAIN nodes /\ 1 \in 0 .. Len(stack)
      /\ Reached(Len(stack) - 1) => v # Absent
  BY <1>1, TopFacts
<1>3. v \in Word \cup {Absent}
  BY <1>1, <1>2, NodeFacts
<1>4. node \in NodeSet /\ node.args \in Seq(DOMAIN nodes) /\ ~node.const
  BY <1>1, <1>2, Words, OverOne DEF Node, NodeSet
<1>5. WellFormed(node)
  BY OverOne, <1>1, <1>2 DEF WellFormed, Node
<1>6. source' \in Program /\ srcTrap' = srcTrap /\ srcTrap \in BOOLEAN
  <2>1. source \in Program /\ srcTrap \in BOOLEAN
    BY <1>1 DEF TypeOK
  <2>2. v # Absent => Called(source, x, v) \in Program
    BY <1>3, <2>1 DEF Called, Program
  <2> QED BY <1>1, <2>1, <2>2
<1>7. node.kind = "call" /\ node.op = x /\ node.args = <<Top>> /\ node.args[1] = Top
  BY OneOf DEF Node
<1> HIDE DEF node, v
<1>8. OpFits(node) /\ OnTop(1, node)
  BY <1>1, <1>7 DEF OpFits, OnTop, OnOne
<1>9. DoesNow(node, v, meant[node.args[1]], meant[node.args[2]], Reached(Len(stack) - 1))
  <2>1. Evaluated <=> Reached(Len(stack) - 1)
    BY <1>1, OperandReached
  <2> QED BY <1>1, <1>2, <1>7, <2>1, ReachedFacts DEF DoesNow, v
<1>10. IInv'
  BY <1>1, <1>2, <1>3, <1>4, <1>5, <1>6, NodeBuilt
<1>11. ReduceOK(1, node, v)
  BY <1>1, <1>3, <1>4, <1>5, <1>8, <1>9 DEF ReduceOK
<1> QED BY <1>10, <1>11

LEMMA UnaryBuilds ==
  ASSUME IInv, NEW op \in UnaryOps, Unary(op)
  PROVE  IInv' /\ \E m, w : ReduceOK(1, m, w)
<1> DEFINE node == UnaryNode(op)
           v == UnaryMeaning(op, meant[Top])
<1>1. /\ TypeOK /\ IsOperand(Len(stack)) /\ Parsing
      /\ Reduce(1, node, v)
      /\ UNCHANGED <<source, srcTrap, consts, low, phase>>
  BY DEF Unary, Room, IInv, NoEffect
<1>2. /\ Top \in DOMAIN nodes /\ 1 \in 0 .. Len(stack)
      /\ Reached(Len(stack) - 1) => meant[Top] # Absent
      /\ IsConst(Top) /\ meant[Top] # Absent => Val(Top) = meant[Top]
  BY <1>1, TopFacts
<1>3. /\ IsConst(Top) \in BOOLEAN /\ Val(Top) \in Word
      /\ meant[Top] \in Word \cup {Absent}
  BY <1>1, <1>2, NodeFacts DEF IsConst
<1>4. v \in Word \cup {Absent} /\ (meant[Top] # Absent => v # Absent)
      /\ (meant[Top] = Absent => v = Absent)
  BY <1>3, UnaryMeaningType DEF UnaryMeaning
<1>5. FoldedUnary(op, Val(Top)) \in Word
  BY <1>3, FoldedUnaryExact
<1>6. op \in {"none"} \cup Vars \cup AllUnary \cup ArithOps \cup RelOps \cup LogicOps
  BY OpsAssumption
<1>7. node \in NodeSet /\ node.args \in Seq(DOMAIN nodes) /\ node.args = <<Top>>
      /\ node.const = IsConst(Top) /\ node.kind \in {"unary", "paren"}
      /\ node.value = IF IsConst(Top) THEN FoldedUnary(op, Val(Top)) ELSE 0
  BY <1>1, <1>2, <1>3, <1>5, <1>6, Words, OverOne DEF UnaryNode, Node, NodeSet
<1>8. WellFormed(node)
  BY <1>7, OverOne, <1>1, <1>2 DEF WellFormed
<1>9. node.const /\ v # Absent => node.value = v
  BY <1>2, <1>3, <1>4, <1>7, FoldedUnaryExact
<1>10. source' \in Program /\ srcTrap' = srcTrap /\ srcTrap \in BOOLEAN
  BY <1>1 DEF TypeOK
<1>11. Reached(Len(stack) - 1) => v # Absent
  BY <1>2, <1>4
<1>12. node \in NodeSet /\ node.args \in Seq(DOMAIN nodes) /\ 1 \in 0 .. Len(stack)
  BY <1>2, <1>7
<1>13. Parsing /\ Reduce(1, node, v) /\ v \in Word \cup {Absent}
       /\ UNCHANGED <<consts, low, phase>>
  BY <1>1, <1>4
<1>14. /\ node.kind = IF op = "paren" THEN "paren" ELSE "unary"
       /\ node.op = op /\ node.args = <<Top>> /\ node.args[1] = Top
  BY OneOf DEF UnaryNode, Node
<1>15. v = UnaryMeaning(op, meant[Top])
  OBVIOUS
<1> HIDE DEF node, v
<1>16. OpFits(node) /\ OnTop(1, node)
  <2>1. op \in AllUnary
    BY OpsAssumption
  <2> QED BY <1>1, <1>14, <2>1 DEF OpFits, OnTop, OnOne, AllUnary
<1>17. node.const => \A k \in DOMAIN node.args : IsConst(node.args[k])
  BY <1>7, OneOf
<1>18. DoesNow(node, v, meant[node.args[1]], meant[node.args[2]], Reached(Len(stack) - 1))
  BY <1>1, <1>11, <1>14, <1>15, ReachedFacts, DoesNothing
<1>19. IInv'
  BY <1>8, <1>9, <1>10, <1>11, <1>12, <1>13, NodeBuilt
<1>20. ReduceOK(1, node, v)
  BY <1>8, <1>10, <1>12, <1>13, <1>16, <1>17, <1>18 DEF ReduceOK
<1> QED BY <1>19, <1>20

LEMMA OverTwo ==
  ASSUME TypeOK, Top \in DOMAIN nodes, Second \in DOMAIN nodes
  PROVE  /\ <<Second, Top>> \in Seq(DOMAIN nodes) /\ Len(<<Second, Top>>) = 2
         /\ <<Second, Top>>[1] = Second /\ <<Second, Top>>[2] = Top
OBVIOUS

(* The node of an operator whose folding does not end the compiler.        *)
LEMMA BinaryNodeType ==
  ASSUME TypeOK, Top \in DOMAIN nodes, Second \in DOMAIN nodes,
         NEW op \in ArithOps \cup RelOps \cup LogicOps, ~Crashes(op)
  PROVE  LET node == BinaryNode(op) IN
         /\ node \in NodeSet /\ node.args = <<Second, Top>>
         /\ node.op = op /\ node.const = BothConst
         /\ node.kind = IF op \in LogicOps THEN "logic" ELSE "binary"
         /\ node.value = IF BothConst THEN Folded(op, Val(Second), Val(Top)) ELSE 0
<1>1. /\ Val(Top) \in Word /\ Val(Second) \in Word
      /\ BothConst \in BOOLEAN
  BY NodeFacts DEF BothConst, IsConst
<1>2. BothConst => Folded(op, Val(Second), Val(Top)) \in Word
  BY <1>1, FoldedIsWord DEF Crashes
<1>3. op \in {"none"} \cup Vars \cup AllUnary \cup ArithOps \cup RelOps \cup LogicOps
  OBVIOUS
<1>4. <<Second, Top>> \in Seq(Nat)
  BY OverTwo, OverOne
<1> QED BY <1>1, <1>2, <1>3, <1>4, Words DEF BinaryNode, Node, NodeSet

LEMMA BinaryBuilds ==
  ASSUME IInv, NEW op \in Ops \ LogicOps, Binary(op)
  PROVE  /\ IInv'
         /\ UNCHANGED <<consts, low>>
         /\ \/ phase' = "crashed" /\ UNCHANGED <<nodes, meant, stack>>
            \/ phase' = phase /\ \E m, w : ReduceOK(2, m, w)
<1> DEFINE a == meant[Second]
           b == meant[Top]
           known == a # Absent /\ b # Absent
           v == IF known /\ ~Undefined(op, a, b) THEN Int32(op, a, b) ELSE Absent
           node == BinaryNode(op)
<1>1. /\ TypeOK /\ Parsing
      /\ IsOperand(Len(stack)) /\ IsOperand(Len(stack) - 1)
      /\ srcTrap' = (srcTrap \/ (Evaluated /\ known /\ Undefined(op, a, b)))
      /\ UNCHANGED <<source, consts, low>>
  BY DEF Binary, Room, IInv
<1>2. Len(stack) > 1 /\ Len(stack) \in Nat
  BY <1>1, StackEntries DEF IsOperand
<1>3. /\ Top \in DOMAIN nodes /\ Second \in DOMAIN nodes /\ 2 \in 0 .. Len(stack)
      /\ Reached(Len(stack) - 1) => b # Absent
      /\ Reached(Len(stack) - 2) => a # Absent
      /\ IsConst(Top) /\ b # Absent => Val(Top) = b
      /\ IsConst(Second) /\ a # Absent => Val(Second) = a
  BY <1>1, <1>2, TopFacts, SecondFacts
<1>4. a \in Word \cup {Absent} /\ b \in Word \cup {Absent}
  BY <1>1, <1>3, NodeFacts
<1>5. Reached(Len(stack) - 2) => known /\ Evaluated
  <2>1. /\ stack[Len(stack)].logic = "none"
        /\ stack[Len(stack) - 1].logic = "none"
    BY <1>1 DEF IsOperand
  <2>2. Reached(Len(stack) - 2) => Reached(Len(stack) - 1)
    <3>1. Len(stack) - 1 \in Nat /\ Len(stack) - 1 # 0
          /\ (Len(stack) - 1) - 1 = Len(stack) - 2
      <4>1. \A n \in Nat : n > 1 => n - 1 \in Nat /\ n - 1 # 0 /\ (n - 1) - 1 = n - 2
        OBVIOUS
      <4> QED BY Zenon, <1>2, <4>1
    <3> QED BY <2>1, <3>1, ReachedNext, NoneDecidesNothing
  <2>3. Reached(Len(stack) - 1) => Reached(Len(stack))
    BY <1>2, <2>1, ReachedNext, NoneDecidesNothing
  <2> QED BY <1>3, <2>2, <2>3 DEF Evaluated
<1>6. srcTrap' \in BOOLEAN /\ (srcTrap => srcTrap') /\ source' \in Program
  <2>1. srcTrap \in BOOLEAN /\ source \in Program
    BY <1>1 DEF TypeOK
  <2> QED BY Zenon, <1>1, <2>1
<1>7. CASE Crashes(op)
  <2>1. phase' = "crashed" /\ UNCHANGED <<nodes, meant, stack>>
    BY <1>7 DEF Binary
  <2>2. UNCHANGED <<consts, context, frames, code, run, outcome>>
    BY <1>1 DEF low
  <2>3. frames = <<>> /\ code = <<>>
    BY <1>1 DEF IInv, Staged, Parsing
  <2>4. TypeOK'
    BY <1>1, <1>6, <2>1, <2>2, <2>3 DEF TypeOK
  <2>5. TreeOK' /\ FoldingExact'
    BY <2>1 DEF IInv, TreeOK, WellFormed, IsConst, FoldingExact, Val
  <2>6. EvaluatedOK'
    BY <1>6, <2>1, <2>2 DEF IInv, EvaluatedOK, Reached, Skipping, IsConst
  <2>7. Staged' /\ OperandsTyped'
    BY <2>1, <2>2, <2>3 DEF IInv, Staged, OperandsTyped
  <2>8. srcTrap' \/ Skipping(Len(stack))
    <3> SUFFICES ASSUME ~Skipping(Len(stack)), ~srcTrap PROVE srcTrap'
      BY <1>1
    <3>1. Skipping(Len(stack) - 2) => Skipping(Len(stack))
      BY <1>2 DEF Skipping
    <3>2. Reached(Len(stack) - 2)
      BY <3>1 DEF Reached
    <3>3. known /\ Evaluated /\ Undefined(op, a, b)
      BY <1>3, <1>5, <1>7, <3>2 DEF Crashes, BothConst
    <3> QED BY <1>1, <3>3
  <2>9. CrashMeansTrap'
    BY <2>1, <2>8 DEF CrashMeansTrap, Skipping
  <2> QED BY <1>1, <2>1, <2>4, <2>5, <2>6, <2>7, <2>9 DEF IInv
<1>8. CASE ~Crashes(op)
  <2>1. Reduce(2, node, v) /\ UNCHANGED phase
    BY <1>8 DEF Binary
  <2>2. /\ node \in NodeSet /\ node.args = <<Second, Top>>
        /\ node.op = op /\ node.const = BothConst /\ node.kind = "binary"
        /\ BothConst => node.value = Folded(op, Val(Second), Val(Top))
    BY <1>1, <1>3, <1>8, BinaryNodeType, OpsAssumption
  <2>3. v \in Word \cup {Absent} /\ (known /\ ~Undefined(op, a, b) => v # Absent)
    BY <1>4, Int32IsWord, Words
  <2>4. WellFormed(node) /\ node.args \in Seq(DOMAIN nodes)
    <3>1. op \in ArithOps \cup RelOps
      BY OpsAssumption
    <3> QED BY <1>1, <1>3, <2>2, <3>1, OverTwo DEF WellFormed
  <2>5. Reached(Len(stack) - 2) => v # Absent \/ srcTrap'
    BY <1>1, <1>5, <2>3
  <2>6. node.const /\ v # Absent => node.value = v
    <3> SUFFICES ASSUME BothConst, v # Absent
                 PROVE  Folded(op, Val(Second), Val(Top)) = v
      BY <2>2
    <3>1. known /\ ~Undefined(op, a, b) /\ v = Int32(op, a, b)
      OBVIOUS
    <3>2. Val(Second) = a /\ Val(Top) = b /\ a \in Word /\ b \in Word
      BY <1>3, <1>4, <3>1 DEF BothConst
    <3> QED BY <3>1, <3>2, FoldedIsWord
  <2>7. UNCHANGED <<consts, low, phase>>
    BY <1>1, <2>1
  <2>8. node.args[1] = Second /\ node.args[2] = Top
    BY <2>2, TwoOf
  <2>9. known /\ ~Undefined(op, a, b) => v = Int32(op, a, b)
    OBVIOUS
  <2> HIDE DEF node, v
  <2>10. OpFits(node) /\ OnTop(2, node)
    <3>1. op \in ArithOps \cup RelOps
      BY OpsAssumption
    <3> QED BY <1>1, <1>2, <2>2, <3>1 DEF OpFits, OnTop, OnTwo
  <2>11. Evaluated <=> Reached(Len(stack) - 2)
    <3>1. Skipping(Len(stack) - 2) => Skipping(Len(stack))
      BY <1>2 DEF Skipping
    <3> QED BY <1>5, <3>1 DEF Evaluated, Reached
  <2>12. node.const => /\ srcTrap' <=> srcTrap
                       /\ \A k \in DOMAIN node.args : IsConst(node.args[k])
    <3> SUFFICES ASSUME BothConst
                 PROVE  /\ srcTrap' <=> srcTrap
                        /\ \A k \in DOMAIN node.args : IsConst(node.args[k])
      BY <2>2
    <3>1. known => ~Undefined(op, a, b)
      BY <1>3, <1>8 DEF Crashes, BothConst
    <3>2. \A k \in DOMAIN node.args : IsConst(node.args[k])
      BY <2>2, TwoOf DEF BothConst
    <3> QED BY <1>1, <3>1, <3>2
  <2>13. DoesNow(node, v, meant[node.args[1]], meant[node.args[2]], Reached(Len(stack) - 2))
    BY <1>1, <1>5, <2>2, <2>3, <2>8, <2>9, <2>11, ReachedFacts DEF DoesNow
  <2>14. IInv'
    BY <1>1, <1>3, <1>6, <2>1, <2>2, <2>3, <2>4, <2>5, <2>6, <2>7, NodeBuilt
  <2>15. ReduceOK(2, node, v)
    BY <1>6, <2>1, <2>2, <2>3, <2>4, <2>10, <2>12, <2>13 DEF ReduceOK
  <2> QED BY <2>7, <2>14, <2>15
<1> QED BY <1>7, <1>8

LEMMA LogicRightBuilds ==
  ASSUME IInv, LogicRight
  PROVE  IInv' /\ \E m, w : ReduceOK(2, m, w)
<1> DEFINE op == stack[Len(stack) - 1].logic
           a == meant[Second]
           b == meant[Top]
           v == LogicMeaning(op, a, b)
           node == BinaryNode(op)
<1>1. /\ TypeOK /\ Parsing /\ IsOperand(Len(stack)) /\ Len(stack) > 1
      /\ op \in LogicOps /\ (IsConst(Second) \/ IsConst(Top))
      /\ Reduce(2, node, v)
      /\ UNCHANGED <<source, srcTrap, consts, low, phase>>
  BY DEF LogicRight, Room, IInv, NoEffect
<1>2. /\ Top \in DOMAIN nodes /\ Second \in DOMAIN nodes /\ 2 \in 0 .. Len(stack)
      /\ Len(stack) \in Nat
      /\ Reached(Len(stack) - 1) => b # Absent
      /\ Reached(Len(stack) - 2) => a # Absent
      /\ IsConst(Top) /\ b # Absent => Val(Top) = b
      /\ IsConst(Second) /\ a # Absent => Val(Second) = a
  BY <1>1, TopFacts, SecondFacts
<1>3. /\ a \in Word \cup {Absent} /\ b \in Word \cup {Absent}
      /\ Val(Top) \in Word /\ Val(Second) \in Word
      /\ IsConst(Top) \in BOOLEAN /\ IsConst(Second) \in BOOLEAN
  BY <1>1, <1>2, NodeFacts DEF IsConst
<1>4. Reached(Len(stack) - 2) /\ ~Decides(op, a) => b # Absent
  <2>1. \A n \in Nat : n > 1 => n - 1 \in Nat /\ n - 1 # 0 /\ (n - 1) - 1 = n - 2
    OBVIOUS
  <2>2. /\ Len(stack) - 1 \in Nat /\ Len(stack) - 1 # 0
        /\ (Len(stack) - 1) - 1 = Len(stack) - 2
    BY Zenon, <1>1, <1>2, <2>1
  <2>3. Reached(Len(stack) - 2) /\ ~Decides(op, a) => Reached(Len(stack) - 1)
    BY <2>2, ReachedNext DEF Second
  <2> QED BY <1>2, <2>3
<1>5. /\ op = "or" \/ op = "and"
      /\ "or" # "and" /\ "or" \notin {"div", "rem"} /\ "and" \notin {"div", "rem"}
  BY <1>1 DEF LogicOps
<1>6. ~Undefined(op, Val(Second), Val(Top)) /\ ~Crashes(op)
  BY <1>5 DEF Undefined, Crashes
<1>7. v = IF a = Absent THEN Absent
          ELSE IF Decides(op, a) THEN Truth(op = "or")
          ELSE IF b = Absent THEN Absent ELSE Truth(b # 0)
  BY DEF LogicMeaning
<1>8. v \in Word \cup {Absent}
      /\ (Reached(Len(stack) - 2) => v # Absent)
  BY <1>2, <1>4, <1>7, TruthIsWord, Words
<1>9. /\ node \in NodeSet /\ node.args = <<Second, Top>>
      /\ node.op = op /\ node.const = BothConst /\ node.kind = "logic"
      /\ BothConst => node.value = Folded(op, Val(Second), Val(Top))
  BY <1>1, <1>2, <1>6, BinaryNodeType
<1> HIDE DEF node
<1>10. WellFormed(node) /\ node.args \in Seq(DOMAIN nodes)
  <2>1. node.args[1] = Second /\ node.args[2] = Top /\ Len(node.args) = 2
        /\ node.args \in Seq(DOMAIN nodes)
    BY <1>1, <1>2, <1>9, OverTwo
  <2>2. node.const <=> IsConst(Second) /\ IsConst(Top)
    BY Zenon, <1>9 DEF BothConst
  <2> QED BY <1>1, <1>9, <2>1, <2>2 DEF WellFormed
<1>11. node.const /\ v # Absent => node.value = v
  <2> SUFFICES ASSUME node.const, v # Absent PROVE node.value = v
    OBVIOUS
  <2>0. BothConst /\ node.value = Folded(op, Val(Second), Val(Top))
    BY Zenon, <1>9
  <2>1. a # Absent /\ Val(Second) = a
    BY <2>0, <1>2, <1>7 DEF BothConst
  <2>2. Decides(op, a) <=> (op = "or" /\ a # 0) \/ (op = "and" /\ a = 0)
    BY <2>1 DEF Decides
  <2>3. ~Decides(op, a) => b # Absent /\ Val(Top) = b
    BY <2>0, <1>2, <1>7, <2>1 DEF BothConst
  <2>4. CASE op = "or"
    <3>1. Folded(op, Val(Second), Val(Top)) = Truth(Val(Second) # 0 \/ Val(Top) # 0)
      BY <1>3, <1>6, <2>4, FoldedIsWord
    <3> QED BY <2>0, <1>5, <1>7, <2>1, <2>2, <2>3, <2>4, <3>1 DEF Truth
  <2>5. CASE op = "and"
    <3>1. Folded(op, Val(Second), Val(Top)) = Truth(Val(Second) # 0 /\ Val(Top) # 0)
      BY <1>3, <1>6, <2>5, FoldedIsWord
    <3> QED BY <2>0, <1>5, <1>7, <2>1, <2>2, <2>3, <2>5, <3>1 DEF Truth
  <2> QED BY <1>5, <2>4, <2>5
<1>12. srcTrap' = srcTrap /\ source' \in Program /\ srcTrap' \in BOOLEAN
       /\ UNCHANGED <<consts, low, phase>>
  BY <1>1 DEF TypeOK
<1>13. Parsing /\ Reduce(2, node, v) /\ node \in NodeSet /\ 2 \in 0 .. Len(stack)
  BY <1>1, <1>2, <1>9
<1>14. node.args[1] = Second /\ node.args[2] = Top
  BY <1>9, TwoOf
<1>15. v = LogicMeaning(op, a, b)
  OBVIOUS
<1> HIDE DEF v
<1>16. OpFits(node) /\ OnTop(2, node)
  BY <1>1, <1>9 DEF OpFits, OnTop, OnTwo
<1>17. node.const => \A k \in DOMAIN node.args : IsConst(node.args[k])
  <2>1. node.const => IsConst(Second) /\ IsConst(Top)
    BY Zenon, <1>9 DEF BothConst
  <2>2. \A k \in DOMAIN node.args : node.args[k] \in {Second, Top}
    BY <1>9, TwoOf
  <2> QED BY <2>1, <2>2
<1>18. DoesNow(node, v, meant[node.args[1]], meant[node.args[2]], Reached(Len(stack) - 2))
  BY <1>1, <1>8, <1>9, <1>14, <1>15, ReachedFacts, DoesNothing
<1>19. IInv'
  BY <1>8, <1>10, <1>11, <1>12, <1>13, NodeBuilt
<1>20. ReduceOK(2, node, v)
  BY <1>8, <1>10, <1>12, <1>13, <1>16, <1>17, <1>18 DEF ReduceOK
<1> QED BY <1>19, <1>20

(* The left operand of && and || gets its operator.                        *)
LEMMA LogicLeftStack ==
  ASSUME IInv, NEW op \in LogicOps, LogicLeft(op)
  PROVE  /\ Top \in DOMAIN nodes /\ Len(stack) \in Nat \ {0}
         /\ stack' \in Seq([node : DOMAIN nodes, logic : {"none"} \cup LogicOps])
         /\ Len(stack') = Len(stack)
         /\ \A i \in 1 .. Len(stack) - 1 : stack'[i] = stack[i]
         /\ stack'[Len(stack)] = [node |-> Top, logic |-> op]
         /\ \A i \in 1 .. Len(stack) : stack'[i].node = stack[i].node
<1> DEFINE e == [node |-> Top, logic |-> op]
           Entry == [node : DOMAIN nodes, logic : {"none"} \cup LogicOps]
<1>1. /\ TypeOK /\ IsOperand(Len(stack)) /\ stack' = Append(Popped(1), e)
  BY DEF LogicLeft, Room, IInv
<1>2. /\ Top \in DOMAIN nodes /\ Len(stack) \in Nat /\ 1 \in 0 .. Len(stack)
      /\ Len(stack) # 0
  BY <1>1, TopFacts
<1>3. stack \in Seq(Entry) /\ e \in Entry /\ e.node = Top
  BY <1>1, <1>2 DEF TypeOK
<1> HIDE DEF Entry, e
<1>4. /\ Popped(1) \in Seq(Entry) /\ Len(Popped(1)) = Len(stack) - 1
      /\ \A i \in 1 .. Len(stack) - 1 : Popped(1)[i] = stack[i]
  <2>1. Len(stack) - 1 \in 0 .. Len(stack)
    BY <1>2
  <2> QED BY <1>3, <2>1, Prefix DEF Popped
<1>5. /\ stack' \in Seq(Entry) /\ Len(stack') = Len(stack)
      /\ \A i \in 1 .. Len(stack) - 1 : stack'[i] = stack[i]
      /\ stack'[Len(stack)] = e
  BY <1>1, <1>2, <1>3, <1>4
<1>6. ASSUME NEW i \in 1 .. Len(stack) PROVE stack'[i].node = stack[i].node
  <2>1. i = Len(stack) \/ i \in 1 .. Len(stack) - 1
    BY <1>2
  <2> QED BY <1>3, <1>5, <2>1 DEF Top
<1> QED BY <1>2, <1>5, <1>6 DEF e, Entry

LEMMA LogicLeftInv ==
  ASSUME IInv, NEW op \in LogicOps, LogicLeft(op)
  PROVE  IInv'
<1> DEFINE e == [node |-> Top, logic |-> op]
           Entry == [node : DOMAIN nodes, logic : {"none"} \cup LogicOps]
<1>1. /\ TypeOK /\ Parsing /\ IsOperand(Len(stack))
      /\ stack' = Append(Popped(1), e)
      /\ UNCHANGED <<nodes, consts, meant, source, srcTrap, low, phase>>
  BY DEF LogicLeft, Room, IInv
<1>2. /\ Top \in DOMAIN nodes /\ Len(stack) \in Nat /\ 1 \in 0 .. Len(stack)
      /\ Len(stack) # 0
  BY <1>1, TopFacts
<1>3. UNCHANGED <<nodes, consts, meant, source, srcTrap, phase>>
      /\ UNCHANGED <<context, frames, code, run, outcome>>
  BY <1>1 DEF low
<1>4. /\ stack' \in Seq(Entry) /\ Len(stack') = Len(stack)
      /\ \A i \in 1 .. Len(stack) - 1 : stack'[i] = stack[i]
      /\ stack'[Len(stack)] = e
  BY LogicLeftStack
<1>5. TypeOK'
  BY <1>1, <1>3, <1>4 DEF TypeOK, IsConst
<1>6. TreeOK' /\ FoldingExact' /\ Staged' /\ CrashMeansTrap' /\ OperandsTyped'
  BY <1>1, <1>3 DEF IInv, TreeOK, WellFormed, IsConst, FoldingExact, Val,
     Staged, CrashMeansTrap, OperandsTyped, Parsing
<1>7. EvaluatedOK'
  <2>1. ASSUME NEW i \in DOMAIN stack', Reached(i - 1)'
        PROVE  meant'[stack'[i].node] # Absent
    <3>1. i \in 1 .. Len(stack)
      BY <1>4
    <3>2. Reached(i - 1)
      <4>1. \A j \in 1 .. i - 1 : /\ stack'[j] = stack[j]
                                  /\ meant'[stack[j].node] = meant[stack[j].node]
        BY <1>2, <1>3, <1>4, <3>1
      <4>2. i - 1 \in Nat /\ i - 1 <= Len(stack) /\ i - 1 <= Len(stack')
            /\ Len(stack') \in Nat
        BY <1>2, <1>4, <3>1
      <4> QED BY <1>2, <1>3, <2>1, <4>1, <4>2, ReachedStays
    <3>3. stack'[i].node = stack[i].node
      BY <1>2, <1>4, <3>1 DEF Top
    <3>4. i \in DOMAIN stack
      BY <1>1, <3>1, StackEntries
    <3> QED BY <1>3, <3>2, <3>3, <3>4 DEF IInv, EvaluatedOK
  <2> QED BY <1>3, <2>1 DEF IInv, EvaluatedOK, IsConst, Absent
<1> QED BY <1>5, <1>6, <1>7 DEF IInv

LEMMA ConstDeclInv ==
  ASSUME IInv, ConstDecl
  PROVE  IInv'
<1>1. /\ TypeOK /\ Parsing /\ Len(stack) = 1 /\ IsOperand(1) /\ IsConst(Top)
      /\ consts' = consts \cup {Top} /\ stack' = <<>>
      /\ UNCHANGED <<nodes, meant, source, srcTrap, low, phase>>
  BY DEF ConstDecl, Room, IInv
<1>2. Top \in DOMAIN nodes /\ (Reached(Len(stack) - 1) => meant[Top] # Absent)
  BY <1>1, TopFacts
<1>3. UNCHANGED <<nodes, meant, source, srcTrap, phase>>
      /\ UNCHANGED <<context, frames, code, run, outcome>>
  BY <1>1 DEF low
<1>4. Reached(Len(stack) - 1) \/ srcTrap
  BY <1>1 DEF Reached, Skipping
<1>5. stack' \in Seq([node : DOMAIN nodes', logic : {"none"} \cup LogicOps])
      /\ DOMAIN stack' = {}
  BY <1>1
<1>6. TypeOK'
  BY <1>1, <1>2, <1>3, <1>5 DEF TypeOK, IsConst
<1>7. TreeOK' /\ FoldingExact' /\ Staged' /\ CrashMeansTrap' /\ OperandsTyped'
  BY <1>1, <1>3 DEF IInv, TreeOK, WellFormed, IsConst, FoldingExact, Val,
     Staged, CrashMeansTrap, OperandsTyped, Parsing
<1>8. EvaluatedOK'
  <2>1. \A d \in consts' : IsConst(d) /\ (srcTrap \/ meant[d] # Absent)
    BY <1>1, <1>2, <1>4 DEF IInv, EvaluatedOK
  <2>2. \A d \in consts' : (IsConst(d) /\ (srcTrap \/ meant[d] # Absent))'
    BY <1>3, <2>1 DEF IsConst, Absent
  <2> QED BY <1>5, <2>2 DEF EvaluatedOK
<1> QED BY <1>6, <1>7, <1>8 DEF IInv

(* A node is built.                                                        *)
LEMMA ParseKeeps ==
  ASSUME XInv, IInv', Parsing, NEW k, NEW m, NEW v, ReduceOK(k, m, v),
         UNCHANGED <<consts, low, phase>>
  PROVE  XInv'
<1>1. source' \in Program
  BY DEF IInv, TypeOK
<1>2. IInv /\ phase' = "parse"
  BY DEF XInv, Parsing
<1>3. PICK W, D, K, L : Remembered(W, D, K, L)
  BY DEF XInv
<1>4. PICK W2, D2, K2, L2 : (Remembered(W2, D2, K2, L2) /\ Lowered(W2, D2, K2, L2))'
  BY <1>1, <1>2, <1>3, NodeRemembered
<1>5. LoweringExact'
  BY <1>2 DEF LoweringExact
<1>6. (\E R : RawSet(nodes, R))'
  <2> DEFINE N == Len(nodes)
  <2>1. PICK R : RawSet(nodes, R)
    BY DEF XInv
  <2>2. N \in Nat /\ nodes \in Seq(NodeSet) /\ DOMAIN nodes = 1 .. N /\ New = N + 1
    BY <1>2 DEF IInv, TypeOK, New
  <2>3. k \in 0 .. Len(stack)
    BY <1>2, <1>3, TopsRecorded DEF ReduceOK, Remembered, Parsing
  <2>4. nodes' \in Seq(NodeSet) /\ Len(nodes') = N + 1
        /\ \A n \in 1 .. N : nodes'[n] = nodes[n]
    BY <1>2, <2>2, <2>3, ReduceEffect DEF ReduceOK, IInv
  <2>5. \A n \in 1 .. N + 1 : Laid(nodes', L2, n)
    BY <1>4, <2>4 DEF Remembered, Recorded, NodeRecorded
  <2> HIDE DEF N
  <2>6. \E R2 : RawSet(nodes', R2)
    BY <2>1, <2>2, <2>4, <2>5, RawGrows DEF N
  <2> QED
    BY <2>6
<1> QED
  BY <1>4, <1>5, <1>6 DEF XInv

(* The compiler dies.                                                      *)
LEMMA CrashKeeps ==
  ASSUME XInv, IInv', phase' = "crashed", UNCHANGED <<nodes, meant, stack>>
  PROVE  XInv'
<1>1. PICK W, D, K, L : Remembered(W, D, K, L)
  BY DEF XInv
<1>2. PICK R : RawSet(nodes, R)
  BY DEF XInv
<1>3. Remembered(W, D, K, L)' /\ Lowered(W, D, K, L)'
  BY <1>1 DEF Remembered, Lowered
<1>4. RawSet(nodes, R)' /\ LoweringExact'
  BY <1>2 DEF LoweringExact
<1> QED
  BY <1>3, <1>4 DEF XInv

LEMMA LogicLeftKeeps ==
  ASSUME XInv, NEW op \in LogicOps, LogicLeft(op)
  PROVE  XInv'
<1>1. IInv /\ IInv'
  BY LogicLeftInv DEF XInv
<1>2. PICK W, D, K, L : Remembered(W, D, K, L)
  BY DEF XInv
<1>3. PICK R : RawSet(nodes, R)
  BY DEF XInv
<1>4. phase = "parse" /\ UNCHANGED <<nodes, meant, source, srcTrap, phase, run>>
  BY DEF LogicLeft, Room, Parsing, low
<1>5. StackRecorded(W, D, K, L)
  BY <1>2, <1>4 DEF Remembered
<1>6. /\ Len(stack) \in Nat /\ Len(stack) # 0 /\ Len(stack') = Len(stack)
      /\ \A i \in 1 .. Len(stack) - 1 : stack'[i] = stack[i]
      /\ \A i \in 1 .. Len(stack) : stack'[i].node = stack[i].node
      /\ stack # <<>> /\ stack' # <<>>
  <2>1. stack # <<>> /\ stack' # <<>>
    <3>1. \A s : s = <<>> => Len(s) = 0
      OBVIOUS
    <3>2. Len(stack) # 0 /\ Len(stack') # 0
      BY <1>1, LogicLeftStack
    <3> QED BY <3>1, <3>2
  <2> QED BY <1>1, <2>1, LogicLeftStack
<1>7. ASSUME NEW i \in 1 .. Len(stack)
      PROVE  Skipping(i - 1)' <=> Skipping(i - 1)
  <2>1. \A j \in 1 .. i - 1 : stack'[j] = stack[j]
    BY <1>6
  <2> QED BY <1>4, <2>1 DEF Skipping, Decides, Absent
<1>8. StackRecorded(W, D, K, L)'
  <2>1. Top' = Len(nodes')
    BY <1>4, <1>5, <1>6 DEF StackRecorded, Top
  <2>2. \A i \in 1 .. Len(stack') - 1 : L[stack'[i + 1].node] = stack'[i].node + 1
    <3> SUFFICES ASSUME NEW i \in 1 .. Len(stack) - 1
                 PROVE  L[stack'[i + 1].node] = stack'[i].node + 1
      BY <1>6
    <3>1. i \in 1 .. Len(stack) /\ i + 1 \in 1 .. Len(stack)
      BY <1>6
    <3> QED BY <1>5, <1>6, <3>1 DEF StackRecorded
  <2>3. \A i \in 1 .. Len(stack') : stack'[i].node \in K <=> Skipping(i - 1)'
    BY <1>5, <1>6, <1>7 DEF StackRecorded
  <2>4. StackFirst(L)' = StackFirst(L)
    <3>1. 1 \in 1 .. Len(stack)
      BY <1>6
    <3> QED BY <1>6, <3>1 DEF StackFirst
  <2>5. W[StackFirst(L)'] = Start0 /\ StackFirst(L)' \notin D
    BY <1>5, <2>4 DEF StackRecorded
  <2> QED BY <2>1, <2>2, <2>3, <2>5 DEF StackRecorded, Start0
<1>9. Remembered(W, D, K, L)' /\ Lowered(W, D, K, L)' /\ LoweringExact'
  BY <1>2, <1>4, <1>8 DEF Remembered, Lowered, LoweringExact, Start0
<1>10. RawSet(nodes, R)'
  BY <1>3, <1>4
<1> QED BY <1>1, <1>9, <1>10 DEF XInv

LEMMA ConstDeclKeeps ==
  ASSUME XInv, ConstDecl
  PROVE  XInv'
<1>1. IInv /\ IInv'
  BY ConstDeclInv DEF XInv
<1>2. PICK W, D, K, L : Remembered(W, D, K, L)
  BY DEF XInv
<1>3. PICK R : RawSet(nodes, R)
  BY DEF XInv
<1>4. phase = "parse" /\ UNCHANGED <<nodes, meant, source, srcTrap, phase, run>>
      /\ stack' = <<>> /\ Len(stack) = 1 /\ IsConst(Top) /\ IsOperand(Len(stack))
  BY DEF ConstDecl, Room, Parsing, low
<1>5. StackRecorded(W, D, K, L) /\ Recorded(nodes, meant, W, D, K, L)
  BY <1>2, <1>4 DEF Remembered
<1>6. stack # <<>> /\ Top = Len(nodes) /\ Top \in DOMAIN nodes
      /\ DOMAIN nodes = 1 .. Len(nodes) /\ StackFirst(L) = L[Top] - 1
  <2>1. stack # <<>>
    BY <1>4
  <2> QED BY <1>1, <1>4, <1>5, <2>1, TopFacts DEF StackRecorded, Top, StackFirst, IInv, TypeOK
<1>7. W[Len(nodes)] = Start0 /\ Len(nodes) \notin D
  <2>1. Quiet(W, D, L, Top)
    BY <1>4, <1>5, <1>6 DEF Recorded, NodeRecorded, IsConst
  <2> QED BY <1>5, <1>6, <2>1 DEF Quiet, StackRecorded
<1>8. StackRecorded(W, D, K, L)'
  BY <1>4, <1>7 DEF StackRecorded, StackFirst, Start0
<1>9. Remembered(W, D, K, L)' /\ Lowered(W, D, K, L)' /\ LoweringExact'
  BY <1>2, <1>4, <1>8 DEF Remembered, Lowered, LoweringExact, Start0
<1>10. RawSet(nodes, R)'
  BY <1>3, <1>4
<1> QED BY <1>1, <1>9, <1>10 DEF XInv

LEMMA ParseXInv ==
  ASSUME XInv, Parse
  PROVE  XInv'
<1> USE DEF XInv
<1>1. Parsing
  BY DEF Parse, IntegerLiteral, VarRef, ConstRef, ElementRef, Call, Unary, Binary,
     LogicLeft, LogicRight, ConstDecl, Room
<1>2. ASSUME NEW v \in Literals, IntegerLiteral(v) PROVE XInv'
  BY <1>1, <1>2, IntegerLiteralBuilds, ParseKeeps DEF IntegerLiteral
<1>3. ASSUME NEW x \in Vars, VarRef(x) PROVE XInv'
  BY <1>1, <1>3, VarRefBuilds, ParseKeeps DEF VarRef
<1>4. ASSUME NEW d \in consts, ConstRef(d) PROVE XInv'
  BY <1>1, <1>4, ConstRefBuilds, ParseKeeps DEF ConstRef
<1>5. CASE ElementRef
  BY <1>1, <1>5, ElementRefBuilds, ParseKeeps DEF ElementRef
<1>6. ASSUME NEW x \in Vars, Call(x) PROVE XInv'
  BY <1>1, <1>6, CallBuilds, ParseKeeps DEF Call
<1>7. ASSUME NEW op \in UnaryOps, Unary(op) PROVE XInv'
  BY <1>1, <1>7, UnaryBuilds, ParseKeeps DEF Unary
<1>8. ASSUME NEW op \in Ops \ LogicOps, Binary(op) PROVE XInv'
  BY <1>1, <1>8, BinaryBuilds, ParseKeeps, CrashKeeps
<1>9. ASSUME NEW op \in Ops \cap LogicOps, LogicLeft(op) PROVE XInv'
  BY <1>9, LogicLeftKeeps
<1>10. CASE LogicRight
  BY <1>1, <1>10, LogicRightBuilds, ParseKeeps DEF LogicRight
<1>11. CASE ConstDecl
  BY <1>11, ConstDeclKeeps
<1> QED BY <1>2, <1>3, <1>4, <1>5, <1>6, <1>7, <1>8, <1>9, <1>10, <1>11 DEF Parse

-----------------------------------------------------------------------------
(* The lowering.                                                           *)

FrameSet == [node : {0} \cup DOMAIN nodes, got : Seq(OperandSet)]

(* What the calls of TranslateExpr are for.                                *)
FramesFor(fs) ==
  \A i \in DOMAIN fs :
    IF i = 1 THEN fs[i].node = 0 ELSE fs[i].node # 0 /\ ~IsConst(fs[i].node)

LEMMA LoweringStep ==
  ASSUME IInv, Lowering, UNCHANGED <<ast, context>>,
         frames' \in Seq(FrameSet), FramesFor(frames'),
         code' \in Seq(InstSet), \A i \in DOMAIN code' : WellTyped(code'[i]),
         run' \in Program, outcome' \in Word,
         phase' \in {"lower", "done", "thrown", "trapped"},
         phase' = "thrown" => context = "return",
         phase' = "lower" => frames' # <<>>
  PROVE  IInv'
<1>1. UNCHANGED <<nodes, stack, consts, meant, source, srcTrap>>
      /\ context' = context
  BY DEF ast
<1>2. TypeOK /\ Len(stack) = 1 /\ context \in AllContexts
  BY DEF IInv, Staged, Lowering
<1>3. frames' \in Seq([node : {0} \cup DOMAIN nodes', got : Seq(OperandSet)])
  BY <1>1 DEF FrameSet
<1>4. \A i \in DOMAIN frames' :
        IF i = 1 THEN frames'[i].node = 0
        ELSE frames'[i].node # 0 /\ ~(IsConst(frames[i].node)')
  BY <1>1 DEF FramesFor, IsConst
<1>5. TypeOK'
  BY <1>1, <1>2, <1>3, <1>4 DEF TypeOK
<1>6. TreeOK' /\ FoldingExact'
  BY <1>1 DEF IInv, TreeOK, WellFormed, IsConst, FoldingExact, Val
<1>7. EvaluatedOK'
  BY <1>1 DEF IInv, EvaluatedOK, Reached, Skipping, IsConst
<1>8. Staged' /\ CrashMeansTrap'
  BY <1>1, <1>2 DEF Staged, CrashMeansTrap
<1>9. OperandsTyped'
  BY <1>1 DEF OperandsTyped, WellTyped
<1> QED BY <1>5, <1>6, <1>7, <1>8, <1>9 DEF IInv

(* The frame on top, and the one below it unless it is the statement's.    *)
LEMMA FrameFacts ==
  ASSUME IInv, Lowering
  PROVE  /\ frames \in Seq(FrameSet) /\ FramesFor(frames) /\ Len(frames) \in Nat \ {0}
         /\ Frm.node \in {0} \cup DOMAIN nodes /\ Frm.got \in Seq(OperandSet)
         /\ Frm.node # 0 => /\ ~IsConst(Frm.node) /\ Len(frames) >= 2
                            /\ Caller.node \in {0} \cup DOMAIN nodes
                            /\ Caller.got \in Seq(OperandSet)
         /\ Frm.node = 0 => Len(frames) = 1
<1>1. /\ frames \in Seq(FrameSet) /\ frames # <<>>
      /\ FramesFor(frames)
  BY DEF IInv, TypeOK, FrameSet, FramesFor, Staged, Lowering
<1>2. \A f \in FrameSet : f.node \in {0} \cup DOMAIN nodes /\ f.got \in Seq(OperandSet)
  BY DEF FrameSet
<1> HIDE DEF FrameSet
<1>3. /\ Len(frames) \in Nat \ {0} /\ Len(frames) \in DOMAIN frames
      /\ DOMAIN frames = 1 .. Len(frames)
      /\ \A i \in DOMAIN frames : frames[i] \in FrameSet
  BY <1>1
<1>4. IF Len(frames) = 1 THEN Frm.node = 0 ELSE Frm.node # 0 /\ ~IsConst(Frm.node)
  BY <1>1, <1>3 DEF FramesFor, Frm
<1>5. Len(frames) # 1 => Len(frames) - 1 \in DOMAIN frames
  BY <1>3
<1> QED BY <1>1, <1>2, <1>3, <1>4, <1>5 DEF Frm, Caller

(* Replacing the top frame by one of the same node.                        *)
LEMMA TopReplaced ==
  ASSUME IInv, Lowering, NEW f \in FrameSet,
         IF Frm.node = 0 THEN f.node = 0 ELSE f.node # 0 /\ ~IsConst(f.node)
  PROVE  LET fs == [frames EXCEPT ![Len(frames)] = f]
         IN fs \in Seq(FrameSet) /\ FramesFor(fs) /\ fs # <<>>
<1>1. /\ frames \in Seq(FrameSet) /\ FramesFor(frames) /\ Len(frames) \in Nat \ {0}
      /\ Frm.node # 0 => Len(frames) >= 2
      /\ Frm.node = 0 => Len(frames) = 1
  BY FrameFacts
<1> HIDE DEF FrameSet
<1> DEFINE fs == [frames EXCEPT ![Len(frames)] = f]
<1>2. /\ fs \in Seq(FrameSet) /\ Len(fs) = Len(frames) /\ DOMAIN fs = DOMAIN frames
      /\ \A i \in DOMAIN frames : fs[i] = IF i = Len(frames) THEN f ELSE frames[i]
  BY <1>1
<1>3. FramesFor(fs)
  BY <1>1, <1>2 DEF FramesFor
<1> QED BY <1>1, <1>2, <1>3

(* A call on top of the others.                                            *)
LEMMA FramePushed ==
  ASSUME IInv, Lowering, NEW n \in DOMAIN nodes, ~IsConst(n)
  PROVE  LET fs == Append(frames, Frame(n))
         IN fs \in Seq(FrameSet) /\ FramesFor(fs) /\ fs # <<>>
<1>1. frames \in Seq(FrameSet) /\ FramesFor(frames) /\ Len(frames) \in Nat \ {0}
  BY FrameFacts
<1>2. Frame(n) \in FrameSet /\ Frame(n).node = n
  BY DEF Frame, FrameSet
<1>3. n # 0
  BY NodeFacts DEF IInv
<1> HIDE DEF FrameSet
<1> DEFINE fs == Append(frames, Frame(n))
<1>4. /\ fs \in Seq(FrameSet) /\ Len(fs) = Len(frames) + 1
      /\ \A i \in DOMAIN fs : fs[i] = IF i = Len(fs) THEN Frame(n) ELSE frames[i]
      /\ \A i \in DOMAIN fs : i = Len(fs) \/ i \in DOMAIN frames
  BY <1>1, <1>2
<1>5. FramesFor(fs)
  BY <1>1, <1>2, <1>3, <1>4 DEF FramesFor
<1> QED BY <1>4, <1>5

(* A call that returns an operand to the one below.                        *)
LEMMA CallReturns ==
  ASSUME IInv, Lowering, Frm.node # 0,
         NEW o \in OperandSet, NEW is \in Seq(InstSet),
         \A i \in DOMAIN is : WellTyped(is[i]), Return(o, is),
         run' \in Program, phase' \in {"lower", "thrown", "trapped"},
         phase' = "thrown" => context = "return"
  PROVE  IInv'
<1>1. /\ frames \in Seq(FrameSet) /\ FramesFor(frames) /\ Len(frames) \in Nat
      /\ Len(frames) >= 2
      /\ Caller.node \in {0} \cup DOMAIN nodes /\ Caller.got \in Seq(OperandSet)
  BY FrameFacts
<1> DEFINE f == WithOperand(Caller, o)
           h == Len(frames) - 1
           fs == [Front(frames) EXCEPT ![h] = f]
<1>2. f \in FrameSet /\ f.node = Caller.node
  BY <1>1 DEF WithOperand, FrameSet
<1>3. Caller = frames[h]
  BY DEF Caller
<1> HIDE DEF FrameSet, f, fs
<1>4. h \in 0 .. Len(frames) /\ h \in Nat \ {0}
  <2>1. \A n \in Nat : n >= 2 => n - 1 \in 0 .. n /\ n - 1 \in Nat \ {0}
    OBVIOUS
  <2> QED BY Zenon, <1>1, <2>1
<1>5. /\ Front(frames) \in Seq(FrameSet) /\ Len(Front(frames)) = h
      /\ \A i \in 1 .. h : Front(frames)[i] = frames[i]
  BY <1>1, <1>4, Prefix DEF Front
<1>6. /\ fs \in Seq(FrameSet) /\ Len(fs) = h /\ fs # <<>>
      /\ \A i \in 1 .. h : fs[i] = IF i = h THEN f ELSE frames[i]
  BY <1>2, <1>4, <1>5 DEF fs
<1>7. DOMAIN fs = 1 .. h /\ \A i \in 1 .. h : i \in DOMAIN frames
  BY <1>1, <1>4, <1>6
<1>8. \A i \in 1 .. h : fs[i].node = frames[i].node
  BY <1>2, <1>3, <1>6
<1>9. FramesFor(fs)
  BY <1>1, <1>7, <1>8 DEF FramesFor
<1>10. /\ code' \in Seq(InstSet)
       /\ \A i \in DOMAIN code' : WellTyped(code'[i])
  <2>1. code \in Seq(InstSet) /\ \A i \in DOMAIN code : WellTyped(code[i])
    BY DEF IInv, TypeOK, OperandsTyped
  <2>2. code' = code \o is
    BY DEF Return
  <2> HIDE DEF InstSet
  <2>3. \A i \in DOMAIN code' :
          \/ i \in DOMAIN code /\ code'[i] = code[i]
          \/ i - Len(code) \in DOMAIN is /\ code'[i] = is[i - Len(code)]
    BY <2>1, <2>2
  <2> QED BY <2>1, <2>2, <2>3
<1>11. UNCHANGED <<ast, context>> /\ outcome' \in Word /\ frames' = fs
  BY DEF Return, IInv, TypeOK, fs, f
<1> QED BY <1>6, <1>9, <1>10, <1>11, LoweringStep

(* Steps that emit no code and go on.                                      *)
LEMMA FramesChange ==
  ASSUME IInv, Lowering, frames' \in Seq(FrameSet), FramesFor(frames'),
         frames' # <<>>, UNCHANGED <<ast, context, code, run, outcome, phase>>
  PROVE  IInv'
<1>1. code' \in Seq(InstSet) /\ \A i \in DOMAIN code' : WellTyped(code'[i])
  BY DEF IInv, TypeOK, OperandsTyped
<1>2. run' \in Program /\ outcome' \in Word /\ phase' = "lower"
      /\ UNCHANGED <<ast, context>>
  BY DEF IInv, TypeOK, Lowering
<1> QED BY <1>1, <1>2, LoweringStep

LEMMA TailCall ==
  ASSUME IInv, Lowering, Frm.node # 0,
         NEW n \in DOMAIN nodes, ~IsConst(n), Instead(n)
  PROVE  IInv'
<1>1. Frame(n) \in FrameSet /\ Frame(n).node = n
  BY DEF Frame, FrameSet
<1>2. n # 0
  BY NodeFacts DEF IInv
<1>3. frames' \in Seq(FrameSet) /\ FramesFor(frames') /\ frames' # <<>>
  BY <1>1, <1>2, TopReplaced DEF Instead
<1> QED BY <1>3, FramesChange DEF Instead

(* The statement is translated.                                            *)
LEMMA StatementEnds ==
  ASSUME IInv, Lowering, NEW v \in Word, Finish(v), NEW is \in Seq(InstSet),
         \A i \in DOMAIN is : WellTyped(is[i]), code' = code \o is,
         run' \in Program, phase' \in {"done", "thrown"},
         phase' = "thrown" => context = "return"
  PROVE  IInv'
<1>1. frames' \in Seq(FrameSet) /\ FramesFor(frames')
  BY DEF Finish, FramesFor
<1>2. /\ code' \in Seq(InstSet)
      /\ \A i \in DOMAIN code' : WellTyped(code'[i])
  <2>1. code \in Seq(InstSet) /\ \A i \in DOMAIN code : WellTyped(code[i])
    BY DEF IInv, TypeOK, OperandsTyped
  <2> HIDE DEF InstSet
  <2>2. \A i \in DOMAIN code' :
          \/ i \in DOMAIN code /\ code'[i] = code[i]
          \/ i - Len(code) \in DOMAIN is /\ code'[i] = is[i - Len(code)]
    BY <2>1
  <2> QED BY <2>1, <2>2
<1>3. outcome' \in Word /\ UNCHANGED <<ast, context>>
  BY DEF Finish
<1> QED BY <1>1, <1>2, <1>3, LoweringStep

-----------------------------------------------------------------------------
(* What the steps of the lowering know of the node in hand.                *)

LEMMA RootFacts ==
  ASSUME IInv, Lowering
  PROVE  Root \in DOMAIN nodes /\ Args(0) = <<Root>>
<1>1. 1 \in DOMAIN stack
  BY StackEntries DEF IInv, Staged, Lowering
<1> QED BY <1>1, StackEntries DEF IInv, Root, Args

LEMMA ArgsKnown ==
  ASSUME IInv, Lowering, NEW n \in {0} \cup DOMAIN nodes
  PROVE  Args(n) \in Seq(DOMAIN nodes)
<1>1. CASE n = 0
  <2>1. \A x \in DOMAIN nodes : <<x>> \in Seq(DOMAIN nodes)
    OBVIOUS
  <2> QED BY <1>1, <2>1, RootFacts
<1>2. CASE n # 0
  <2>1. Args(n) = nodes[n].args /\ n \in DOMAIN nodes
    BY <1>2 DEF Args
  <2>2. nodes[n].args \in Seq(1 .. n - 1) /\ DOMAIN nodes = 1 .. Len(nodes)
        /\ Len(nodes) \in Nat
    BY <2>1, NodeFacts DEF IInv, TypeOK
  <2>3. 1 .. n - 1 \subseteq DOMAIN nodes
    BY <2>1, <2>2
  <2> QED BY <2>1, <2>2, <2>3
<1> QED BY <1>1, <1>2

LEMMA NextKnown ==
  ASSUME IInv, Awaits
  PROVE  Lowering /\ Next1 \in DOMAIN nodes
<1>1. Lowering /\ Frm.node \in {0} \cup DOMAIN nodes /\ Frm.got \in Seq(OperandSet)
      /\ Len(Frm.got) < Len(Args(Frm.node))
  BY FrameFacts DEF Awaits
<1>2. Args(Frm.node) \in Seq(DOMAIN nodes)
  BY <1>1, ArgsKnown
<1>3. Len(Frm.got) \in Nat /\ Len(Args(Frm.node)) \in Nat
  BY <1>1, <1>2
<1>4. Len(Frm.got) + 1 \in 1 .. Len(Args(Frm.node))
  BY <1>1, <1>3
<1> QED BY <1>1, <1>2, <1>4 DEF Next1

NodeKinds == {"literal", "var", "const", "element", "call", "unary", "paren",
              "binary", "logic"}

(* An expression's function runs, or a statement's.                        *)
LEMMA ReadyForNode ==
  ASSUME IInv, NEW kind \in NodeKinds, Ready(kind)
  PROVE  /\ Lowering /\ Frm.node # 0 /\ Frm.node \in DOMAIN nodes
         /\ nodes[Frm.node].kind = kind /\ ~IsConst(Frm.node)
         /\ WellFormed(nodes[Frm.node])
         /\ Args(Frm.node) = nodes[Frm.node].args
         /\ Fetches(kind) => Len(Frm.got) = Len(Args(Frm.node))
         /\ Frm.got \in Seq(OperandSet)
<1>1. Lowering /\ Kind(Frm.node) = kind
      /\ (Fetches(kind) => Len(Frm.got) = Len(Args(Frm.node)))
  BY DEF Ready
<1>2. context \in AllContexts /\ kind \notin AllContexts
  BY <1>1 DEF IInv, Staged, Lowering, AllContexts, NodeKinds
<1>3. Frm.node # 0
  BY <1>1, <1>2 DEF Kind
<1>4. Frm.node \in DOMAIN nodes /\ ~IsConst(Frm.node) /\ Frm.got \in Seq(OperandSet)
  BY <1>1, <1>3, FrameFacts
<1> QED BY <1>1, <1>3, <1>4 DEF Kind, Args, IInv, TreeOK

LEMMA ReadyForStatement ==
  ASSUME IInv, NEW ctx \in {"assign", "return", "cond"}, Ready(ctx)
  PROVE  /\ Lowering /\ Frm.node = 0 /\ context = ctx
         /\ Got(1) \in OperandSet /\ Root \in DOMAIN nodes
<1>1. Lowering /\ Kind(Frm.node) = ctx /\ Fetches(ctx)
      /\ Len(Frm.got) = Len(Args(Frm.node))
  BY DEF Ready, Fetches
<1>2. Frm.node = 0
  <2> SUFFICES ASSUME Frm.node # 0 PROVE FALSE
    OBVIOUS
  <2>1. Frm.node \in DOMAIN nodes /\ nodes[Frm.node].kind = ctx
    BY <1>1, FrameFacts DEF Kind
  <2>2. nodes[Frm.node].kind \in NodeKinds
    BY <2>1, NodeFacts DEF IInv, NodeSet, NodeKinds
  <2> QED BY <2>1, <2>2 DEF NodeKinds
<1>3. Args(Frm.node) = <<Root>> /\ Root \in DOMAIN nodes
  BY <1>1, <1>2, RootFacts
<1>4. Frm.got \in Seq(OperandSet) /\ Len(Frm.got) = 1
  BY <1>1, <1>3, FrameFacts
<1> HIDE DEF OperandSet
<1>5. Got(1) \in OperandSet
  BY <1>4 DEF Got
<1> QED BY <1>1, <1>2, <1>3, <1>5 DEF Kind

LEMMA OperandFacts ==
  /\ \A v \in Word : Imm(v) \in OperandSet /\ Tmp(32, v) \in OperandSet
                     /\ Tmp(1, v) \in OperandSet
  /\ \A b : ImmI1(b) \in OperandSet
  /\ \A o \in OperandSet : o.val \in Word /\ o.width \in {1, 32}
BY TruthIsWord DEF Imm, Tmp, ImmI1, OperandSet

-----------------------------------------------------------------------------
(* The steps of the lowering.                                              *)

LEMMA BeginInv ==
  ASSUME IInv, NEW ctx \in Contexts, Begin(ctx)
  PROVE  IInv'
<1>1. /\ TypeOK /\ Parsing /\ Len(stack) = 1 /\ IsOperand(1)
      /\ context' = ctx /\ frames' = <<Frame(0)>> /\ phase' = "lower"
      /\ source' = IF ctx = "assign" /\ ~srcTrap
                   THEN Stored(source, Target, meant[Root]) ELSE source
      /\ UNCHANGED <<nodes, stack, consts, meant, srcTrap, code, run, outcome>>
  BY DEF Begin, IInv
<1>2. Root \in DOMAIN nodes
  BY <1>1, StackEntries DEF Root, IsOperand
<1>3. Skipping(0) <=> FALSE
  BY DEF Skipping
<1>4. ~srcTrap => meant[Root] \in Word
  <2>1. ~srcTrap => meant[Root] # Absent
    <3>1. 1 \in DOMAIN stack /\ 1 - 1 = 0
      BY <1>1, StackEntries DEF IsOperand
    <3> QED BY <3>1, <1>3 DEF IInv, EvaluatedOK, Reached, Root
  <2> QED BY <1>1, <1>2, <2>1, NodeFacts
<1>5. source' \in Program
  <2>1. source \in Program
    BY <1>1 DEF TypeOK
  <2>2. ~srcTrap => Stored(source, Target, meant[Root]) \in Program
    BY <1>4, <2>1 DEF Stored, Program
  <2> QED BY <1>1, <2>1, <2>2
<1>6. ctx \in AllContexts
  BY OpsAssumption
<1>7. frames' \in Seq([node : {0} \cup DOMAIN nodes, got : Seq(OperandSet)])
      /\ \A i \in DOMAIN frames' : i = 1 /\ frames'[i].node = 0
  <2> DEFINE S == [node : {0} \cup DOMAIN nodes, got : Seq(OperandSet)]
  <2>1. Frame(0) \in S /\ Frame(0).node = 0
    BY DEF Frame
  <2> HIDE DEF S
  <2> QED BY <1>1, <2>1 DEF S
<1>8. TypeOK'
  BY <1>1, <1>5, <1>6, <1>7 DEF TypeOK, IsConst
<1>9. TreeOK' /\ FoldingExact' /\ CrashMeansTrap'
  BY <1>1 DEF IInv, TreeOK, WellFormed, IsConst, FoldingExact, Val, CrashMeansTrap
<1>10. EvaluatedOK'
  BY <1>1 DEF IInv, EvaluatedOK, Reached, Skipping, IsConst
<1>11. Staged' /\ OperandsTyped'
  BY <1>1, <1>6 DEF IInv, Staged, OperandsTyped, WellTyped
<1> QED BY <1>8, <1>9, <1>10, <1>11 DEF IInv

LEMMA FetchConstInv ==
  ASSUME IInv, FetchConst
  PROVE  IInv'
<1>1. Awaits /\ Lowering /\ Next1 \in DOMAIN nodes
  BY NextKnown DEF FetchConst
<1> DEFINE f == WithOperand(Frm, Imm(Val(Next1)))
<1>2. Frm.node \in {0} \cup DOMAIN nodes /\ Frm.got \in Seq(OperandSet)
      /\ (Frm.node # 0 => ~IsConst(Frm.node))
  BY <1>1, FrameFacts
<1>3. Imm(Val(Next1)) \in OperandSet
  BY <1>1, NodeFacts, OperandFacts DEF IInv
<1>4. f \in FrameSet /\ f.node = Frm.node
  BY <1>2, <1>3 DEF WithOperand, FrameSet
<1> HIDE DEF f
<1>5. frames' = [frames EXCEPT ![Len(frames)] = f]
      /\ UNCHANGED <<ast, context, code, run, outcome, phase>>
  BY DEF FetchConst, f
<1>6. frames' \in Seq(FrameSet) /\ FramesFor(frames') /\ frames' # <<>>
  BY <1>1, <1>2, <1>4, <1>5, TopReplaced
<1> QED BY <1>1, <1>5, <1>6, FramesChange

LEMMA FetchExprInv ==
  ASSUME IInv, FetchExpr
  PROVE  IInv'
<1>1. Lowering /\ Next1 \in DOMAIN nodes /\ ~IsConst(Next1)
      /\ frames' = Append(frames, Frame(Next1))
      /\ UNCHANGED <<ast, context, code, run, outcome, phase>>
  BY NextKnown DEF FetchExpr
<1>2. frames' \in Seq(FrameSet) /\ FramesFor(frames') /\ frames' # <<>>
  BY <1>1, FramePushed
<1> QED BY <1>1, <1>2, FramesChange

LEMMA CallStmtInv ==
  ASSUME IInv, CallStmt
  PROVE  IInv'
<1>1. Lowering /\ nodes[Root].kind = "call"
      /\ frames' = Append(frames, Frame(Root))
      /\ UNCHANGED <<ast, context, code, run, outcome, phase>>
  BY DEF CallStmt, Ready
<1>2. Root \in DOMAIN nodes
  BY <1>1, RootFacts
<1>3. ~IsConst(Root)
  BY <1>1, <1>2 DEF IInv, TreeOK, WellFormed, IsConst
<1>4. frames' \in Seq(FrameSet) /\ FramesFor(frames') /\ frames' # <<>>
  BY <1>1, <1>2, <1>3, FramePushed
<1> QED BY <1>1, <1>4, FramesChange

LEMMA ParenExprInv ==
  ASSUME IInv, ParenExpr
  PROVE  IInv'
<1>1. /\ Lowering /\ Frm.node # 0 /\ Frm.node \in DOMAIN nodes
      /\ nodes[Frm.node].kind = "paren" /\ ~IsConst(Frm.node)
      /\ WellFormed(nodes[Frm.node])
      /\ Args(Frm.node) = nodes[Frm.node].args
  BY ReadyForNode DEF ParenExpr, NodeKinds
<1>2. Args(Frm.node) \in Seq(DOMAIN nodes)
  BY <1>1, ArgsKnown
<1>3. Len(Args(Frm.node)) = 1 /\ ~IsConst(Args(Frm.node)[1])
  BY <1>1 DEF WellFormed, IsConst
<1>4. Args(Frm.node)[1] \in DOMAIN nodes
  BY <1>2, <1>3
<1>5. Instead(Args(Frm.node)[1])
  BY DEF ParenExpr
<1> QED BY <1>1, <1>3, <1>4, <1>5, TailCall

LEMMA CondPassInv ==
  ASSUME IInv, CondPass
  PROVE  IInv'
<1>1. /\ Lowering /\ Frm.node # 0 /\ Frm.node \in DOMAIN nodes
      /\ nodes[Frm.node].kind = "logic" /\ ~IsConst(Frm.node)
      /\ WellFormed(nodes[Frm.node])
      /\ Args(Frm.node) = nodes[Frm.node].args
  BY ReadyForNode DEF CondPass, NodeKinds
<1>2. Args(Frm.node) \in Seq(DOMAIN nodes)
  BY <1>1, ArgsKnown
<1>3. /\ Len(Args(Frm.node)) = 2
      /\ \/ IsConst(Args(Frm.node)[1]) /\ ~IsConst(Args(Frm.node)[2])
         \/ ~IsConst(Args(Frm.node)[1]) /\ IsConst(Args(Frm.node)[2])
  BY <1>1 DEF WellFormed, IsConst
<1>4. PassedTo(Frm.node) \in DOMAIN nodes /\ ~IsConst(PassedTo(Frm.node))
  <2>1. Args(Frm.node)[1] \in DOMAIN nodes /\ Args(Frm.node)[2] \in DOMAIN nodes
    BY <1>2, <1>3
  <2> QED BY <1>3, <2>1 DEF PassedTo
<1>5. Instead(PassedTo(Frm.node))
  BY DEF CondPass
<1> QED BY <1>1, <1>4, <1>5, TailCall

(* Instructions, one or two of them, with operands of the right types.     *)
LEMMA InstFacts ==
  ASSUME NEW i \in InstNames, NEW os \in Seq([imm : BOOLEAN, width : {1, 32}, val : Word])
  PROVE  /\ Inst(i, os) \in InstSet /\ Inst(i, os).inst = i
         /\ Inst(i, os).types \in Seq({1, 32}) /\ Len(Inst(i, os).types) = Len(os)
         /\ \A k \in 1 .. Len(os) : Inst(i, os).types[k] = os[k].width
<1> DEFINE S == [imm : BOOLEAN, width : {1, 32}, val : Word]
           types == [k \in DOMAIN os |-> os[k].width]
<1>1. \A s \in S : s.width \in {1, 32}
  OBVIOUS
<1>2. os \in Seq(S)
  OBVIOUS
<1> HIDE DEF S
<1>3. /\ types \in Seq({1, 32}) /\ Len(types) = Len(os)
      /\ \A k \in 1 .. Len(os) : types[k] = os[k].width
  BY <1>1, <1>2
<1> HIDE DEF types
<1>4. Inst(i, os) = [inst |-> i, types |-> types]
  BY DEF Inst, types
<1> QED BY <1>3, <1>4 DEF InstSet

LEMMA NoOperands == <<>> \in Seq(OperandSet) /\ Len(<<>>) = 0
OBVIOUS

LEMMA OneInst ==
  ASSUME NEW i \in InstSet, WellTyped(i)
  PROVE  /\ <<i>> \in Seq(InstSet)
         /\ \A k \in DOMAIN <<i>> : WellTyped(<<i>>[k])
OBVIOUS

LEMMA NoInst ==
  <<>> \in Seq(InstSet) /\ \A k \in DOMAIN <<>> : WellTyped(<<>>[k])
OBVIOUS

LEMMA MoreInsts ==
  ASSUME NEW is \in Seq(InstSet), NEW js \in Seq(InstSet),
         \A k \in DOMAIN is : WellTyped(is[k]),
         \A k \in DOMAIN js : WellTyped(js[k])
  PROVE  /\ is \o js \in Seq(InstSet)
         /\ \A k \in DOMAIN (is \o js) : WellTyped((is \o js)[k])
<1> HIDE DEF InstSet
<1>1. \A k \in DOMAIN (is \o js) :
        \/ k \in DOMAIN is /\ (is \o js)[k] = is[k]
        \/ k - Len(is) \in DOMAIN js /\ (is \o js)[k] = js[k - Len(is)]
  OBVIOUS
<1> QED BY <1>1

(* The instructions with no rule about their types.                        *)
LEMMA PlainInst ==
  ASSUME NEW i \in {"load", "getelementptr", "call", "store", "ret"},
         NEW os \in Seq(OperandSet)
  PROVE  /\ <<Inst(i, os)>> \in Seq(InstSet)
         /\ \A k \in DOMAIN <<Inst(i, os)>> : WellTyped(<<Inst(i, os)>>[k])
<1>1. i \in InstNames
  BY DEF InstNames
<1>2. Inst(i, os) \in InstSet /\ Inst(i, os).inst = i
  BY <1>1, InstFacts DEF OperandSet
<1>3. WellTyped(Inst(i, os))
  BY <1>2 DEF WellTyped, ArithOps
<1> QED BY <1>2, <1>3, OneInst

LEMMA LoadVarInv ==
  ASSUME IInv, LoadVar
  PROVE  IInv'
<1>1. /\ Lowering /\ Frm.node # 0 /\ Frm.node \in DOMAIN nodes
      /\ nodes[Frm.node].kind = "var" /\ WellFormed(nodes[Frm.node])
  BY ReadyForNode DEF LoadVar, NodeKinds
<1> DEFINE o == Tmp(32, run.mem[nodes[Frm.node].op])
           is == <<Inst("load", <<>>)>>
<1>2. nodes[Frm.node].op \in Vars
  BY <1>1 DEF WellFormed
<1>3. run \in Program
  BY DEF IInv, TypeOK
<1>4. o \in OperandSet
  BY <1>2, <1>3, OperandFacts DEF Program
<1>5. is \in Seq(InstSet) /\ \A k \in DOMAIN is : WellTyped(is[k])
  BY PlainInst, NoOperands
<1>6. Return(o, is) /\ run' = run /\ phase' = "lower"
  BY <1>1 DEF LoadVar, Lowering
<1> HIDE DEF o, is
<1> QED BY <1>1, <1>3, <1>4, <1>5, <1>6, CallReturns

LEMMA GotOne ==
  ASSUME IInv, NEW kind \in {"element", "call", "unary"}, Ready(kind)
  PROVE  Got(1) \in OperandSet /\ <<Got(1)>> \in Seq(OperandSet)
<1>1. /\ WellFormed(nodes[Frm.node]) /\ nodes[Frm.node].kind = kind
      /\ Args(Frm.node) = nodes[Frm.node].args
      /\ Len(Frm.got) = Len(Args(Frm.node)) /\ Frm.got \in Seq(OperandSet)
  BY ReadyForNode DEF NodeKinds, Fetches
<1>2. Len(Frm.got) = 1
  BY <1>1 DEF WellFormed
<1> HIDE DEF OperandSet
<1> QED BY <1>1, <1>2 DEF Got

LEMMA LoadElementInv ==
  ASSUME IInv, LoadElement
  PROVE  IInv'
<1>1. Lowering /\ Frm.node # 0
  BY ReadyForNode DEF LoadElement, NodeKinds
<1> DEFINE i == Got(1).val
           v == IF InTable(i) THEN Table[i + 1] ELSE 0
           load == <<Inst("load", <<>>)>>
           gep  == <<Inst("getelementptr", <<>>)>>
           is   == <<Inst("getelementptr", <<>>), Inst("load", <<>>)>>
<1>2. i \in Word
  BY GotOne, OperandFacts DEF LoadElement
<1>3. v \in Word
  BY <1>2, TableAssumption, Words DEF InTable
<1>4. /\ load \in Seq(InstSet) /\ (\A k \in DOMAIN load : WellTyped(load[k]))
      /\ gep \in Seq(InstSet) /\ (\A k \in DOMAIN gep : WellTyped(gep[k]))
  BY PlainInst, NoOperands
<1>5. is = gep \o load
  OBVIOUS
<1>6. Return(Tmp(32, v), is) /\ run' = run /\ phase' \in {"lower", "trapped"}
  BY <1>1 DEF LoadElement, Lowering
<1>7. Tmp(32, v) \in OperandSet /\ run \in Program
  BY <1>3, OperandFacts DEF IInv, TypeOK
<1> HIDE DEF v, load, gep, is
<1>8. is \in Seq(InstSet) /\ \A k \in DOMAIN is : WellTyped(is[k])
  BY <1>4, <1>5, MoreInsts
<1> QED BY <1>1, <1>6, <1>7, <1>8, CallReturns

LEMMA TranslateCallExprInv ==
  ASSUME IInv, TranslateCallExpr
  PROVE  IInv'
<1>1. /\ Lowering /\ Frm.node # 0 /\ Frm.node \in DOMAIN nodes
      /\ nodes[Frm.node].kind = "call" /\ WellFormed(nodes[Frm.node])
  BY ReadyForNode DEF TranslateCallExpr, NodeKinds
<1> DEFINE x == nodes[Frm.node].op
           v == Got(1).val
           is == <<Inst("call", <<Got(1)>>)>>
<1>2. x \in Vars
  BY <1>1 DEF WellFormed
<1>3. Got(1) \in OperandSet /\ <<Got(1)>> \in Seq(OperandSet) /\ v \in Word
  BY GotOne, OperandFacts DEF TranslateCallExpr
<1>4. run' \in Program
  <2>1. run \in Program
    BY DEF IInv, TypeOK
  <2> QED BY <1>2, <1>3, <2>1 DEF TranslateCallExpr, Called, Program
<1>5. is \in Seq(InstSet) /\ \A k \in DOMAIN is : WellTyped(is[k])
  BY <1>3, PlainInst
<1>6. Return(Tmp(32, v), is) /\ phase' = "lower"
  BY <1>1 DEF TranslateCallExpr, Lowering
<1>7. Tmp(32, v) \in OperandSet
  BY <1>3, OperandFacts
<1> HIDE DEF is
<1> QED BY <1>1, <1>4, <1>5, <1>6, <1>7, CallReturns

LEMMA CondDecidedInv ==
  ASSUME IInv, CondDecided
  PROVE  IInv'
<1>1. Lowering /\ Frm.node # 0
  BY ReadyForNode DEF CondDecided, NodeKinds
<1>2. Return(ImmI1(nodes[Frm.node].op = "or"), <<>>) /\ run' = run /\ phase' = "lower"
  BY <1>1 DEF CondDecided, Lowering
<1>3. ImmI1(nodes[Frm.node].op = "or") \in OperandSet /\ run \in Program
  BY OperandFacts DEF IInv, TypeOK
<1> QED BY <1>1, <1>2, <1>3, NoInst, CallReturns

LEMMA TypesOfInst ==
  ASSUME NEW i \in InstNames, NEW os \in Seq(OperandSet)
  PROVE  /\ Inst(i, os) \in InstSet /\ Inst(i, os).inst = i
         /\ Inst(i, os).types \in Seq({1, 32}) /\ Len(Inst(i, os).types) = Len(os)
         /\ \A k \in 1 .. Len(os) : Inst(i, os).types[k] = os[k].width
BY InstFacts DEF OperandSet

(* An operand that has been extended, and the instruction that does it.    *)
LEMMA ExtensionFacts ==
  ASSUME NEW k, Got(k) \in OperandSet
  PROVE  /\ Extended(k) \in OperandSet /\ Extended(k).width = 32
         /\ Zext(k) \in Seq(InstSet)
         /\ \A j \in DOMAIN Zext(k) : WellTyped(Zext(k)[j])
<1> DEFINE z == Inst("zext", <<Got(k)>>)
<1>1. Got(k).val \in Word /\ Got(k).width \in {1, 32}
  BY OperandFacts
<1>2. Extended(k) \in OperandSet /\ Extended(k).width = 32
  BY <1>1, OperandFacts DEF Extended, Tmp
<1>3. ASSUME Got(k).width = 1
      PROVE  z \in InstSet /\ WellTyped(z)
  <2> DEFINE os == <<Got(k)>>
  <2>1. os \in Seq(OperandSet) /\ Len(os) = 1 /\ os[1] = Got(k)
    OBVIOUS
  <2> HIDE DEF os
  <2>2. z = Inst("zext", os) /\ "zext" \in InstNames
    BY DEF os, InstNames
  <2> HIDE DEF z
  <2>3. /\ z \in InstSet /\ z.inst = "zext" /\ z.types \in Seq({1, 32})
        /\ Len(z.types) = 1 /\ \A j \in 1 .. 1 : z.types[j] = os[j].width
    BY <2>1, <2>2, TypesOfInst
  <2>4. z.types[1] = 1
    BY <1>3, <2>1, <2>3
  <2>5. z.types = <<1>>
    BY <2>3, <2>4
  <2> QED BY <2>3, <2>5 DEF WellTyped, ArithOps
<1>4. CASE Got(k).width = 1
  BY <1>2, <1>3, <1>4, OneInst DEF Zext
<1>5. CASE Got(k).width # 1
  BY <1>2, <1>5, NoInst DEF Zext
<1> QED BY <1>4, <1>5

(* Arithmetic on two i32, and a comparison of two operands of one type.    *)
LEMMA PairInst ==
  ASSUME NEW i \in ArithOps \cup {"icmp"}, NEW o \in OperandSet, NEW p \in OperandSet,
         o.width = p.width, i \in ArithOps => o.width = 32
  PROVE  /\ <<Inst(i, <<o, p>>)>> \in Seq(InstSet)
         /\ \A k \in DOMAIN <<Inst(i, <<o, p>>)>> : WellTyped(<<Inst(i, <<o, p>>)>>[k])
<1> DEFINE x == Inst(i, <<o, p>>)
<1> DEFINE os == <<o, p>>
<1>1. os \in Seq(OperandSet) /\ Len(os) = 2 /\ os[1] = o /\ os[2] = p
  OBVIOUS
<1>2. i \in InstNames /\ i \notin {"zext", "br"}
  BY DEF InstNames, ArithOps
<1>3. x = Inst(i, os)
  OBVIOUS
<1> HIDE DEF x, os
<1>4. /\ x \in InstSet /\ x.inst = i /\ x.types \in Seq({1, 32}) /\ Len(x.types) = 2
      /\ \A k \in 1 .. 2 : x.types[k] = os[k].width
  BY <1>1, <1>2, <1>3, TypesOfInst
<1>5. x.types[1] = o.width /\ x.types[2] = p.width
  BY <1>1, <1>4
<1>6. i \in ArithOps => x.types = <<32, 32>>
  BY <1>4, <1>5
<1>7. WellTyped(x)
  BY <1>2, <1>4, <1>5, <1>6 DEF WellTyped
<1>8. <<x>> \in Seq(InstSet) /\ \A k \in DOMAIN <<x>> : WellTyped(<<x>>[k])
  BY <1>4, <1>7, OneInst
<1> QED BY <1>8 DEF x

LEMMA TranslateBinaryOperatorInv ==
  ASSUME IInv, TranslateBinaryOperator
  PROVE  IInv'
<1> DEFINE op == nodes[Frm.node].op
           o == Extended(1)
           p == Extended(2)
           traps == Undefined(op, o.val, p.val)
           name == IF op \in ArithOps THEN op ELSE "icmp"
           v == IF traps THEN 0 ELSE Int32(op, o.val, p.val)
           t == Tmp(IF op \in ArithOps THEN 32 ELSE 1, v)
           last == <<Inst(name, <<o, p>>)>>
           is == Zext(1) \o Zext(2) \o last
<1>1. /\ Lowering /\ Frm.node # 0 /\ nodes[Frm.node].kind = "binary"
      /\ WellFormed(nodes[Frm.node]) /\ Args(Frm.node) = nodes[Frm.node].args
      /\ Len(Frm.got) = Len(Args(Frm.node)) /\ Frm.got \in Seq(OperandSet)
  BY ReadyForNode DEF TranslateBinaryOperator, NodeKinds, Fetches
<1>2. Got(1) \in OperandSet /\ Got(2) \in OperandSet
  <2>1. Len(Frm.got) = 2
    BY <1>1 DEF WellFormed
  <2> HIDE DEF OperandSet
  <2> QED BY <1>1, <2>1 DEF Got
<1>3. /\ o \in OperandSet /\ o.width = 32 /\ p \in OperandSet /\ p.width = 32
      /\ Zext(1) \in Seq(InstSet) /\ (\A j \in DOMAIN Zext(1) : WellTyped(Zext(1)[j]))
      /\ Zext(2) \in Seq(InstSet) /\ (\A j \in DOMAIN Zext(2) : WellTyped(Zext(2)[j]))
  BY <1>2, ExtensionFacts
<1>4. v \in Word
  <2>1. o.val \in Word /\ p.val \in Word
    BY <1>3, OperandFacts
  <2> HIDE DEF o, p
  <2>2. ~traps => Int32(op, o.val, p.val) \in Word
    BY <2>1, Int32IsWord
  <2> QED BY <2>2, Words
<1>5. t \in OperandSet
  BY <1>4, OperandFacts
<1>6. /\ last \in Seq(InstSet)
      /\ \A j \in DOMAIN last : WellTyped(last[j])
  <2> HIDE DEF o, p
  <2>1. name \in ArithOps \cup {"icmp"}
    OBVIOUS
  <2> HIDE DEF name
  <2> QED BY <1>3, <2>1, PairInst
<1>7. Return(t, is) /\ run' = run
  BY DEF TranslateBinaryOperator
<1>8. phase' \in {"lower", "trapped"}
  <2>1. \A k \in 1 .. 2 : <<o, p>>[k].width = 32
    BY <1>3
  <2> QED BY <1>1, <2>1 DEF TranslateBinaryOperator, Lowering
<1> HIDE DEF last, t
<1>9. /\ is \in Seq(InstSet)
      /\ \A j \in DOMAIN is : WellTyped(is[j])
  <2>1. /\ Zext(1) \o Zext(2) \in Seq(InstSet)
        /\ \A j \in DOMAIN (Zext(1) \o Zext(2)) : WellTyped((Zext(1) \o Zext(2))[j])
    BY <1>3, MoreInsts
  <2> QED BY <1>6, <2>1, MoreInsts
<1>10. run' \in Program
  BY <1>7 DEF IInv, TypeOK
<1> HIDE DEF is
<1> QED BY <1>1, <1>5, <1>7, <1>8, <1>9, <1>10, CallReturns

LEMMA TranslateUnaryOperatorInv ==
  ASSUME IInv, TranslateUnaryOperator
  PROVE  IInv'
<1> DEFINE op == nodes[Frm.node].op
           o == Got(1)
           zero == Tmp(o.width, 0)
           neg == <<Inst("sub", <<Imm(0), Extended(1)>>)>>
           cmp == <<Inst("icmp", <<o, zero>>)>>
           neg2 == Zext(1) \o neg
<1>1. Lowering /\ Frm.node # 0
  BY ReadyForNode DEF TranslateUnaryOperator, NodeKinds
<1>2. o \in OperandSet /\ o.val \in Word /\ o.width \in {1, 32} /\ o.val \in Int
  BY GotOne, OperandFacts, Words DEF TranslateUnaryOperator
<1>3. /\ Extended(1) \in OperandSet /\ Extended(1).width = 32
      /\ Zext(1) \in Seq(InstSet) /\ (\A j \in DOMAIN Zext(1) : WellTyped(Zext(1)[j]))
  BY <1>2, ExtensionFacts
<1>4. Imm(0) \in OperandSet /\ Imm(0).width = 32 /\ zero \in OperandSet /\ zero.width = o.width
  BY <1>2, Words, OperandFacts DEF Imm, Tmp
<1>5. Tmp(32, Wrap(-o.val)) \in OperandSet /\ Tmp(1, Truth(o.val = 0)) \in OperandSet
  BY <1>2, WrapIsWord, TruthIsWord, OperandFacts
<1>6. neg \in Seq(InstSet) /\ \A j \in DOMAIN neg : WellTyped(neg[j])
  BY <1>3, <1>4, PairInst DEF ArithOps
<1> HIDE DEF zero, o
<1>7. cmp \in Seq(InstSet) /\ \A j \in DOMAIN cmp : WellTyped(cmp[j])
  <2>1. "icmp" \notin ArithOps
    BY DEF ArithOps
  <2> QED BY <1>2, <1>4, <2>1, PairInst
<1> HIDE DEF neg, cmp
<1>8. neg2 \in Seq(InstSet) /\ \A j \in DOMAIN neg2 : WellTyped(neg2[j])
  BY <1>3, <1>6, MoreInsts
<1>9. run' \in Program /\ phase' = "lower"
  BY <1>1 DEF TranslateUnaryOperator, Lowering, IInv, TypeOK
<1> HIDE DEF neg2
<1>10. \/ Return(o, <<>>)
       \/ Return(Tmp(32, Wrap(-o.val)), neg2)
       \/ Return(Tmp(1, Truth(o.val = 0)), cmp)
  BY Zenon DEF TranslateUnaryOperator, neg, neg2, cmp, zero, o
<1>11. ASSUME NEW t \in OperandSet, NEW is \in Seq(InstSet), Return(t, is),
              \A j \in DOMAIN is : WellTyped(is[j])
       PROVE  IInv'
  BY <1>1, <1>9, <1>11, CallReturns
<1> QED BY <1>2, <1>5, <1>7, <1>8, <1>10, <1>11, NoInst

-----------------------------------------------------------------------------
(* The statements.                                                         *)

LEMMA TranslateAssignOperatorInv ==
  ASSUME IInv, TranslateAssignOperator
  PROVE  IInv'
<1> DEFINE v == Got(1).val
           is == <<Inst("store", <<Got(1)>>)>>
<1>1. Lowering /\ Got(1) \in OperandSet /\ v \in Word
  BY ReadyForStatement, OperandFacts DEF TranslateAssignOperator
<1>2. <<Got(1)>> \in Seq(OperandSet)
  <2> HIDE DEF OperandSet
  <2> QED BY <1>1
<1>3. is \in Seq(InstSet) /\ \A j \in DOMAIN is : WellTyped(is[j])
  BY <1>2, PlainInst
<1>4. run' \in Program
  <2>1. run \in Program
    BY DEF IInv, TypeOK
  <2> QED BY <1>1, <2>1 DEF TranslateAssignOperator, Stored, Program
<1>5. code' = code \o is
  <2>1. code \in Seq(InstSet) /\ Inst("store", <<Got(1)>>) \in InstSet
    BY <1>3 DEF IInv, TypeOK
  <2> HIDE DEF InstSet
  <2> QED BY <2>1 DEF TranslateAssignOperator
<1>6. Finish(v) /\ phase' = "done"
  BY DEF TranslateAssignOperator
<1> HIDE DEF v, is
<1> QED BY <1>1, <1>3, <1>4, <1>5, <1>6, StatementEnds

LEMMA TranslateReturnStmtInv ==
  ASSUME IInv, TranslateReturnStmt
  PROVE  IInv'
<1> DEFINE v == Got(1).val
           is == <<Inst("ret", <<Got(1)>>)>>
<1>1. Lowering /\ context = "return" /\ Got(1) \in OperandSet /\ v \in Word
  BY ReadyForStatement, OperandFacts DEF TranslateReturnStmt
<1>2. <<Got(1)>> \in Seq(OperandSet)
  <2> HIDE DEF OperandSet
  <2> QED BY <1>1
<1>3. is \in Seq(InstSet) /\ \A j \in DOMAIN is : WellTyped(is[j])
  BY <1>2, PlainInst
<1>4. run' \in Program
  BY DEF IInv, TypeOK, TranslateReturnStmt
<1>5. code' = code \o is
  <2>1. code \in Seq(InstSet) /\ Inst("ret", <<Got(1)>>) \in InstSet
    BY <1>3 DEF IInv, TypeOK
  <2> HIDE DEF InstSet
  <2> QED BY <2>1 DEF TranslateReturnStmt
<1>6. Finish(v) /\ phase' \in {"done", "thrown"}
  BY DEF TranslateReturnStmt
<1> HIDE DEF v, is
<1> QED BY <1>1, <1>3, <1>4, <1>5, <1>6, StatementEnds

(* A branch on an i1.                                                      *)
LEMMA BranchInst ==
  ASSUME NEW o \in OperandSet, o.width = 1
  PROVE  /\ <<Inst("br", <<o>>)>> \in Seq(InstSet)
         /\ \A k \in DOMAIN <<Inst("br", <<o>>)>> : WellTyped(<<Inst("br", <<o>>)>>[k])
<1> DEFINE os == <<o>>
           x == Inst("br", <<o>>)
<1>1. os \in Seq(OperandSet) /\ Len(os) = 1 /\ os[1] = o
  OBVIOUS
<1>2. x = Inst("br", os) /\ "br" \in InstNames
  BY DEF InstNames
<1> HIDE DEF x, os
<1>3. /\ x \in InstSet /\ x.inst = "br" /\ x.types \in Seq({1, 32}) /\ Len(x.types) = 1
      /\ \A k \in 1 .. 1 : x.types[k] = os[k].width
  BY <1>1, <1>2, TypesOfInst
<1>4. x.types[1] = 1
  BY <1>1, <1>3
<1>5. x.types = <<1>>
  BY <1>3, <1>4
<1>6. WellTyped(x)
  BY <1>3, <1>5 DEF WellTyped, ArithOps
<1>7. <<x>> \in Seq(InstSet) /\ \A k \in DOMAIN <<x>> : WellTyped(<<x>>[k])
  BY <1>3, <1>6, OneInst
<1> QED BY <1>7 DEF x

LEMMA TranslateIfStmtInv ==
  ASSUME IInv, TranslateIfStmt
  PROVE  IInv'
<1> DEFINE o == Got(1)
           v == Got(1).val
           cmp == <<Inst("icmp", <<o, Imm(0)>>)>>
           brI32 == <<Inst("br", <<Tmp(1, 0)>>)>>
           two == <<Inst("icmp", <<o, Imm(0)>>), Inst("br", <<Tmp(1, 0)>>)>>
           brI1 == <<Inst("br", <<o>>)>>
<1>1. Lowering /\ o \in OperandSet /\ v \in Word /\ o.width \in {1, 32}
  BY ReadyForStatement, OperandFacts DEF TranslateIfStmt
<1>2. Imm(0) \in OperandSet /\ Imm(0).width = 32
      /\ Tmp(1, 0) \in OperandSet /\ Tmp(1, 0).width = 1
  BY Words, OperandFacts DEF Imm, Tmp
<1>3. two = cmp \o brI32
  OBVIOUS
<1>4. brI32 \in Seq(InstSet) /\ \A j \in DOMAIN brI32 : WellTyped(brI32[j])
  BY <1>2, BranchInst
<1>5. run' \in Program /\ Finish(v) /\ phase' = "done" /\ code \in Seq(InstSet)
  BY DEF TranslateIfStmt, IInv, TypeOK
<1>6. /\ IsConst(Root) => code' = code
      /\ ~IsConst(Root) /\ o.width = 32 => code' = code \o two
      /\ ~IsConst(Root) /\ o.width # 32 => code' = Append(code, Inst("br", <<o>>))
  BY Zenon DEF TranslateIfStmt
<1>7. CASE IsConst(Root)
  <2>1. code' = code \o <<>>
    <3> HIDE DEF InstSet
    <3> QED BY <1>5, <1>6, <1>7
  <2> QED BY <1>1, <1>5, <2>1, NoInst, StatementEnds
<1>8. CASE ~IsConst(Root) /\ o.width = 32
  <2>1. cmp \in Seq(InstSet) /\ \A j \in DOMAIN cmp : WellTyped(cmp[j])
    <3>1. "icmp" \notin ArithOps
      BY DEF ArithOps
    <3> HIDE DEF o
    <3> QED BY <1>1, <1>2, <1>8, <3>1, PairInst
  <2> HIDE DEF cmp, brI32, two
  <2>2. two \in Seq(InstSet) /\ \A j \in DOMAIN two : WellTyped(two[j])
    BY <1>3, <1>4, <2>1, MoreInsts
  <2> QED BY <1>1, <1>5, <1>6, <1>8, <2>2, StatementEnds
<1>9. CASE ~IsConst(Root) /\ o.width # 32
  <2>1. brI1 \in Seq(InstSet) /\ \A j \in DOMAIN brI1 : WellTyped(brI1[j])
    <3>1. o.width = 1
      BY <1>1, <1>9
    <3> HIDE DEF o
    <3> QED BY <1>1, <3>1, BranchInst
  <2>2. code' = code \o brI1
    <3> DEFINE b == Inst("br", <<o>>)
    <3>1. b \in InstSet
      BY <2>1
    <3>2. code' = Append(code, b) /\ brI1 = <<b>>
      BY <1>6, <1>9
    <3> HIDE DEF InstSet, b, brI1
    <3> QED BY <1>5, <3>1, <3>2
  <2> HIDE DEF brI1
  <2> QED BY <1>1, <1>5, <2>1, <2>2, StatementEnds
<1> QED BY <1>7, <1>8, <1>9

LEMMA ExprStmtInv ==
  ASSUME IInv, ExprStmt
  PROVE  IInv'
<1>1. Lowering /\ Finish(0) /\ phase' = "done" /\ 0 \in Word /\ run' \in Program
  BY Words DEF ExprStmt, Ready, IInv, TypeOK
<1>2. code' = code \o <<>>
  <2>1. code \in Seq(InstSet) /\ code' = code
    BY DEF ExprStmt, IInv, TypeOK
  <2> HIDE DEF InstSet
  <2> QED BY <2>1
<1> QED BY <1>1, <1>2, NoInst, StatementEnds

LEMMA NextInv == IInv /\ [Next]_vars => IInv'
<1> SUFFICES ASSUME IInv, [Next]_vars
             PROVE  IInv'
  OBVIOUS
<1>1. CASE Parse
  BY <1>1, IntegerLiteralBuilds, VarRefBuilds, ConstRefBuilds, ElementRefBuilds,
     CallBuilds, UnaryBuilds, BinaryBuilds, LogicLeftInv, LogicRightBuilds,
     ConstDeclInv DEF Parse
<1>2. CASE Lower
  BY <1>2, BeginInv, FetchConstInv, FetchExprInv, ParenExprInv, LoadVarInv,
     LoadElementInv, TranslateCallExprInv, TranslateBinaryOperatorInv,
     CondDecidedInv, CondPassInv, TranslateUnaryOperatorInv,
     TranslateAssignOperatorInv, TranslateReturnStmtInv, TranslateIfStmtInv,
     CallStmtInv, ExprStmtInv DEF Lower
<1>3. CASE Stopped
  BY <1>3, StutterInv DEF Stopped
<1>4. CASE UNCHANGED vars
  BY <1>4, StutterInv
<1> QED BY <1>1, <1>2, <1>3, <1>4 DEF Next

-----------------------------------------------------------------------------
(* The code follows the source.                                            *)

(* What the lowering reads of the tree does not change.                    *)
LEMMA RawStays ==
  ASSUME nodes' = nodes, stack' = stack
  PROVE  Raw' = Raw
BY DEF Raw, Args, Root, Decided, DecidesConst, IsConst, Val

LEMMA RegularStays ==
  ASSUME nodes' = nodes, stack' = stack, context' = context
  PROVE  Regular' <=> Regular
<1>1. Raw' = Raw
  BY RawStays
<1>2. TruthSuffices' <=> TruthSuffices
  BY <1>1 DEF TruthSuffices, Args, Root
<1>3. NoLateDecision' <=> NoLateDecision
  BY DEF NoLateDecision, Args, Root, DecidesConst, IsConst, Val
<1>4. Pure' <=> Pure
  BY DEF Pure
<1> QED BY <1>2, <1>3, <1>4 DEF Regular, Root

(* The recursive definition of Raw has a solution, and Raw is one.         *)
LEMMA RawUnfold ==
  ASSUME IInv, NEW R, RawSet(nodes, R),
         NEW W, NEW D, NEW K, NEW L, Recorded(nodes, meant, W, D, K, L),
         NEW n \in DOMAIN nodes
  PROVE  IsRaw(n) <=>
           \/ nodes[n].kind = "logic" /\ ~IsConst(n) /\ ~Decided(n)
           \/ nodes[n].op \in {"plus", "paren"} /\ IsRaw(nodes[n].args[1])
<1> DEFINE Body(f, i) == \/ nodes[i].kind = "logic" /\ ~IsConst(i) /\ ~Decided(i)
                         \/ nodes[i].op \in {"plus", "paren"} /\ f[Args(i)[1]]
           f0 == [i \in DOMAIN nodes |-> i \in R]
<1>1. \A i \in DOMAIN nodes : i # 0 /\ Args(i) = nodes[i].args
  BY NodeFacts DEF IInv, Args
<1>2. ASSUME NEW i \in DOMAIN nodes PROVE i \in R <=> Body(f0, i)
  <2>1. DOMAIN nodes = 1 .. Len(nodes) /\ i \in Nat /\ nodes[i] \in NodeSet
        /\ Len(nodes) \in Nat
    BY NodeFacts DEF IInv, TypeOK
  <2>2. Laid(nodes, L, i)
    BY <2>1 DEF Recorded, NodeRecorded
  <2>3. nodes[i].op \in {"plus", "paren"} => nodes[i].args[1] \in 1 .. i - 1
    BY <2>1, <2>2, PlusOnOne
  <2>4. 1 .. i - 1 \subseteq DOMAIN nodes
    BY <2>1
  <2>5. nodes[i].op \in {"plus", "paren"} =>
          (f0[nodes[i].args[1]] <=> nodes[i].args[1] \in R)
    BY <2>3, <2>4
  <2>6. i \in R <=> RawNode(nodes, R, i)
    BY <2>1 DEF RawSet
  <2> HIDE DEF f0
  <2> QED BY <1>1, <2>5, <2>6 DEF RawNode, Decided, DecidesConst, IsConst, Val
<1>3. f0 = [i \in DOMAIN nodes |-> Body(f0, i)]
  <2> DEFINE B(i) == Body(f0, i)
  <2> HIDE DEF f0
  <2>1. ASSUME NEW i \in DOMAIN nodes PROVE (i \in R) = B(i)
    <3>1. B(i) \in BOOLEAN /\ (i \in R) \in BOOLEAN
      OBVIOUS
    <3>2. i \in R <=> B(i)
      BY <1>2
    <3> HIDE DEF B
    <3> QED BY <3>1, <3>2
  <2> HIDE DEF B
  <2>2. f0 = [i \in DOMAIN nodes |-> B(i)]
    BY <2>1 DEF f0
  <2> QED BY <2>2 DEF B
<1>4. Raw = CHOOSE f : f = [i \in DOMAIN nodes |-> Body(f, i)]
  BY DEF Raw
<1> HIDE DEF Body, f0
<1>5. Raw = [i \in DOMAIN nodes |-> Body(Raw, i)]
  BY <1>3, <1>4
<1>6. Raw[n] = Body(Raw, n)
  BY <1>5
<1> QED BY <1>1, <1>6 DEF Body, IsRaw

-----------------------------------------------------------------------------
(* The lowering of an expression whose code does what the source says.     *)
Following(W, D, K, L) ==
  /\ IInv /\ Lowering /\ Regular
  /\ Remembered(W, D, K, L) /\ Follows(frames, run, W, D, K, L)
  /\ \E R : RawSet(nodes, R)

(* What follows reads of the state is unchanged by the lowering.           *)
LEMMA FollowsNext ==
  ASSUME NEW W, NEW D, NEW K, NEW L, UNCHANGED <<ast, context>>,
         Follows(frames', run', W, D, K, L)
  PROVE  Follows(frames, run, W, D, K, L)'
<1>1. /\ nodes' = nodes /\ stack' = stack /\ meant' = meant /\ context' = context
      /\ Raw' = Raw
  BY RawStays DEF ast
<1>2. (\A i \in 1 .. Len(frames) : FrameFollows(frames[i], K))'
  BY <1>1 DEF Follows, FrameFollows, Match, IsRaw, Args, Kind, Root
<1>3. (\A i \in 1 .. Len(frames) - 1 : Asks(frames[i], frames[i + 1], W, D, K, L))'
  <2> SUFFICES ASSUME NEW i \in 1 .. Len(frames') - 1
               PROVE  Asks(frames[i], frames[i + 1], W, D, K, L)'
    OBVIOUS
  <2> DEFINE f == frames'[i]
             d == frames'[i + 1].node
             c == Args(f.node)[Len(f.got) + 1]
  <2>1. Asks(frames'[i], frames'[i + 1], W, D, K, L)
    BY DEF Follows
  <2>2. /\ Len(f.got) < Len(Args(f.node)) /\ Kind(f.node) \notin {"logic", "paren"}
        /\ d \in 1 .. Len(nodes) /\ d \notin K /\ ~IsConst(d)
        /\ W[L[d] - 1] = W[L[c] - 1] /\ (L[d] - 1 \in D <=> L[c] - 1 \in D)
        /\ W[d] = W[c] /\ (d \in D <=> c \in D)
        /\ d \notin D => \A v \in Word : Match(v, d) => Match(v, c)
    BY <2>1 DEF Asks, StandsFor
  <2>3. /\ (Args(frames[i].node))' = Args(f.node)
        /\ (Kind(frames[i].node))' = Kind(f.node)
        /\ (IsConst(frames[i + 1].node))' = IsConst(d)
    BY <1>1 DEF Args, Kind, Root, IsConst
  <2>4. \A v \in Word :
          /\ Match(v, frames[i + 1].node)' <=> Match(v, d)
          /\ Match(v, Args(frames[i].node)[Len(frames[i].got) + 1])' <=> Match(v, c)
    BY <1>1, <2>3 DEF Match, IsRaw
  <2> QED BY <1>1, <2>2, <2>3, <2>4 DEF Asks, StandsFor
<1>4. (run = W[Position(frames[Len(frames)], L)] /\ Position(frames[Len(frames)], L) \notin D)'
  BY <1>1 DEF Follows, Position, First, Args, Root
<1> QED BY <1>2, <1>3, <1>4 DEF Follows

(* The record is about the tree, which the lowering leaves alone.          *)
LEMMA RecordStays ==
  ASSUME NEW W, NEW D, NEW K, NEW L, Remembered(W, D, K, L), NEW R, RawSet(nodes, R),
         Lowering, UNCHANGED <<ast, context>>, phase' \notin {"parse", "crashed"}
  PROVE  Remembered(W, D, K, L)' /\ RawSet(nodes, R)'
<1>1. UNCHANGED <<nodes, stack, meant, source, srcTrap, context>>
  BY DEF ast
<1> QED BY <1>1 DEF Remembered, Lowering, Root

(* A node of the tree.                                                     *)
LEMMA TreeKnown ==
  ASSUME NEW W, NEW D, NEW K, NEW L, Following(W, D, K, L)
  PROVE  /\ Len(nodes) \in Nat /\ DOMAIN nodes = 1 .. Len(nodes)
         /\ Root = Len(nodes) /\ Root \in 1 .. Len(nodes) /\ Root \notin K
         /\ srcTrap <=> Len(nodes) \in D
         /\ source = IF context = "assign" /\ ~srcTrap
                     THEN Stored(W[Len(nodes)], Target, meant[Root]) ELSE W[Len(nodes)]
<1>1. Len(nodes) \in Nat /\ DOMAIN nodes = 1 .. Len(nodes)
  BY DEF Following, IInv, TypeOK
<1> QED BY <1>1, RootFacts DEF Following, Remembered, Lowering

LEMMA NodeKnown ==
  ASSUME NEW W, NEW D, NEW K, NEW L, Following(W, D, K, L), NEW n \in 1 .. Len(nodes)
  PROVE  /\ Laid(nodes, L, n) /\ Skips(nodes, meant, K, n)
         /\ DoesAt(nodes, meant, W, D, K, n)
         /\ L[n] \in 1 .. n /\ n \in Nat /\ n # 0 /\ n \in DOMAIN nodes
         /\ WellFormed(nodes[n]) /\ nodes[n] \in NodeSet /\ Args(n) = nodes[n].args
         /\ n \in K \/ IsConst(n) => W[n] = W[L[n] - 1] /\ (n \in D <=> L[n] - 1 \in D)
         /\ n \notin K /\ n \notin D =>
              meant[n] \in Word /\ (IsConst(n) => Val(n) = meant[n])
<1>1. /\ Recorded(nodes, meant, W, D, K, L) /\ IInv /\ n \in DOMAIN nodes
  BY TreeKnown DEF Following, Remembered
<1>2. NodeRecorded(nodes, meant, W, D, K, L, n)
  BY <1>1 DEF Recorded
<1>3. /\ nodes[n] \in NodeSet /\ n # 0 /\ n \in Nat
      /\ meant[n] \in Word \cup {Absent}
  BY <1>1, NodeFacts DEF IInv
<1>4. n \notin K /\ n \notin D => meant[n] # Absent
  BY <1>2 DEF NodeRecorded, DoesAt, Does
<1>5. IsConst(n) /\ meant[n] # Absent => Val(n) = meant[n]
  BY <1>1 DEF IInv, FoldingExact
<1>6. n \in K \/ IsConst(n) => W[n] = W[L[n] - 1] /\ (n \in D <=> L[n] - 1 \in D)
  BY <1>2 DEF NodeRecorded, Quiet, IsConst
<1>7. WellFormed(nodes[n])
  BY <1>1 DEF IInv, TreeOK
<1> QED BY <1>1, <1>2, <1>3, <1>4, <1>5, <1>6, <1>7 DEF NodeRecorded, Laid, Args

(* What is undefined stops the source, and a pure one does nothing.        *)
LEMMA SourceStops ==
  ASSUME NEW W, NEW D, NEW K, NEW L, Following(W, D, K, L),
         NEW i \in 0 .. Len(nodes), NEW j \in 0 .. Len(nodes)
  PROVE  /\ i <= j /\ i \in D => j \in D /\ W[j] = W[i]
         /\ Pure => W[i] = W[j] /\ i \notin D
<1>1. Recorded(nodes, meant, W, D, K, L) /\ DOMAIN nodes = 1 .. Len(nodes)
  BY TreeKnown DEF Following, Remembered
<1>2. i <= j /\ i \in D => j \in D /\ W[j] = W[i]
  BY <1>1 DEF Recorded
<1>3. Pure => IsPure(nodes)
  BY <1>1 DEF Pure, IsPure, PureNode
<1>4. Pure => W[i] = W[0] /\ W[j] = W[0] /\ i \notin D
  BY <1>1, <1>3 DEF Recorded
<1> QED BY <1>2, <1>4

(* The frame on top, and where the source is when its next operand begins. *)
LEMMA TopFollows ==
  ASSUME NEW W, NEW D, NEW K, NEW L, Following(W, D, K, L)
  PROVE  /\ Len(frames) \in Nat /\ Len(frames) \in 1 .. Len(frames)
         /\ FrameFollows(Frm, K) /\ Frm.node \in {0} \cup 1 .. Len(nodes)
         /\ run = W[Position(Frm, L)] /\ Position(Frm, L) \notin D
         /\ Frm.node # 0 =>
              /\ Frm.node \in 1 .. Len(nodes) /\ Frm.node \notin K
              /\ Len(frames) - 1 \in 1 .. Len(frames) - 1
              /\ Asks(Caller, Frm, W, D, K, L)
<1>1. /\ IInv /\ Lowering /\ Follows(frames, run, W, D, K, L)
      /\ DOMAIN nodes = 1 .. Len(nodes)
  BY TreeKnown DEF Following
<1>2. /\ Len(frames) \in Nat \ {0} /\ Frm.node \in {0} \cup DOMAIN nodes
      /\ Frm.node # 0 => Len(frames) >= 2
  BY <1>1, FrameFacts
<1>3. Len(frames) \in 1 .. Len(frames) /\ Frm = frames[Len(frames)]
  BY <1>2 DEF Frm
<1>4. FrameFollows(Frm, K) /\ run = W[Position(Frm, L)] /\ Position(Frm, L) \notin D
  BY <1>1, <1>3 DEF Follows, Frm
<1>5. ASSUME Frm.node # 0
      PROVE  /\ Frm.node \in 1 .. Len(nodes) /\ Frm.node \notin K
             /\ Len(frames) - 1 \in 1 .. Len(frames) - 1
             /\ Asks(Caller, Frm, W, D, K, L)
  <2>1. Len(frames) - 1 \in 1 .. Len(frames) - 1 /\ (Len(frames) - 1) + 1 = Len(frames)
    BY <1>2, <1>5
  <2>2. Asks(Caller, Frm, W, D, K, L)
    BY <1>1, <2>1 DEF Follows, Frm, Caller
  <2> QED BY <1>1, <1>2, <1>4, <1>5, <2>1, <2>2 DEF FrameFollows
<1> QED BY <1>1, <1>2, <1>3, <1>4, <1>5

(* The operands of a node: where they begin, and whether they are alive.   *)
LEMMA OperandBegins ==
  ASSUME NEW W, NEW D, NEW K, NEW L, Following(W, D, K, L),
         NEW f, f.node \in {0} \cup 1 .. Len(nodes), f.got \in Seq(OperandSet),
         FrameFollows(f, K), Len(f.got) < Len(Args(f.node))
  PROVE  LET c == Args(f.node)[Len(f.got) + 1] IN
         /\ c \in 1 .. Len(nodes) /\ Position(f, L) = L[c] - 1
         /\ Kind(f.node) # "logic" => c \notin K
<1> DEFINE c == Args(f.node)[Len(f.got) + 1]
           n == f.node
<1>1. /\ Len(nodes) \in Nat /\ Root \in 1 .. Len(nodes) /\ Root \notin K
      /\ Args(0) = <<Root>>
  BY TreeKnown, RootFacts DEF Following
<1>2. Len(f.got) \in Nat /\ (f.got = <<>> <=> Len(f.got) = 0)
  OBVIOUS
<1>3. CASE n = 0
  <2>1. Len(Args(n)) = 1 /\ Args(n)[1] = Root
    BY <1>1, <1>3, OneOf
  <2>2. f.got = <<>> /\ Len(f.got) + 1 = 1
    BY <1>2, <2>1
  <2> QED BY <1>1, <1>3, <2>1, <2>2 DEF Position, First
<1>4. CASE n # 0
  <2>1. n \in 1 .. Len(nodes) /\ n \notin K
    BY <1>4 DEF FrameFollows
  <2>2. /\ Laid(nodes, L, n) /\ Skips(nodes, meant, K, n) /\ Args(n) = nodes[n].args
        /\ nodes[n] \in NodeSet /\ n \in Nat
    BY <2>1, NodeKnown
  <2>3. nodes[n].kind \in Leaves \cup OnOne \cup OnTwo
    BY <2>2 DEF NodeSet, Leaves, OnOne, OnTwo
  <2>4. nodes[n].kind \notin Leaves
    BY <1>2, <2>2 DEF Laid
  <2>5. Kind(n) = nodes[n].kind /\ First(n, L) = L[n] - 1
    BY <1>4 DEF Kind, First
  <2>6. CASE nodes[n].kind \in OnOne
    <3>1. /\ Len(Args(n)) = 1 /\ Args(n)[1] \in 1 .. Len(nodes) /\ L[n] = L[Args(n)[1]]
      BY <1>1, <2>1, <2>2, <2>6 DEF Laid
    <3>2. f.got = <<>> /\ Len(f.got) + 1 = 1
      BY <1>2, <3>1
    <3>3. Args(n)[1] \notin K
      BY <2>1, <2>2, <2>6 DEF Skips
    <3> QED BY <2>5, <3>1, <3>2, <3>3 DEF Position
  <2>7. CASE nodes[n].kind \in OnTwo
    <3>1. /\ Len(Args(n)) = 2 /\ Args(n)[1] \in 1 .. Len(nodes) /\ L[n] = L[Args(n)[1]]
          /\ Args(n)[2] \in 1 .. Len(nodes) /\ L[Args(n)[2]] = Args(n)[1] + 1
          /\ Args(n)[1] \in Nat
      <4>1. /\ Len(nodes[n].args) = 2
            /\ nodes[n].args[1] \in 1 .. n - 1 /\ nodes[n].args[2] \in 1 .. n - 1
            /\ L[nodes[n].args[2]] = nodes[n].args[1] + 1
            /\ L[n] = L[nodes[n].args[1]]
        BY Zenon, <2>2, <2>7 DEF Laid
      <4>2. \A i \in 1 .. n - 1 : i \in 1 .. Len(nodes) /\ i \in Nat
        BY <1>1, <2>1, <2>2
      <4> QED BY Zenon, <2>2, <4>1, <4>2
    <3>2. Args(n)[1] \notin K /\ (nodes[n].kind # "logic" => Args(n)[2] \notin K)
      BY <2>1, <2>2, <2>7 DEF Skips, OnTwo
    <3>3. CASE Len(f.got) = 0
      BY <1>2, <2>5, <3>1, <3>2, <3>3 DEF Position
    <3>4. CASE Len(f.got) = 1
      <4>1. Position(f, L) = Args(n)[1]
        BY <1>2, <3>4 DEF Position
      <4>2. c = Args(n)[2]
        BY <3>4
      <4>3. Position(f, L) = L[c] - 1 /\ c \in 1 .. Len(nodes)
        BY <3>1, <4>1, <4>2
      <4> QED BY <2>5, <3>2, <4>2, <4>3
    <3>5. Len(f.got) = 0 \/ Len(f.got) = 1
      <4>1. Len(Args(n)) = 2 /\ Len(f.got) \in Nat
        BY <1>2, <3>1
      <4>2. Len(f.got) < 2
        BY <4>1
      <4>3. \A k \in Nat : k < 2 => k = 0 \/ k = 1
        OBVIOUS
      <4> QED BY Zenon, <4>1, <4>2, <4>3
    <3> QED BY <3>3, <3>4, <3>5
  <2> QED BY <2>3, <2>4, <2>6, <2>7
<1> QED BY <1>3, <1>4

(* A step of the lowering.                                                 *)
LEMMA LoweringKeeps ==
  ASSUME XInv, IInv', Lowering, UNCHANGED <<ast, context>>,
         phase' \notin {"parse", "crashed"},
         \A W, D, K, L : Following(W, D, K, L) =>
           /\ phase' = "lower" => Follows(frames', run', W, D, K, L)
           /\ phase' \in {"done", "trapped"} => LoweringExact'
  PROVE  XInv'
<1>1. PICK W, D, K, L : Remembered(W, D, K, L) /\ Lowered(W, D, K, L)
  BY DEF XInv
<1>2. PICK R : RawSet(nodes, R)
  BY DEF XInv
<1>3. Remembered(W, D, K, L)' /\ RawSet(nodes, R)'
  BY <1>1, <1>2, RecordStays
<1>4. Regular' <=> Regular
  BY RegularStays DEF ast
<1>5. Regular => Following(W, D, K, L)
  BY <1>1, <1>2 DEF Lowered, Following, XInv, Lowering
<1>6. Lowered(W, D, K, L)'
  <2>1. phase' = "lower" /\ Regular' => Follows(frames, run, W, D, K, L)'
    BY <1>4, <1>5, FollowsNext
  <2> QED BY <2>1 DEF Lowered
<1>7. LoweringExact'
  <2>1. CASE Regular
    BY <1>5, <2>1 DEF LoweringExact
  <2>2. CASE ~Regular
    BY <1>4, <2>2 DEF LoweringExact
  <2> QED BY <2>1, <2>2
<1> QED BY <1>3, <1>6, <1>7 DEF XInv

(* The frame on top is replaced by one that follows the source.            *)
LEMMA TopChanges ==
  ASSUME NEW W, NEW D, NEW K, NEW L, Following(W, D, K, L), NEW f,
         frames' = [frames EXCEPT ![Len(frames)] = f],
         FrameFollows(f, K), Frm.node # 0 => Asks(Caller, f, W, D, K, L),
         run' = W[Position(f, L)], Position(f, L) \notin D
  PROVE  Follows(frames', run', W, D, K, L)
<1>1. /\ Len(frames) \in Nat /\ Len(frames) \in 1 .. Len(frames)
      /\ Follows(frames, run, W, D, K, L)
      /\ Frm.node = 0 => Len(frames) = 1
      /\ frames \in Seq(FrameSet)
  BY TopFollows, FrameFacts DEF Following
<1> HIDE DEF FrameSet
<1>2. /\ Len(frames') = Len(frames)
      /\ \A i \in 1 .. Len(frames) : frames'[i] = IF i = Len(frames) THEN f ELSE frames[i]
  BY <1>1
<1>3. ASSUME NEW i \in 1 .. Len(frames') PROVE FrameFollows(frames'[i], K)
  BY <1>1, <1>2 DEF Follows
<1>4. ASSUME NEW i \in 1 .. Len(frames') - 1
      PROVE  Asks(frames'[i], frames'[i + 1], W, D, K, L)
  <2>a. \A N \in Nat : \A j \in 1 .. N - 1 :
          j \in 1 .. N /\ j + 1 \in 1 .. N /\ j # N /\ N # 1 /\ (j + 1 = N => N - 1 = j)
    OBVIOUS
  <2>b. i \in 1 .. Len(frames) - 1
    BY <1>2
  <2>1. /\ i \in 1 .. Len(frames) /\ i + 1 \in 1 .. Len(frames)
        /\ i # Len(frames) /\ Len(frames) # 1
        /\ i + 1 = Len(frames) => Len(frames) - 1 = i
    BY Zenon, <1>1, <2>a, <2>b
  <2>2. CASE i + 1 = Len(frames)
    <3>1. frames'[i] = frames[i] /\ frames'[i + 1] = f
      BY Zenon, <1>2, <2>1, <2>2
    <3>2. frames[i] = Caller
      BY Zenon, <2>1, <2>2 DEF Caller
    <3>3. Frm.node # 0
      BY Zenon, <1>1, <2>1
    <3> QED BY <3>1, <3>2, <3>3
  <2>3. CASE i + 1 # Len(frames)
    <3>1. frames'[i] = frames[i] /\ frames'[i + 1] = frames[i + 1]
      BY Zenon, <1>2, <2>1, <2>3
    <3>2. Asks(frames[i], frames[i + 1], W, D, K, L)
      BY Zenon, <1>1, <2>b DEF Follows
    <3> QED BY <3>1, <3>2
  <2> QED BY <2>2, <2>3
<1>5. frames'[Len(frames')] = f
  BY <1>1, <1>2
<1> QED BY <1>3, <1>4, <1>5 DEF Follows

(* A node is fetched by a call of its own.                                 *)
LEMMA PushFollows ==
  ASSUME NEW W, NEW D, NEW K, NEW L, Following(W, D, K, L),
         Len(Frm.got) < Len(Args(Frm.node)), Kind(Frm.node) \notin {"logic", "paren"},
         ~IsConst(Next1), frames' = Append(frames, Frame(Next1)), run' = run
  PROVE  Follows(frames', run', W, D, K, L)
<1> DEFINE c == Next1
           g == Frame(c)
<1>1. /\ Len(frames) \in Nat /\ Len(frames) \in 1 .. Len(frames)
      /\ Follows(frames, run, W, D, K, L) /\ FrameFollows(Frm, K)
      /\ run = W[Position(Frm, L)] /\ Position(Frm, L) \notin D
      /\ Frm.node \in {0} \cup 1 .. Len(nodes)
      /\ frames \in Seq(FrameSet) /\ Frm.got \in Seq(OperandSet)
  BY TopFollows, FrameFacts DEF Following
<1>2. c \in 1 .. Len(nodes) /\ Position(Frm, L) = L[c] - 1 /\ c \notin K
  BY <1>1, OperandBegins DEF Next1
<1>3. c # 0 /\ Args(c) \in Seq(DOMAIN nodes)
  BY <1>2, NodeKnown, ArgsKnown DEF Following
<1>4. Len(Args(c)) \in Nat
  BY <1>3
<1>5. /\ g.node = c /\ g.got = <<>> /\ Len(g.got) = 0
  BY DEF Frame
<1> HIDE DEF FrameSet, g, c
<1>6. FrameFollows(g, K)
  BY <1>2, <1>4, <1>5 DEF FrameFollows
<1>7. Position(g, L) = L[c] - 1
  BY <1>3, <1>5 DEF Position, First
<1>8. Asks(Frm, g, W, D, K, L)
  <2>1. c = Args(Frm.node)[Len(Frm.got) + 1]
    BY DEF c, Next1
  <2>2. ~IsConst(c)
    BY DEF c
  <2> QED BY <1>2, <1>5, <2>1, <2>2 DEF Asks, StandsFor
<1>9. /\ Len(frames') = Len(frames) + 1 /\ frames'[Len(frames) + 1] = g
      /\ \A i \in 1 .. Len(frames) : frames'[i] = frames[i]
  BY <1>1 DEF g, c
<1>10. ASSUME NEW i \in 1 .. Len(frames') PROVE FrameFollows(frames'[i], K)
  <2>1. i \in 1 .. Len(frames) \/ i = Len(frames) + 1
    BY <1>1, <1>9
  <2> QED BY <1>1, <1>6, <1>9, <2>1 DEF Follows
<1>11. ASSUME NEW i \in 1 .. Len(frames') - 1
       PROVE  Asks(frames'[i], frames'[i + 1], W, D, K, L)
  <2>1. CASE i = Len(frames)
    BY <1>1, <1>8, <1>9, <2>1 DEF Frm
  <2>2. CASE i # Len(frames)
    <3>1. i \in 1 .. Len(frames) - 1 /\ i \in 1 .. Len(frames) /\ i + 1 \in 1 .. Len(frames)
      BY <1>1, <1>9, <2>2
    <3> QED BY <1>1, <1>9, <3>1 DEF Follows
  <2> QED BY <2>1, <2>2
<1>12. run' = W[Position(frames'[Len(frames')], L)] /\ Position(frames'[Len(frames')], L) \notin D
  BY <1>1, <1>2, <1>7, <1>9
<1> QED BY <1>10, <1>11, <1>12 DEF Follows

(* An operand is got: the frame that asked for it goes on after it.        *)
LEMMA FrameGets ==
  ASSUME NEW W, NEW D, NEW K, NEW L, Following(W, D, K, L), NEW f,
         FrameFollows(f, K), f.got \in Seq(OperandSet), NEW o, NEW c,
         Len(f.got) < Len(Args(f.node)), Len(Args(f.node)) \in Nat,
         Kind(f.node) \notin {"logic", "paren"},
         c = Args(f.node)[Len(f.got) + 1], Match(o.val, c)
  PROVE  LET g == WithOperand(f, o) IN
         /\ FrameFollows(g, K) /\ g.node = f.node /\ Position(g, L) = c
<1> DEFINE g == WithOperand(f, o)
           N == Len(f.got)
<1>1. /\ N \in Nat /\ g.node = f.node /\ g.got = Append(f.got, o) /\ Len(g.got) = N + 1
      /\ g.got[N + 1] = o /\ (\A k \in 1 .. N : g.got[k] = f.got[k])
  BY DEF WithOperand
<1>2. g.got # <<>>
  <2>1. \A s : s = <<>> => Len(s) = 0
    OBVIOUS
  <2> QED BY <1>1, <2>1
<1> HIDE DEF g
<1>3. \A k \in 1 .. N + 1 : Match(g.got[k].val, Args(g.node)[k])
  <2> SUFFICES ASSUME NEW k \in 1 .. N + 1 PROVE Match(g.got[k].val, Args(g.node)[k])
    OBVIOUS
  <2>1. CASE k \in 1 .. N
    BY <1>1, <2>1 DEF FrameFollows
  <2>2. CASE k = N + 1
    BY <1>1, <2>2
  <2> QED BY <2>1, <2>2
<1>4. N + 1 <= Len(Args(f.node))
  BY <1>1
<1>5. FrameFollows(g, K)
  BY <1>1, <1>3, <1>4 DEF FrameFollows
<1>6. Position(g, L) = c
  BY <1>1, <1>2 DEF Position
<1> QED BY <1>1, <1>5, <1>6 DEF g

(* A call returns to the one below what that one asked for.                *)
LEMMA ReturnFollows ==
  ASSUME NEW W, NEW D, NEW K, NEW L, Following(W, D, K, L), Frm.node # 0,
         NEW o \in OperandSet, NEW is, Return(o, is),
         Frm.node \notin D, Match(o.val, Frm.node), run' = W[Frm.node]
  PROVE  Follows(frames', run', W, D, K, L)
<1> DEFINE n == Frm.node
           h == Len(frames) - 1
           g == WithOperand(Caller, o)
           c == Args(Caller.node)[Len(Caller.got) + 1]
           fs == [Front(frames) EXCEPT ![h] = g]
<1>1. /\ Following(W, D, K, L) /\ IInv /\ Lowering /\ Follows(frames, run, W, D, K, L)
      /\ Asks(Caller, Frm, W, D, K, L)
      /\ Len(frames) \in Nat /\ Len(frames) >= 2 /\ frames \in Seq(FrameSet)
      /\ Caller.node \in {0} \cup DOMAIN nodes /\ Caller.got \in Seq(OperandSet)
  BY TopFollows, FrameFacts DEF Following
<1>2. \A N \in Nat : N >= 2 => N - 1 \in 0 .. N /\ N - 1 \in 1 .. N /\ N - 1 \in Nat \ {0}
  OBVIOUS
<1>3. h \in 0 .. Len(frames) /\ h \in 1 .. Len(frames) /\ h \in Nat \ {0}
  BY Zenon, <1>1, <1>2
<1>4. Caller = frames[h] /\ FrameFollows(Caller, K)
  BY Zenon, <1>1, <1>3 DEF Caller, Follows
<1>5. /\ Len(Caller.got) < Len(Args(Caller.node))
      /\ Kind(Caller.node) \notin {"logic", "paren"}
      /\ W[n] = W[c] /\ c \notin D /\ Match(o.val, c)
  <2>1. o.val \in Word
    BY OperandFacts
  <2> QED BY <1>1, <2>1 DEF Asks, StandsFor
<1>6. Len(Args(Caller.node)) \in Nat
  BY <1>1, ArgsKnown
<1> HIDE DEF FrameSet, OperandSet, Match, FrameFollows, WithOperand
<1>7. FrameFollows(g, K) /\ g.node = Caller.node /\ Position(g, L) = c
  BY <1>1, <1>4, <1>5, <1>6, FrameGets
<1>8. g \in FrameSet
  BY <1>1 DEF WithOperand, FrameSet
<1> HIDE DEF g, fs, c, n
<1>9. /\ Front(frames) \in Seq(FrameSet) /\ Len(Front(frames)) = h
      /\ \A i \in 1 .. h : Front(frames)[i] = frames[i]
  BY <1>1, <1>3, Prefix DEF Front
<1>10. /\ Len(fs) = h
       /\ \A i \in 1 .. h : fs[i] = IF i = h THEN g ELSE frames[i]
  BY <1>3, <1>8, <1>9 DEF fs
<1>11. frames' = fs
  BY DEF Return, fs, g
<1> HIDE DEF h
<1>12. \A i \in 1 .. h : i \in 1 .. Len(frames)
  BY <1>1, <1>3 DEF h
<1>13. ASSUME NEW i \in 1 .. h PROVE FrameFollows(fs[i], K)
  BY Zenon, <1>1, <1>7, <1>10, <1>12 DEF Follows
<1>14. ASSUME NEW i \in 1 .. h - 1
       PROVE  Asks(fs[i], fs[i + 1], W, D, K, L)
  <2>1. \A N \in Nat : \A j \in 1 .. N - 1 :
          j \in 1 .. N /\ j + 1 \in 1 .. N /\ j # N
    OBVIOUS
  <2>2. i \in 1 .. h /\ i + 1 \in 1 .. h /\ i # h
    BY Zenon, <1>3, <2>1
  <2>3. fs[i] = frames[i] /\ fs[i + 1] = IF i + 1 = h THEN g ELSE frames[i + 1]
    BY Zenon, <1>10, <2>2
  <2>4. i \in 1 .. Len(frames) - 1
    BY <1>1, <2>2 DEF h
  <2>5. Asks(frames[i], frames[i + 1], W, D, K, L)
    BY Zenon, <1>1, <2>4 DEF Follows
  <2>6. fs[i + 1].node = frames[i + 1].node
    BY Zenon, <1>4, <1>7, <2>3
  <2> QED BY <2>3, <2>5, <2>6 DEF Asks
<1>15. fs[Len(fs)] = g
  BY <1>3, <1>10
<1>16. run' = W[c]
  BY <1>5 DEF n
<1> QED BY <1>5, <1>7, <1>10, <1>11, <1>13, <1>14, <1>15, <1>16 DEF Follows

(* A tail call for a node that stands for the one in hand.                 *)
LEMMA InsteadFollows ==
  ASSUME NEW W, NEW D, NEW K, NEW L, Following(W, D, K, L), Frm.node # 0,
         Frm.got = <<>>, NEW m, Instead(m), StandsFor(m, Frm.node, W, D, K, L)
  PROVE  Follows(frames', run', W, D, K, L)
<1> DEFINE n == Frm.node
           g == Frame(m)
<1>1. /\ Asks(Caller, Frm, W, D, K, L) /\ n \in 1 .. Len(nodes)
      /\ run = W[Position(Frm, L)] /\ Position(Frm, L) \notin D
  BY TopFollows
<1>2. /\ m \in 1 .. Len(nodes) /\ m \notin K /\ ~IsConst(m)
      /\ W[L[m] - 1] = W[L[n] - 1] /\ (L[m] - 1 \in D <=> L[n] - 1 \in D)
      /\ W[m] = W[n] /\ (m \in D <=> n \in D)
      /\ m \notin D => \A v \in Word : Match(v, m) => Match(v, n)
  BY DEF StandsFor
<1>a. m \in 1 .. Len(nodes)
  BY Zenon, <1>2
<1>b. m # 0 /\ m \in DOMAIN nodes
  BY <1>a, NodeKnown
<1>3. m # 0 /\ Args(m) \in Seq(DOMAIN nodes)
  BY <1>b, ArgsKnown DEF Following
<1>4. 0 <= Len(Args(m)) /\ Len(<<>>) = 0 /\ 1 .. 0 = {}
  BY <1>3
<1>5. g.node = m /\ g.got = <<>>
  BY DEF Frame
<1>6. Position(Frm, L) = L[n] - 1
  BY DEF Position, First
<1> HIDE DEF g, n
<1>7. Position(g, L) = L[m] - 1
  BY <1>3, <1>5 DEF Position, First
<1>8. FrameFollows(g, K)
  BY Zenon, <1>2, <1>4, <1>5 DEF FrameFollows
<1>9. Asks(Caller, g, W, D, K, L)
  <2> DEFINE c == Args(Caller.node)[Len(Caller.got) + 1]
  <2>1. /\ Len(Caller.got) < Len(Args(Caller.node))
        /\ Kind(Caller.node) \notin {"logic", "paren"}
        /\ W[L[n] - 1] = W[L[c] - 1] /\ (L[n] - 1 \in D <=> L[c] - 1 \in D)
        /\ W[n] = W[c] /\ (n \in D <=> c \in D)
        /\ n \notin D => \A v \in Word : Match(v, n) => Match(v, c)
    BY <1>1 DEF Asks, StandsFor, n
  <2> HIDE DEF c
  <2>2. StandsFor(m, c, W, D, K, L)
    BY Zenon, <1>2, <2>1 DEF StandsFor
  <2> QED BY <1>5, <2>1, <2>2 DEF Asks, c
<1>10. frames' = [frames EXCEPT ![Len(frames)] = g] /\ run' = run
  BY DEF Instead, g
<1>11. run' = W[Position(g, L)] /\ Position(g, L) \notin D
  BY Zenon, <1>1, <1>2, <1>6, <1>7, <1>10
<1> QED BY <1>8, <1>9, <1>10, <1>11, TopChanges

(* A constant is fetched without a call.                                   *)
LEMMA ConstFollows ==
  ASSUME NEW W, NEW D, NEW K, NEW L, Following(W, D, K, L), FetchConst
  PROVE  Follows(frames', run', W, D, K, L)
<1> DEFINE c == Next1
           o == Imm(Val(c))
           f == WithOperand(Frm, o)
<1>1. /\ IInv /\ Awaits /\ IsConst(c) /\ FrameFollows(Frm, K) /\ run' = run
      /\ frames' = [frames EXCEPT ![Len(frames)] = f]
      /\ Len(Frm.got) < Len(Args(Frm.node))
      /\ Frm.node \in {0} \cup 1 .. Len(nodes)
      /\ run = W[Position(Frm, L)] /\ Position(Frm, L) \notin D
      /\ Frm.node # 0 => Asks(Caller, Frm, W, D, K, L)
      /\ Kind(Frm.node) \notin {"logic", "paren"}
  BY TopFollows DEF FetchConst, Awaits, Fetches, Following
<1>2. Frm.got \in Seq(OperandSet) /\ Args(Frm.node) \in Seq(DOMAIN nodes)
  BY FrameFacts, ArgsKnown DEF Following
<1>3. Len(Args(Frm.node)) \in Nat
  BY <1>2
<1>4. c \in 1 .. Len(nodes) /\ Position(Frm, L) = L[c] - 1 /\ c \notin K
  BY <1>1, <1>2, OperandBegins DEF Next1
<1>5. W[c] = W[L[c] - 1] /\ c \notin D /\ Val(c) = meant[c]
  BY <1>1, <1>4, NodeKnown
<1>6. c = Args(Frm.node)[Len(Frm.got) + 1]
  BY DEF Next1
<1>7. Val(c) \in Word
  BY <1>1, <1>4, NodeKnown, NodeFacts DEF IInv
<1>8. o \in OperandSet /\ o.val = meant[c]
  BY <1>5, <1>7, OperandFacts DEF Imm
<1> HIDE DEF o, c
<1>9. Match(o.val, c)
  BY <1>8 DEF Match
<1> HIDE DEF OperandSet, FrameFollows, Match, WithOperand
<1>10. FrameFollows(f, K) /\ f.node = Frm.node /\ Position(f, L) = c
  BY <1>1, <1>2, <1>3, <1>6, <1>9, FrameGets
<1> HIDE DEF f
<1>11. Frm.node # 0 => Asks(Caller, f, W, D, K, L)
  BY <1>1, <1>10 DEF Asks
<1>12. run' = W[Position(f, L)] /\ Position(f, L) \notin D
  BY <1>1, <1>4, <1>5, <1>10
<1> QED BY <1>1, <1>10, <1>11, <1>12, TopChanges

(* A trap where the source does something undefined.                       *)
LEMMA TrapFollows ==
  ASSUME NEW W, NEW D, NEW K, NEW L, Following(W, D, K, L), Frm.node # 0,
         Frm.node \in D, run' = W[Frm.node], phase' = "trapped",
         UNCHANGED <<ast, context>>
  PROVE  LoweringExact'
<1> DEFINE n == Frm.node
           N == Len(nodes)
<1>1. n \in 1 .. N /\ N \in Nat /\ n \in D
  BY TopFollows, TreeKnown
<1>2. /\ srcTrap <=> N \in D
      /\ srcTrap => source = W[N]
  BY TreeKnown
<1> HIDE DEF n
<1>3. n \in 0 .. N /\ N \in 0 .. N /\ n <= N
  BY <1>1
<1>4. N \in D /\ W[N] = W[n]
  BY <1>1, <1>3, SourceStops
<1>5. run' = source' /\ srcTrap'
  BY <1>2, <1>4 DEF ast, n
<1> QED BY <1>5 DEF LoweringExact

(* The value of the statement's operand, when all of it has been done.     *)
LEMMA StatementFollows ==
  ASSUME NEW W, NEW D, NEW K, NEW L, Following(W, D, K, L), Frm.node = 0, Len(Frm.got) = 1
  PROVE  /\ ~srcTrap /\ run = W[Len(nodes)] /\ Match(Got(1).val, Root)
         /\ meant[Root] \in Word
         /\ source = IF context = "assign" THEN Stored(run, Target, meant[Root]) ELSE run
<1>1. /\ Args(0) = <<Root>> /\ Root \in 1 .. Len(nodes) /\ Root = Len(nodes)
      /\ Root \notin K
      /\ srcTrap <=> Len(nodes) \in D
      /\ source = IF context = "assign" /\ ~srcTrap
                  THEN Stored(W[Len(nodes)], Target, meant[Root]) ELSE W[Len(nodes)]
  BY RootFacts, TreeKnown DEF Following
<1>2. /\ FrameFollows(Frm, K) /\ run = W[Position(Frm, L)] /\ Position(Frm, L) \notin D
  BY TopFollows
<1>3. Args(0)[1] = Root
  BY <1>1, OneOf
<1>4. Frm.got # <<>>
  <2>1. \A s : s = <<>> => Len(s) = 0
    OBVIOUS
  <2> QED BY <2>1
<1>5. Position(Frm, L) = Root
  BY <1>3, <1>4 DEF Position
<1>6. Match(Got(1).val, Root)
  <2>1. 1 \in 1 .. Len(Frm.got)
    OBVIOUS
  <2>2. Match(Frm.got[1].val, Args(Frm.node)[1])
    BY <1>2, <2>1 DEF FrameFollows
  <2> QED BY <1>3, <2>2 DEF Got
<1>7. meant[Root] \in Word
  BY <1>1, <1>2, <1>5, NodeKnown
<1> QED BY <1>1, <1>2, <1>5, <1>6, <1>7

(* The node in hand.                                                       *)
LEMMA NodeInHand ==
  ASSUME NEW W, NEW D, NEW K, NEW L, Following(W, D, K, L),
         NEW kind \in NodeKinds, Ready(kind)
  PROVE  LET n == Frm.node IN
         /\ n \in 1 .. Len(nodes) /\ n # 0 /\ n \notin K /\ nodes[n].kind = kind
         /\ Laid(nodes, L, n) /\ Skips(nodes, meant, K, n)
         /\ DoesAt(nodes, meant, W, D, K, n)
         /\ Args(n) = nodes[n].args /\ WellFormed(nodes[n]) /\ ~IsConst(n)
         /\ n \notin D => meant[n] \in Word
         /\ kind \notin {"logic", "paren"} => Len(Frm.got) = Len(nodes[n].args)
         /\ kind \in {"logic", "paren"} => Frm.got = <<>>
<1> DEFINE n == Frm.node
<1>1. IInv
  BY DEF Following
<1>2. /\ n \in DOMAIN nodes /\ n # 0 /\ nodes[n].kind = kind /\ ~IsConst(n)
      /\ WellFormed(nodes[n]) /\ Args(n) = nodes[n].args
      /\ Fetches(kind) => Len(Frm.got) = Len(Args(n))
  BY <1>1, ReadyForNode
<1>3. n \in 1 .. Len(nodes) /\ n \notin K /\ FrameFollows(Frm, K)
  BY <1>2, TopFollows
<1>4. Kind(n) = kind
  BY <1>2 DEF Kind
<1>5. kind \in {"logic", "paren"} => Frm.got = <<>>
  BY <1>3, <1>4 DEF FrameFollows
<1>6. kind \notin {"logic", "paren"} => Fetches(kind)
  BY DEF Fetches, NodeKinds
<1> HIDE DEF n
<1>7. /\ Laid(nodes, L, n) /\ Skips(nodes, meant, K, n)
      /\ DoesAt(nodes, meant, W, D, K, n)
      /\ n \notin K /\ n \notin D => meant[n] \in Word
  BY <1>3, NodeKnown
<1> QED BY <1>2, <1>3, <1>5, <1>6, <1>7 DEF n

(* Its operands are done: the source stands before the node itself.        *)
LEMMA InHand ==
  ASSUME NEW W, NEW D, NEW K, NEW L, Following(W, D, K, L),
         NEW kind \in {"var", "element", "call", "unary", "binary"}, Ready(kind)
  PROVE  LET n == Frm.node IN
         /\ run = W[n - 1] /\ Alive(D, K, n)
         /\ kind \in OnOne => /\ Match(Got(1).val, nodes[n].args[1])
                              /\ Got(1) \in OperandSet
         /\ kind = "binary" => /\ Match(Got(1).val, nodes[n].args[1])
                               /\ Match(Got(2).val, nodes[n].args[2])
                               /\ Got(1) \in OperandSet /\ Got(2) \in OperandSet
<1> DEFINE n == Frm.node
           as == nodes[n].args
<1>1. kind \in NodeKinds /\ kind \notin {"logic", "paren"}
  BY DEF NodeKinds
<1>2. /\ n \in 1 .. Len(nodes) /\ n # 0 /\ n \notin K /\ nodes[n].kind = kind
      /\ Laid(nodes, L, n) /\ Args(n) = as /\ Len(Frm.got) = Len(as)
  BY <1>1, NodeInHand
<1>3. /\ FrameFollows(Frm, K) /\ run = W[Position(Frm, L)] /\ Position(Frm, L) \notin D
      /\ Frm.got \in Seq(OperandSet)
  BY TopFollows, FrameFacts DEF Following
<1> HIDE DEF as, OperandSet
<1>4. \A k \in 1 .. Len(as) : Match(Got(k).val, as[k]) /\ Got(k) \in OperandSet
  <2>1. \A k \in 1 .. Len(Frm.got) : Frm.got[k] \in OperandSet
    BY <1>3
  <2>2. \A k \in 1 .. Len(Frm.got) : Match(Frm.got[k].val, Args(n)[k])
    BY <1>3 DEF FrameFollows
  <2> QED BY Zenon, <1>2, <2>1, <2>2 DEF Got
<1>5. CASE kind = "var"
  <2>1. Len(as) = 0 /\ L[n] = n
    BY <1>2, <1>5 DEF Laid, Leaves, as
  <2>2. Frm.got = <<>>
    BY <1>2, <1>3, <2>1
  <2>3. Position(Frm, L) = n - 1
    BY <1>2, <2>1, <2>2 DEF Position, First
  <2> QED BY <1>2, <1>3, <1>5, <2>3 DEF Alive, OnOne
<1>6. CASE kind \in OnOne
  <2>1. Len(as) = 1 /\ as[1] = n - 1
    BY <1>2, <1>6 DEF Laid, as
  <2>a. Len(<<>>) = 0 /\ 1 # 0 /\ 1 \in 1 .. 1
    OBVIOUS
  <2>2. Frm.got # <<>> /\ 1 \in 1 .. Len(as)
    BY Zenon, <1>2, <2>1, <2>a
  <2>3. Position(Frm, L) = n - 1
    BY <1>2, <2>1, <2>2 DEF Position
  <2> QED BY <1>2, <1>3, <1>4, <1>6, <2>2, <2>3 DEF Alive, OnOne, as
<1>7. CASE kind = "binary"
  <2>1. Len(as) = 2 /\ as[2] = n - 1
    BY <1>2, <1>7 DEF Laid, OnTwo, as
  <2>a. Len(<<>>) = 0 /\ 2 # 0 /\ 1 \in 1 .. 2 /\ 2 \in 1 .. 2
    OBVIOUS
  <2>2. Frm.got # <<>> /\ 1 \in 1 .. Len(as) /\ 2 \in 1 .. Len(as)
    BY Zenon, <1>2, <2>1, <2>a
  <2>3. Position(Frm, L) = n - 1
    BY <1>2, <2>1, <2>2 DEF Position
  <2> QED BY <1>2, <1>3, <1>4, <1>7, <2>2, <2>3 DEF Alive, OnOne, as
<1> QED BY <1>5, <1>6, <1>7 DEF OnOne

(* Where the truth does not suffice, the operand has the node's value.     *)
LEMMA ValueGot ==
  ASSUME NEW W, NEW D, NEW K, NEW L, Following(W, D, K, L), NEW n \in 1 .. Len(nodes),
         nodes[n].kind # "logic", nodes[n].op \notin {"plus", "paren", "not"},
         NEW k \in 1 .. Len(nodes[n].args), NEW v, Match(v, nodes[n].args[k])
  PROVE  v = meant[nodes[n].args[k]]
<1>1. n \in DOMAIN nodes /\ Args(n) = nodes[n].args /\ TruthSuffices
  BY NodeKnown DEF Following, Regular
<1>2. nodes[n].args \in Seq(1 .. n - 1)
  BY <1>1 DEF Following, IInv, TypeOK
<1>3. k \in DOMAIN Args(n)
  BY <1>1, <1>2
<1>4. ~Raw[Args(n)[k]]
  BY <1>1, <1>3 DEF TruthSuffices
<1> QED BY <1>1, <1>4 DEF Match, IsRaw

LEMMA LoadVarFollows ==
  ASSUME NEW W, NEW D, NEW K, NEW L, Following(W, D, K, L), LoadVar
  PROVE  Follows(frames', run', W, D, K, L)
<1> DEFINE n == Frm.node
           o == Tmp(32, run.mem[nodes[n].op])
<1>1. Ready("var") /\ "var" \in NodeKinds /\ Return(o, <<Inst("load", <<>>)>>) /\ run' = run
  BY DEF LoadVar, NodeKinds
<1>2. /\ n \in 1 .. Len(nodes) /\ n # 0 /\ n \notin K /\ nodes[n].kind = "var"
      /\ DoesAt(nodes, meant, W, D, K, n)
      /\ n \notin D => meant[n] \in Word
  BY <1>1, NodeInHand
<1>3. run = W[n - 1] /\ Alive(D, K, n)
  BY <1>1, InHand
<1>4. W[n] = W[n - 1] /\ n \notin D /\ meant[n] = W[n - 1].mem[nodes[n].op]
  BY <1>2, <1>3 DEF DoesAt, Does, Alive
<1>5. o \in OperandSet /\ o.val = meant[n]
  BY <1>2, <1>3, <1>4, OperandFacts DEF Tmp
<1> HIDE DEF o
<1>6. Match(o.val, n)
  BY <1>5 DEF Match
<1> QED BY <1>1, <1>2, <1>3, <1>4, <1>5, <1>6, ReturnFollows

LEMMA TranslateCallExprFollows ==
  ASSUME NEW W, NEW D, NEW K, NEW L, Following(W, D, K, L), TranslateCallExpr
  PROVE  Follows(frames', run', W, D, K, L)
<1> DEFINE n == Frm.node
           v == Got(1).val
           o == Tmp(32, v)
           c == nodes[n].args[1]
<1>1. /\ Ready("call") /\ "call" \in NodeKinds /\ "call" \in OnOne
      /\ Return(o, <<Inst("call", <<Got(1)>>)>>)
      /\ run' = Called(run, nodes[n].op, v)
  BY DEF TranslateCallExpr, NodeKinds, OnOne
<1>2. /\ n \in 1 .. Len(nodes) /\ n # 0 /\ n \notin K /\ nodes[n].kind = "call"
      /\ Laid(nodes, L, n) /\ DoesAt(nodes, meant, W, D, K, n)
  BY <1>1, NodeInHand
<1>3. run = W[n - 1] /\ Alive(D, K, n) /\ Match(v, c) /\ Got(1) \in OperandSet
  BY <1>1, InHand
<1>4. Len(nodes[n].args) = 1 /\ nodes[n].op \in Vars
  BY <1>1, <1>2 DEF Laid, OpFits
<1>5. v = meant[c]
  <2>1. nodes[n].op \notin {"plus", "paren", "not"}
    BY <1>4, VarsAssumption DEF AllUnary
  <2>2. 1 \in 1 .. Len(nodes[n].args)
    BY <1>4
  <2> QED BY <1>2, <1>3, <2>1, <2>2, ValueGot
<1>6. W[n] = Called(W[n - 1], nodes[n].op, meant[c]) /\ n \notin D /\ meant[n] = meant[c]
  BY <1>2, <1>3 DEF DoesAt, Does, Alive
<1>7. o \in OperandSet /\ o.val = v
  BY <1>3, OperandFacts DEF Tmp
<1> HIDE DEF o, v
<1>8. Match(o.val, n)
  BY <1>5, <1>6, <1>7 DEF Match
<1>9. run' = W[n]
  BY <1>1, <1>3, <1>5, <1>6
<1> QED BY <1>1, <1>2, <1>6, <1>7, <1>8, <1>9, ReturnFollows

LEMMA LoadElementFollows ==
  ASSUME NEW W, NEW D, NEW K, NEW L, Following(W, D, K, L), LoadElement
  PROVE  /\ phase' = "lower" => Follows(frames', run', W, D, K, L)
         /\ phase' \in {"done", "trapped"} => LoweringExact'
<1> DEFINE n == Frm.node
           i == Got(1).val
           o == Tmp(32, IF InTable(i) THEN Table[i + 1] ELSE 0)
           c == nodes[n].args[1]
<1>1. /\ Ready("element") /\ "element" \in NodeKinds /\ "element" \in OnOne
      /\ Return(o, <<Inst("getelementptr", <<>>), Inst("load", <<>>)>>)
      /\ phase' = IF InTable(i) THEN "lower" ELSE "trapped"
      /\ run' = run /\ UNCHANGED <<ast, context>>
  BY DEF LoadElement, NodeKinds, OnOne, Return, Following, Lowering
<1>2. /\ n \in 1 .. Len(nodes) /\ n # 0 /\ n \notin K /\ nodes[n].kind = "element"
      /\ Laid(nodes, L, n) /\ DoesAt(nodes, meant, W, D, K, n)
      /\ n \notin D => meant[n] \in Word
  BY <1>1, NodeInHand
<1>3. run = W[n - 1] /\ Alive(D, K, n) /\ Match(i, c) /\ Got(1) \in OperandSet
  BY <1>1, InHand
<1>4. Len(nodes[n].args) = 1 /\ nodes[n].op = "none"
  BY <1>1, <1>2 DEF Laid, OpFits
<1>5. i = meant[c]
  <2>1. 1 \in 1 .. Len(nodes[n].args)
    BY <1>4
  <2> QED BY <1>2, <1>3, <1>4, <2>1, ValueGot
<1>6. /\ W[n] = W[n - 1] /\ (n \in D <=> ~InTable(meant[c]))
      /\ InTable(meant[c]) => meant[n] = Table[meant[c] + 1]
  BY <1>2, <1>3 DEF DoesAt, Does
<1> HIDE DEF i, c
<1>7. CASE InTable(i)
  <2>1. o.val = meant[n] /\ o \in OperandSet /\ n \notin D
    BY <1>2, <1>5, <1>6, <1>7, OperandFacts DEF Tmp
  <2> HIDE DEF o
  <2>2. Match(o.val, n)
    BY <2>1 DEF Match
  <2>3. Follows(frames', run', W, D, K, L)
    BY <1>1, <1>2, <1>3, <1>6, <2>1, <2>2, ReturnFollows
  <2> QED BY <1>1, <1>7, <2>3
<1>8. CASE ~InTable(i)
  <2>1. n \in D /\ run' = W[n] /\ phase' = "trapped"
    BY <1>1, <1>3, <1>5, <1>6, <1>8
  <2>2. LoweringExact'
    BY <1>1, <1>2, <2>1, TrapFollows
  <2> QED BY <2>1, <2>2
<1> QED BY <1>7, <1>8

(* What the lowering gives no more than the truth of.                      *)
LEMMA RawKnown ==
  ASSUME NEW W, NEW D, NEW K, NEW L, Following(W, D, K, L), NEW n \in 1 .. Len(nodes)
  PROVE  IsRaw(n) <=>
           \/ nodes[n].kind = "logic" /\ ~IsConst(n) /\ ~Decided(n)
           \/ nodes[n].op \in {"plus", "paren"} /\ IsRaw(nodes[n].args[1])
<1>1. /\ IInv /\ n \in DOMAIN nodes /\ Recorded(nodes, meant, W, D, K, L)
      /\ \E R : RawSet(nodes, R)
  BY NodeKnown DEF Following, Remembered
<1> HIDE DEF RawSet, IInv, Recorded
<1> QED BY <1>1, RawUnfold

(* The only operand of a node that the source comes to has a value.        *)
LEMMA OperandMeant ==
  ASSUME NEW W, NEW D, NEW K, NEW L, Following(W, D, K, L), NEW n \in 1 .. Len(nodes),
         nodes[n].kind \in OnOne, n \notin K, n - 1 \notin D
  PROVE  meant[nodes[n].args[1]] \in Word /\ meant[nodes[n].args[1]] # Absent
<1> DEFINE c == nodes[n].args[1]
<1>1. Laid(nodes, L, n) /\ Skips(nodes, meant, K, n)
  BY NodeKnown
<1>2. c = n - 1 /\ c \in 1 .. n - 1 /\ c \notin K
  BY <1>1 DEF Laid, Skips
<1>3. c \in 1 .. Len(nodes) /\ c \notin D
  BY <1>2, TreeKnown
<1> HIDE DEF c
<1>4. meant[c] \in Word
  BY <1>2, <1>3, NodeKnown
<1> QED BY <1>4, Words DEF c

LEMMA TranslateUnaryOperatorFollows ==
  ASSUME NEW W, NEW D, NEW K, NEW L, Following(W, D, K, L), TranslateUnaryOperator
  PROVE  Follows(frames', run', W, D, K, L)
<1> DEFINE n == Frm.node
           op == nodes[n].op
           v == Got(1).val
           c == nodes[n].args[1]
<1>1. /\ Ready("unary") /\ "unary" \in NodeKinds /\ "unary" \in OnOne /\ run' = run
      /\ CASE op = "plus"  -> Return(Got(1), <<>>)
           [] op = "minus" ->
                Return(Tmp(32, Wrap(-v)),
                       Zext(1) \o <<Inst("sub", <<Imm(0), Extended(1)>>)>>)
           [] OTHER ->
                Return(Tmp(1, Truth(v = 0)),
                       <<Inst("icmp", <<Got(1), Tmp(Got(1).width, 0)>>)>>)
  BY DEF TranslateUnaryOperator, NodeKinds, OnOne
<1>2. /\ n \in 1 .. Len(nodes) /\ n # 0 /\ n \notin K /\ nodes[n].kind = "unary"
      /\ Laid(nodes, L, n) /\ DoesAt(nodes, meant, W, D, K, n)
      /\ n \notin D => meant[n] \in Word
  BY <1>1, NodeInHand
<1>3. run = W[n - 1] /\ Alive(D, K, n) /\ Match(v, c) /\ Got(1) \in OperandSet
  BY <1>1, InHand
<1>4. Len(nodes[n].args) = 1 /\ op \in {"plus", "minus", "not"}
  BY <1>1, <1>2 DEF Laid, OpFits
<1>5. W[n] = W[n - 1] /\ n \notin D /\ meant[n] = UnaryMeaning(op, meant[c])
  BY <1>2, <1>3 DEF DoesAt, Does, Alive
<1>6. meant[c] # Absent /\ meant[c] \in Word /\ v \in Word
  BY <1>1, <1>2, <1>3, OperandMeant, OperandFacts DEF Alive
<1>7. /\ op = "plus" => meant[n] = meant[c]
      /\ op = "minus" => meant[n] = IF meant[c] = -Half THEN meant[c] ELSE -meant[c]
      /\ op = "not" => meant[n] = IF meant[c] = 0 THEN 1 ELSE 0
  BY <1>5, <1>6 DEF UnaryMeaning
<1>8. IsRaw(n) <=> op = "plus" /\ IsRaw(c)
  BY <1>2, <1>4, RawKnown
<1>9. ASSUME NEW o \in OperandSet, NEW is, Return(o, is), Match(o.val, n)
      PROVE  Follows(frames', run', W, D, K, L)
  BY <1>1, <1>2, <1>3, <1>5, <1>9, ReturnFollows
<1> HIDE DEF v, c, op
<1>10. CASE op = "plus"
  <2>1. Match(v, n)
    BY <1>3, <1>7, <1>8, <1>10 DEF Match
  <2>2. Return(Got(1), <<>>)
    BY <1>1, <1>10
  <2> QED BY <1>3, <1>9, <2>1, <2>2 DEF v
<1>11. CASE op = "minus"
  <2> DEFINE o == Tmp(32, Wrap(-v))
             is == Zext(1) \o <<Inst("sub", <<Imm(0), Extended(1)>>)>>
  <2>1. v = meant[c]
    <3>1. 1 \in 1 .. Len(nodes[n].args)
      BY <1>4
    <3> QED BY <1>2, <1>3, <1>11, <3>1, ValueGot DEF c, op
  <2>2. Wrap(-v) = meant[n]
    BY <1>6, <1>7, <1>11, <2>1, WrapNegation
  <2>3. o \in OperandSet /\ o.val = meant[n]
    BY <1>2, <1>5, <2>2, OperandFacts DEF Tmp
  <2>4. Return(o, is)
    BY Zenon, <1>1, <1>11
  <2> HIDE DEF o, is
  <2>5. Match(o.val, n)
    BY <2>3 DEF Match
  <2> QED BY <1>9, <2>3, <2>4, <2>5
<1>12. CASE op = "not"
  <2> DEFINE o == Tmp(1, Truth(v = 0))
             is == <<Inst("icmp", <<Got(1), Tmp(Got(1).width, 0)>>)>>
  <2>1. v = 0 <=> meant[c] = 0
    BY <1>3 DEF Match
  <2>2. Truth(v = 0) = meant[n]
    BY <1>7, <1>12, <2>1 DEF Truth
  <2>3. o \in OperandSet /\ o.val = meant[n]
    BY <1>2, <1>5, <2>2, OperandFacts DEF Tmp
  <2>4. Return(o, is)
    BY Zenon, <1>1, <1>12
  <2> HIDE DEF o, is
  <2>5. Match(o.val, n)
    BY <2>3 DEF Match
  <2> QED BY <1>9, <2>3, <2>4, <2>5
<1> QED BY <1>4, <1>10, <1>11, <1>12 DEF op

LEMMA TranslateBinaryOperatorFollows ==
  ASSUME NEW W, NEW D, NEW K, NEW L, Following(W, D, K, L), TranslateBinaryOperator
  PROVE  /\ phase' = "lower" => Follows(frames', run', W, D, K, L)
         /\ phase' \in {"done", "trapped"} => LoweringExact'
<1> DEFINE n == Frm.node
           op == nodes[n].op
           a == Got(1).val
           b == Got(2).val
           x == nodes[n].args[1]
           y == nodes[n].args[2]
           ops == <<Extended(1), Extended(2)>>
           traps == Undefined(op, ops[1].val, ops[2].val)
           typed == \A k \in 1 .. 2 : ops[k].width = 32
           o == Tmp(IF op \in ArithOps THEN 32 ELSE 1,
                    IF traps THEN 0 ELSE Int32(op, ops[1].val, ops[2].val))
           is == Zext(1) \o Zext(2)
                   \o <<Inst(IF op \in ArithOps THEN op ELSE "icmp", ops)>>
<1>1. /\ Ready("binary") /\ "binary" \in NodeKinds
      /\ Return(o, is)
      /\ phase' = IF op \in ArithOps /\ ~typed THEN "thrown"
                  ELSE IF traps THEN "trapped" ELSE "lower"
      /\ run' = run /\ UNCHANGED <<ast, context>>
  BY DEF TranslateBinaryOperator, NodeKinds, Return, Following, Lowering
<1>2. /\ n \in 1 .. Len(nodes) /\ n # 0 /\ n \notin K /\ nodes[n].kind = "binary"
      /\ Laid(nodes, L, n) /\ DoesAt(nodes, meant, W, D, K, n)
      /\ n \notin D => meant[n] \in Word
  BY <1>1, NodeInHand
<1>3. /\ run = W[n - 1] /\ Alive(D, K, n) /\ Match(a, x) /\ Match(b, y)
      /\ Got(1) \in OperandSet /\ Got(2) \in OperandSet
  BY <1>1, InHand
<1>4. Len(nodes[n].args) = 2 /\ op \in ArithOps \cup RelOps
  BY <1>2 DEF Laid, OpFits, OnTwo
<1>5. op \notin {"plus", "paren", "not"}
  BY <1>4 DEF ArithOps, RelOps
<1>6. a = meant[x] /\ b = meant[y]
  <2>1. 1 \in 1 .. Len(nodes[n].args) /\ 2 \in 1 .. Len(nodes[n].args)
    BY <1>4
  <2> QED BY <1>2, <1>3, <1>5, <2>1, ValueGot
<1>7. Extended(1).val = a /\ Extended(2).val = b
  BY DEF Extended, Tmp
<1>8. ops[1].val = a /\ ops[2].val = b
  BY <1>7
<1>9. /\ W[n] = W[n - 1] /\ (n \in D <=> Undefined(op, meant[x], meant[y]))
      /\ ~Undefined(op, meant[x], meant[y]) => meant[n] = Int32(op, meant[x], meant[y])
  BY <1>2, <1>3 DEF DoesAt, Does
<1>10. traps <=> n \in D
  BY <1>6, <1>8, <1>9
<1>11. CASE ~traps
  <2> DEFINE t == IF traps THEN 0 ELSE Int32(op, ops[1].val, ops[2].val)
             w == IF op \in ArithOps THEN 32 ELSE 1
  <2>1. t = meant[n] /\ meant[n] \in Word
    BY <1>2, <1>6, <1>8, <1>9, <1>10, <1>11
  <2> HIDE DEF t
  <2>2. Tmp(w, t) \in OperandSet /\ Tmp(w, t).val = meant[n]
    BY <2>1, OperandFacts DEF Tmp
  <2>3. o = Tmp(w, t)
    BY DEF t
  <2> HIDE DEF o, is, traps, w
  <2>4. o \in OperandSet /\ Match(o.val, n) /\ n \notin D
    BY <1>10, <1>11, <2>2, <2>3 DEF Match
  <2>5. Follows(frames', run', W, D, K, L)
    BY <1>1, <1>2, <1>3, <1>9, <2>4, ReturnFollows
  <2>6. phase' \in {"lower", "thrown"}
    BY <1>1, <1>11
  <2> QED BY <2>5, <2>6
<1>12. CASE traps
  <2> HIDE DEF o, is, typed, traps
  <2>1. phase' \in {"thrown", "trapped"}
    BY <1>1, <1>12
  <2>2. n \in D /\ run' = W[n]
    BY <1>1, <1>3, <1>9, <1>10, <1>12
  <2>3. phase' = "trapped" => LoweringExact'
    BY <1>1, <1>2, <2>2, TrapFollows
  <2> QED BY <2>1, <2>3
<1> QED BY <1>11, <1>12

LEMMA ParenExprFollows ==
  ASSUME NEW W, NEW D, NEW K, NEW L, Following(W, D, K, L), ParenExpr
  PROVE  Follows(frames', run', W, D, K, L)
<1> DEFINE n == Frm.node
           c == nodes[n].args[1]
<1>1. Ready("paren") /\ "paren" \in NodeKinds /\ "paren" \in OnOne /\ Instead(Args(n)[1])
  BY DEF ParenExpr, NodeKinds, OnOne
<1>2. /\ n \in 1 .. Len(nodes) /\ n # 0 /\ n \notin K /\ nodes[n].kind = "paren"
      /\ Laid(nodes, L, n) /\ DoesAt(nodes, meant, W, D, K, n)
      /\ Skips(nodes, meant, K, n) /\ Args(n) = nodes[n].args
      /\ WellFormed(nodes[n]) /\ ~IsConst(n) /\ Frm.got = <<>>
  BY <1>1, NodeInHand
<1>3. /\ c \in 1 .. n - 1 /\ c = n - 1 /\ L[n] = L[c] /\ c \notin K
      /\ nodes[n].op = "paren"
  BY <1>1, <1>2 DEF Laid, Skips, OpFits
<1>4. ~IsConst(c)
  BY <1>2 DEF WellFormed, IsConst
<1>5. c \in 1 .. Len(nodes)
  BY <1>2, <1>3, TreeKnown
<1>6. W[c] = W[n] /\ (c \in D <=> n \in D)
  BY <1>2, <1>3 DEF DoesAt, Does
<1>7. IsRaw(n) <=> IsRaw(c)
  BY <1>2, <1>3, RawKnown
<1>8. ASSUME c \notin D PROVE meant[n] = meant[c]
  <2>1. Alive(D, K, n)
    BY <1>2, <1>3, <1>8 DEF Alive
  <2>2. meant[n] = UnaryMeaning("paren", meant[c])
    BY <1>2, <1>3, <2>1 DEF DoesAt, Does
  <2>3. meant[c] # Absent
    BY <1>1, <1>2, <1>3, <1>8, OperandMeant
  <2> QED BY <2>2, <2>3 DEF UnaryMeaning
<1> HIDE DEF c, n
<1>9. c \notin D => \A v \in Word : Match(v, c) => Match(v, n)
  BY <1>7, <1>8 DEF Match
<1>10. StandsFor(c, n, W, D, K, L)
  BY Zenon, <1>3, <1>4, <1>5, <1>6, <1>9 DEF StandsFor
<1>11. Instead(c) /\ Frm.got = <<>> /\ Frm.node # 0 /\ n = Frm.node
  BY <1>1, <1>2 DEF c, n
<1> QED BY <1>10, <1>11, InsteadFollows

(* The operands of && and ||: one is a constant.                           *)
LEMMA LogicInHand ==
  ASSUME NEW W, NEW D, NEW K, NEW L, Following(W, D, K, L), Ready("logic")
  PROVE  LET n == Frm.node
             op == nodes[n].op
             a == nodes[n].args[1]
             b == nodes[n].args[2]
         IN
         /\ n \in 1 .. Len(nodes) /\ n # 0 /\ n \notin K /\ nodes[n].kind = "logic"
         /\ ~IsConst(n) /\ Args(n) = nodes[n].args /\ Frm.got = <<>> /\ op \in LogicOps
         /\ a \in 1 .. Len(nodes) /\ b \in 1 .. Len(nodes) /\ a \notin K
         /\ L[n] = L[a] /\ L[b] - 1 = a
         /\ run = W[L[a] - 1] /\ L[a] - 1 \notin D
         /\ W[n] = W[b] /\ (n \in D <=> b \in D)
         /\ b \in K <=> Decides(op, meant[a])
         /\ b \in K \/ IsConst(b) => W[b] = W[a] /\ (b \in D <=> a \in D)
         /\ IsConst(a) => W[a] = run /\ a \notin D
         /\ b \notin D => meant[n] = LogicMeaning(op, meant[a], meant[b])
         /\ a \notin D => meant[a] \in Word /\ (IsConst(a) => Val(a) = meant[a])
         /\ b \notin D /\ b \notin K =>
              meant[b] \in Word /\ (IsConst(b) => Val(b) = meant[b])
         /\ \/ IsConst(a) /\ ~IsConst(b)
            \/ ~IsConst(a) /\ IsConst(b)
<1> DEFINE n == Frm.node
           op == nodes[n].op
           a == nodes[n].args[1]
           b == nodes[n].args[2]
<1>1. "logic" \in NodeKinds /\ "logic" \in OnTwo
  BY DEF NodeKinds, OnTwo
<1>2. /\ n \in 1 .. Len(nodes) /\ n # 0 /\ n \notin K /\ nodes[n].kind = "logic"
      /\ Laid(nodes, L, n) /\ DoesAt(nodes, meant, W, D, K, n)
      /\ Skips(nodes, meant, K, n) /\ Args(n) = nodes[n].args
      /\ WellFormed(nodes[n]) /\ ~IsConst(n) /\ Frm.got = <<>>
  BY <1>1, NodeInHand
<1>3. /\ a \in 1 .. n - 1 /\ b \in 1 .. n - 1 /\ b = n - 1 /\ L[n] = L[a]
      /\ L[b] = a + 1 /\ op \in LogicOps
  BY <1>1, <1>2 DEF Laid, OpFits
<1>4. a \notin K /\ (b \in K <=> Decides(op, meant[a]))
  BY <1>1, <1>2 DEF Skips
<1>5. a \in 1 .. Len(nodes) /\ b \in 1 .. Len(nodes) /\ L[b] - 1 = a
  BY <1>2, <1>3, TreeKnown
<1>6. run = W[L[a] - 1] /\ L[a] - 1 \notin D
  BY <1>2, <1>3, TopFollows DEF Position, First
<1>7. W[n] = W[b] /\ (n \in D <=> b \in D)
  BY <1>2, <1>3 DEF DoesAt, Does
<1>8. b \notin D => meant[n] = LogicMeaning(op, meant[a], meant[b])
  BY <1>2, <1>3 DEF DoesAt, Does, Alive
<1>9. \/ IsConst(a) /\ ~IsConst(b)
      \/ ~IsConst(a) /\ IsConst(b)
  BY <1>2 DEF WellFormed, IsConst
<1> HIDE DEF a, b, n, op
<1>10. /\ IsConst(a) => W[a] = W[L[a] - 1] /\ (a \in D <=> L[a] - 1 \in D)
       /\ a \notin D => meant[a] \in Word /\ (IsConst(a) => Val(a) = meant[a])
  BY <1>4, <1>5, NodeKnown
<1>11. /\ b \in K \/ IsConst(b) => W[b] = W[a] /\ (b \in D <=> a \in D)
       /\ b \notin D /\ b \notin K =>
            meant[b] \in Word /\ (IsConst(b) => Val(b) = meant[b])
  BY <1>5, NodeKnown
<1> QED
  BY Zenon, <1>2, <1>3, <1>4, <1>5, <1>6, <1>7, <1>8, <1>9, <1>10, <1>11
     DEF a, b, n, op

(* What the meaning of && and || is, and of its truth.                     *)
LEMMA LogicTruth ==
  ASSUME NEW op \in LogicOps, NEW a \in Word, NEW b,
         Decides(op, a) \/ b \in Word
  PROVE  /\ Decides(op, a) => LogicMeaning(op, a, b) = Truth(op = "or")
         /\ ~Decides(op, a) => (LogicMeaning(op, a, b) # 0 <=> b # 0)
         /\ ~Decides(op, a) /\ Decides(op, b) => LogicMeaning(op, a, b) = Truth(op = "or")
         /\ b \in Word /\ ~Decides(op, b) => (LogicMeaning(op, a, b) # 0 <=> a # 0)
<1>1. a # Absent /\ (b \in Word => b # Absent)
  BY Words
<1>2. op = "or" \/ op = "and"
  BY DEF LogicOps
<1>3. LogicMeaning(op, a, b) = IF Decides(op, a) THEN Truth(op = "or")
                               ELSE IF b = Absent THEN Absent ELSE Truth(b # 0)
  BY <1>1 DEF LogicMeaning
<1>4. /\ Truth(op = "or") = IF op = "or" THEN 1 ELSE 0
      /\ Truth(b # 0) = IF b # 0 THEN 1 ELSE 0
  BY DEF Truth
<1>5. CASE op = "or"
  <2>1. /\ Decides(op, a) <=> a # 0
        /\ b \in Word => (Decides(op, b) <=> b # 0)
        /\ Truth(op = "or") = 1 /\ 1 # 0
    BY <1>1, <1>4, <1>5 DEF Decides
  <2>2. CASE Decides(op, a)
    BY <1>3, <2>1, <2>2
  <2>3. CASE ~Decides(op, a)
    <3>1. LogicMeaning(op, a, b) = IF b # 0 THEN 1 ELSE 0
      BY <1>1, <1>3, <1>4, <2>3
    <3> QED BY <2>1, <2>3, <3>1
  <2> QED BY <2>2, <2>3
<1>6. CASE op = "and"
  <2>1. /\ Decides(op, a) <=> a = 0
        /\ b \in Word => (Decides(op, b) <=> b = 0)
        /\ Truth(op = "or") = 0
    BY <1>1, <1>4, <1>6 DEF Decides
  <2>2. CASE Decides(op, a)
    BY <1>3, <2>1, <2>2
  <2>3. CASE ~Decides(op, a)
    <3>1. LogicMeaning(op, a, b) = IF b # 0 THEN 1 ELSE 0
      BY <1>1, <1>3, <1>4, <2>3
    <3> QED BY <2>1, <2>3, <3>1
  <2> QED BY <2>2, <2>3
<1> QED BY <1>2, <1>5, <1>6

LEMMA CondDecidedFollows ==
  ASSUME NEW W, NEW D, NEW K, NEW L, Following(W, D, K, L), CondDecided
  PROVE  Follows(frames', run', W, D, K, L)
<1> DEFINE n == Frm.node
           op == nodes[n].op
           a == nodes[n].args[1]
           b == nodes[n].args[2]
           o == ImmI1(op = "or")
<1>1. Ready("logic") /\ Decided(n) /\ Return(o, <<>>) /\ run' = run
  BY DEF CondDecided
<1>2. /\ n \in 1 .. Len(nodes) /\ n # 0 /\ nodes[n].kind = "logic"
      /\ Args(n) = nodes[n].args /\ op \in LogicOps
      /\ a \in 1 .. Len(nodes) /\ b \in 1 .. Len(nodes)
      /\ run = W[L[a] - 1]
      /\ W[n] = W[b] /\ (n \in D <=> b \in D)
      /\ b \in K <=> Decides(op, meant[a])
      /\ b \in K \/ IsConst(b) => W[b] = W[a] /\ (b \in D <=> a \in D)
      /\ IsConst(a) => W[a] = run /\ a \notin D
      /\ b \notin D => meant[n] = LogicMeaning(op, meant[a], meant[b])
      /\ a \notin D => meant[a] \in Word /\ (IsConst(a) => Val(a) = meant[a])
      /\ b \notin D /\ b \notin K =>
           meant[b] \in Word /\ (IsConst(b) => Val(b) = meant[b])
      /\ \/ IsConst(a) /\ ~IsConst(b)
         \/ ~IsConst(a) /\ IsConst(b)
  BY ZenonT(40), <1>1, LogicInHand
<1>3. DecidesConst(op, a) \/ DecidesConst(op, b)
  <2>1. \A k \in 1 .. 2 : k = 1 \/ k = 2
    OBVIOUS
  <2> QED BY Zenon, <1>1, <1>2, <2>1 DEF Decided
<1>4. L[a] \in 1 .. a
  BY <1>2, NodeKnown
<1>a. op \in LogicOps
  BY Zenon, <1>2
<1> HIDE DEF n, op, a, b
<1>5. W[n] = run /\ n \notin D /\ meant[n] = Truth(op = "or")
  <2>1. CASE DecidesConst(op, a)
    <3>1. IsConst(a) /\ Decides(op, Val(a))
      BY <2>1 DEF DecidesConst
    <3>2. a \notin D /\ meant[a] \in Word /\ Decides(op, meant[a])
      BY <1>2, <3>1
    <3>3. b \in K /\ W[b] = run /\ b \notin D
      BY <1>2, <3>1, <3>2
    <3>4. LogicMeaning(op, meant[a], meant[b]) = Truth(op = "or")
      BY <1>a, <3>2, LogicTruth
    <3> QED BY <1>2, <3>3, <3>4
  <2>2. CASE ~DecidesConst(op, a) /\ DecidesConst(op, b)
    <3>1. IsConst(b) /\ Decides(op, Val(b)) /\ ~IsConst(a)
      BY <1>2, <2>2 DEF DecidesConst
    <3>2. n \in DOMAIN nodes
      BY <1>2, TreeKnown
    <3>3. ~NoLateDecision
      BY <1>2, <2>2, <3>1, <3>2 DEF NoLateDecision, op, a, b
    <3>4. Pure
      BY <3>3 DEF Following, Regular
    <3>5. /\ a \in 0 .. Len(nodes) /\ b \in 0 .. Len(nodes)
          /\ L[a] - 1 \in 0 .. Len(nodes)
      BY <1>2, <1>4, TreeKnown
    <3>6. W[L[a] - 1] = W[b] /\ b \notin D /\ a \notin D
      BY <3>4, <3>5, SourceStops
    <3>7. meant[a] \in Word
      BY <1>2, <3>6
    <3>8. LogicMeaning(op, meant[a], meant[b]) = Truth(op = "or")
      <4>1. CASE Decides(op, meant[a])
        BY <1>a, <3>7, <4>1, LogicTruth
      <4>2. CASE ~Decides(op, meant[a])
        <5>1. b \notin K
          BY Zenon, <1>2, <4>2
        <5>2. meant[b] \in Word /\ Decides(op, meant[b])
          BY <1>2, <3>1, <3>6, <5>1
        <5> QED BY <1>a, <3>7, <4>2, <5>2, LogicTruth
      <4> QED BY <4>1, <4>2
    <3> QED BY <1>2, <3>6, <3>8
  <2> QED BY <1>3, <2>1, <2>2
<1>6. o \in OperandSet /\ o.val = Truth(op = "or")
  BY OperandFacts DEF ImmI1
<1> HIDE DEF o
<1>7. Match(o.val, n)
  BY <1>5, <1>6 DEF Match
<1>8. run' = W[n] /\ n # 0 /\ n = Frm.node
  BY <1>1, <1>2, <1>5 DEF n
<1>9. Return(o, <<>>)
  BY <1>1 DEF o
<1> QED BY <1>5, <1>6, <1>7, <1>8, <1>9, ReturnFollows

LEMMA CondPassFollows ==
  ASSUME NEW W, NEW D, NEW K, NEW L, Following(W, D, K, L), CondPass
  PROVE  Follows(frames', run', W, D, K, L)
<1> DEFINE n == Frm.node
           op == nodes[n].op
           a == nodes[n].args[1]
           b == nodes[n].args[2]
<1>1. Ready("logic") /\ ~Decided(n) /\ Instead(PassedTo(n))
  BY DEF CondPass
<1>2. /\ n \in 1 .. Len(nodes) /\ n # 0 /\ nodes[n].kind = "logic" /\ ~IsConst(n)
      /\ Args(n) = nodes[n].args /\ op \in LogicOps /\ Frm.got = <<>>
      /\ a \in 1 .. Len(nodes) /\ b \in 1 .. Len(nodes) /\ a \notin K
      /\ L[n] = L[a] /\ L[b] - 1 = a
      /\ run = W[L[a] - 1] /\ L[a] - 1 \notin D
      /\ W[n] = W[b] /\ (n \in D <=> b \in D)
      /\ b \in K <=> Decides(op, meant[a])
      /\ b \in K \/ IsConst(b) => W[b] = W[a] /\ (b \in D <=> a \in D)
      /\ IsConst(a) => W[a] = run /\ a \notin D
      /\ b \notin D => meant[n] = LogicMeaning(op, meant[a], meant[b])
      /\ a \notin D => meant[a] \in Word /\ (IsConst(a) => Val(a) = meant[a])
      /\ b \notin D /\ b \notin K =>
           meant[b] \in Word /\ (IsConst(b) => Val(b) = meant[b])
      /\ \/ IsConst(a) /\ ~IsConst(b)
         \/ ~IsConst(a) /\ IsConst(b)
  BY ZenonT(40), <1>1, LogicInHand
<1>3. ~DecidesConst(op, a) /\ ~DecidesConst(op, b)
  <2>1. 1 \in 1 .. 2 /\ 2 \in 1 .. 2
    OBVIOUS
  <2> QED BY Zenon, <1>1, <1>2, <2>1 DEF Decided
<1>4. IsRaw(n)
  BY <1>1, <1>2, RawKnown
<1>a. op \in LogicOps
  BY Zenon, <1>2
<1> DEFINE m == PassedTo(n)
<1>5. m = IF IsConst(a) THEN b ELSE a
  BY <1>2 DEF PassedTo
<1> HIDE DEF n, op, a, b
<1>6. ASSUME NEW v \in Word, NEW c, Match(v, c), meant[n] # 0 <=> meant[c] # 0
      PROVE  Match(v, n)
  BY <1>4, <1>6 DEF Match
<1>7. StandsFor(m, n, W, D, K, L)
  <2>1. CASE IsConst(a)
    <3>1. a \notin D /\ meant[a] \in Word /\ ~Decides(op, meant[a]) /\ W[a] = run
      BY <1>2, <1>3, <2>1 DEF DecidesConst
    <3>2. b \notin K /\ ~IsConst(b)
      BY <1>2, <2>1, <3>1
    <3>3. W[L[b] - 1] = W[L[n] - 1] /\ (L[b] - 1 \in D <=> L[n] - 1 \in D)
      BY Zenon, <1>2, <3>1
    <3>4. ASSUME b \notin D PROVE meant[n] # 0 <=> meant[b] # 0
      <4>1. meant[b] \in Word /\ meant[n] = LogicMeaning(op, meant[a], meant[b])
        BY <1>2, <3>2, <3>4
      <4> QED BY <1>a, <3>1, <4>1, LogicTruth
    <3>5. b \notin D => \A v \in Word : Match(v, b) => Match(v, n)
      BY <1>6, <3>4
    <3>6. StandsFor(b, n, W, D, K, L)
      BY Zenon, <1>2, <3>2, <3>3, <3>5 DEF StandsFor
    <3> QED BY <1>5, <2>1, <3>6
  <2>2. CASE ~IsConst(a)
    <3>1. IsConst(b) /\ W[b] = W[a] /\ (b \in D <=> a \in D)
      BY <1>2, <2>2
    <3>2. W[a] = W[n] /\ (a \in D <=> n \in D)
      BY Zenon, <1>2, <3>1
    <3>3. ASSUME a \notin D PROVE meant[n] # 0 <=> meant[a] # 0
      <4>1. meant[a] \in Word /\ b \notin D
            /\ meant[n] = LogicMeaning(op, meant[a], meant[b])
        BY <1>2, <3>1, <3>3
      <4>2. CASE Decides(op, meant[a])
        <5>1. meant[n] = Truth(op = "or")
          BY <1>a, <4>1, <4>2, LogicTruth
        <5>2. op = "or" \/ op = "and"
          BY <1>2 DEF LogicOps
        <5> QED BY <4>2, <5>1, <5>2 DEF Decides, Truth
      <4>3. CASE ~Decides(op, meant[a])
        <5>1. meant[b] \in Word /\ ~Decides(op, meant[b])
          BY <1>2, <1>3, <3>1, <4>1, <4>3 DEF DecidesConst
        <5> QED BY <1>a, <4>1, <5>1, LogicTruth
      <4> QED BY <4>2, <4>3
    <3>4. a \notin D => \A v \in Word : Match(v, a) => Match(v, n)
      BY <1>6, <3>3
    <3>5. StandsFor(a, n, W, D, K, L)
      BY Zenon, <1>2, <2>2, <3>2, <3>4 DEF StandsFor
    <3> QED BY <1>5, <2>2, <3>5
  <2> QED BY <2>1, <2>2
<1>8. Instead(m) /\ Frm.node # 0 /\ Frm.got = <<>> /\ n = Frm.node
  BY <1>1, <1>2 DEF n
<1> HIDE DEF m
<1> QED BY <1>7, <1>8, InsteadFollows

LEMMA FetchExprFollows ==
  ASSUME NEW W, NEW D, NEW K, NEW L, Following(W, D, K, L), FetchExpr
  PROVE  Follows(frames', run', W, D, K, L)
<1>1. /\ Len(Frm.got) < Len(Args(Frm.node)) /\ Kind(Frm.node) \notin {"logic", "paren"}
      /\ ~IsConst(Next1) /\ frames' = Append(frames, Frame(Next1)) /\ run' = run
  BY DEF FetchExpr, Awaits, Fetches
<1> QED BY <1>1, PushFollows

(* The statement's own frame.                                              *)
LEMMA StatementInHand ==
  ASSUME NEW W, NEW D, NEW K, NEW L, Following(W, D, K, L),
         NEW ctx \in AllContexts, Ready(ctx)
  PROVE  /\ Frm.node = 0 /\ context = ctx /\ Args(0) = <<Root>> /\ Args(0)[1] = Root
         /\ Len(Args(0)) = 1 /\ Root \in 1 .. Len(nodes)
         /\ Frm.got = <<>> \/ Len(Frm.got) = 1
<1>1. /\ IInv /\ Lowering /\ Kind(Frm.node) = ctx
  BY DEF Ready, Following
<1>2. Frm.node = 0
  <2> SUFFICES ASSUME Frm.node # 0 PROVE FALSE
    OBVIOUS
  <2>1. Frm.node \in DOMAIN nodes /\ nodes[Frm.node].kind = ctx
    BY <1>1, FrameFacts DEF Kind
  <2>2. nodes[Frm.node].kind \in NodeKinds
    BY <1>1, <2>1, NodeFacts DEF IInv, NodeSet, NodeKinds
  <2> QED BY <2>1, <2>2 DEF NodeKinds, AllContexts
<1>3. Args(0) = <<Root>> /\ Root \in 1 .. Len(nodes)
  BY <1>1, RootFacts, TreeKnown
<1>4. Len(Args(0)) = 1 /\ Args(0)[1] = Root
  BY <1>3, OneOf
<1>5. Len(Frm.got) <= 1 /\ Frm.got \in Seq(OperandSet)
  BY <1>1, <1>2, <1>4, TopFollows, FrameFacts DEF FrameFollows
<1>6. Frm.got = <<>> \/ Len(Frm.got) = 1
  <2>1. Len(Frm.got) \in Nat /\ (Frm.got = <<>> <=> Len(Frm.got) = 0)
    BY <1>5
  <2>2. \A k \in Nat : k <= 1 => k = 0 \/ k = 1
    OBVIOUS
  <2> QED BY Zenon, <1>5, <2>1, <2>2
<1> QED BY <1>1, <1>2, <1>3, <1>4, <1>6 DEF Kind

LEMMA CallStmtFollows ==
  ASSUME NEW W, NEW D, NEW K, NEW L, Following(W, D, K, L), CallStmt
  PROVE  Follows(frames', run', W, D, K, L)
<1>1. /\ Ready("stmt") /\ "stmt" \in AllContexts /\ Frm.got = <<>>
      /\ nodes[Root].kind = "call"
      /\ frames' = Append(frames, Frame(Root)) /\ run' = run
  BY DEF CallStmt, AllContexts
<1>2. /\ Frm.node = 0 /\ context = "stmt" /\ Args(0)[1] = Root
      /\ Len(Args(0)) = 1 /\ Root \in 1 .. Len(nodes)
  BY <1>1, StatementInHand
<1>3. WellFormed(nodes[Root])
  BY <1>2, NodeKnown
<1>4. ~IsConst(Root)
  BY <1>1, <1>3 DEF WellFormed, IsConst
<1>5. Len(Frm.got) = 0
  BY <1>1
<1>6. Next1 = Root /\ Len(Frm.got) < Len(Args(Frm.node))
  BY <1>2, <1>5 DEF Next1
<1>7. Kind(Frm.node) \notin {"logic", "paren"}
  BY <1>2 DEF Kind
<1> QED BY <1>1, <1>4, <1>6, <1>7, PushFollows

(* The statements: with the operand, all that the source does is done.     *)
LEMMA OperandGot ==
  ASSUME NEW W, NEW D, NEW K, NEW L, Following(W, D, K, L),
         NEW ctx \in {"assign", "return", "cond"}, Ready(ctx)
  PROVE  /\ context = ctx /\ ~srcTrap /\ Match(Got(1).val, Root)
         /\ ctx # "cond" => Got(1).val = meant[Root]
         /\ Got(1).val # 0 <=> meant[Root] # 0
         /\ source = IF ctx = "assign" THEN Stored(run, Target, meant[Root]) ELSE run
<1>1. ctx \in AllContexts
  BY DEF AllContexts
<1>2. Frm.node = 0 /\ context = ctx /\ Len(Args(0)) = 1
  BY <1>1, StatementInHand
<1>3. Len(Frm.got) = 1
  BY <1>2 DEF Ready, Fetches
<1>4. /\ ~srcTrap /\ Match(Got(1).val, Root)
      /\ source = IF context = "assign" THEN Stored(run, Target, meant[Root]) ELSE run
  BY <1>2, <1>3, StatementFollows
<1>5. ctx # "cond" => ~IsRaw(Root)
  BY <1>2 DEF Following, Regular, TruthSuffices, IsRaw
<1>6. /\ Got(1).val # 0 <=> meant[Root] # 0
      /\ ~IsRaw(Root) => Got(1).val = meant[Root]
  BY <1>4 DEF Match
<1> QED BY <1>2, <1>4, <1>5, <1>6

(* What it takes for a finished statement to be exact.                     *)
LEMMA ExactWhen ==
  ASSUME UNCHANGED <<ast, context>>, run' = source, ~srcTrap, phase' # "trapped",
         context = "cond" => (outcome' # 0 <=> meant[Root] # 0),
         context \notin {"cond", "stmt"} => outcome' = meant[Root]
  PROVE  LoweringExact'
<1>1. /\ stack' = stack /\ meant' = meant /\ source' = source /\ srcTrap' = srcTrap
      /\ context' = context
  BY DEF ast
<1>2. meant'[Root'] = meant[Root]
  BY <1>1 DEF Root
<1>3. CASE context = "cond"
  BY <1>1, <1>2, <1>3 DEF LoweringExact
<1>4. CASE context = "stmt"
  BY <1>1, <1>4 DEF LoweringExact
<1>5. CASE context \notin {"cond", "stmt"}
  BY <1>1, <1>2, <1>5 DEF LoweringExact
<1> QED BY <1>3, <1>4, <1>5

LEMMA TranslateAssignOperatorExact ==
  ASSUME NEW W, NEW D, NEW K, NEW L, Following(W, D, K, L), TranslateAssignOperator
  PROVE  LoweringExact'
<1>1. /\ Ready("assign") /\ run' = Stored(run, Target, Got(1).val) /\ phase' = "done"
      /\ outcome' = Got(1).val /\ UNCHANGED <<ast, context>>
  BY DEF TranslateAssignOperator, Finish
<1>2. /\ context = "assign" /\ ~srcTrap /\ Got(1).val = meant[Root]
      /\ source = Stored(run, Target, meant[Root])
  BY <1>1, OperandGot
<1> QED BY <1>1, <1>2, ExactWhen

LEMMA TranslateReturnStmtExact ==
  ASSUME NEW W, NEW D, NEW K, NEW L, Following(W, D, K, L), TranslateReturnStmt
  PROVE  LoweringExact'
<1>1. /\ Ready("return") /\ run' = run /\ phase' \in {"done", "thrown"}
      /\ outcome' = Got(1).val /\ UNCHANGED <<ast, context>>
  BY DEF TranslateReturnStmt, Finish
<1>2. context = "return" /\ ~srcTrap /\ Got(1).val = meant[Root] /\ source = run
  BY <1>1, OperandGot
<1> QED BY <1>1, <1>2, ExactWhen

LEMMA TranslateIfStmtExact ==
  ASSUME NEW W, NEW D, NEW K, NEW L, Following(W, D, K, L), TranslateIfStmt
  PROVE  LoweringExact'
<1>1. /\ Ready("cond") /\ run' = run /\ phase' = "done"
      /\ outcome' = Got(1).val /\ UNCHANGED <<ast, context>>
  BY DEF TranslateIfStmt, Finish
<1>2. /\ context = "cond" /\ ~srcTrap /\ source = run
      /\ Got(1).val # 0 <=> meant[Root] # 0
  BY <1>1, OperandGot
<1> QED BY <1>1, <1>2, ExactWhen

LEMMA ExprStmtExact ==
  ASSUME NEW W, NEW D, NEW K, NEW L, Following(W, D, K, L), ExprStmt
  PROVE  LoweringExact'
<1>1. /\ Ready("stmt") /\ "stmt" \in AllContexts
      /\ Frm.got # <<>> \/ nodes[Root].kind # "call"
      /\ run' = run /\ phase' = "done" /\ UNCHANGED <<ast, context>>
  BY DEF ExprStmt, Finish, AllContexts
<1>2. /\ Frm.node = 0 /\ context = "stmt" /\ Root \in 1 .. Len(nodes)
      /\ Frm.got = <<>> \/ Len(Frm.got) = 1
  BY <1>1, StatementInHand
<1>3. source = run /\ ~srcTrap
  <2>1. CASE Frm.got = <<>>
    <3>1. Pure
      BY <1>1, <1>2, <2>1 DEF Following, Regular
    <3>2. /\ Len(nodes) \in Nat /\ (srcTrap <=> Len(nodes) \in D)
          /\ source = W[Len(nodes)]
      BY <1>2, TreeKnown
    <3>3. run = W[L[Root] - 1]
      BY <1>2, <2>1, TopFollows DEF Position, First
    <3>4. L[Root] \in 1 .. Root
      BY <1>2, NodeKnown
    <3>5. L[Root] - 1 \in 0 .. Len(nodes) /\ Len(nodes) \in 0 .. Len(nodes)
      BY <1>2, <3>2, <3>4
    <3>6. W[L[Root] - 1] = W[Len(nodes)] /\ Len(nodes) \notin D
      BY <3>1, <3>5, SourceStops
    <3> QED BY <3>2, <3>3, <3>6
  <2>2. CASE Len(Frm.got) = 1
    BY <1>2, <2>2, StatementFollows
  <2> QED BY <1>2, <2>1, <2>2
<1> QED BY <1>1, <1>2, <1>3, ExactWhen

-----------------------------------------------------------------------------
(* The whole step, and the theorems.                                       *)

(* The lowering begins where the source begins.                            *)
LEMMA BeginX ==
  ASSUME XInv, NEW ctx \in Contexts, Begin(ctx), IInv'
  PROVE  XInv'
<1>1. /\ IInv /\ phase = "parse" /\ Len(stack) = 1 /\ IsOperand(1)
      /\ context' = ctx /\ frames' = <<Frame(0)>> /\ phase' = "lower"
      /\ source' = IF ctx = "assign" /\ ~srcTrap
                   THEN Stored(source, Target, meant[Root]) ELSE source
      /\ UNCHANGED <<nodes, stack, consts, meant, srcTrap, code, run, outcome>>
  BY DEF Begin, Parsing, XInv
<1>2. PICK W, D, K, L : Remembered(W, D, K, L)
  BY DEF XInv
<1>3. /\ Recorded(nodes, meant, W, D, K, L) /\ (srcTrap <=> Len(nodes) \in D)
      /\ StackRecorded(W, D, K, L) /\ run = Start0 /\ source = W[Len(nodes)]
  BY <1>1, <1>2 DEF Remembered
<1>4. 1 \in 1 .. Len(stack) /\ 1 - 1 = 0 /\ stack # <<>>
  BY <1>1
<1>5. Root = Len(nodes)
  BY <1>1, <1>3, <1>4 DEF StackRecorded, Top, Root
<1>6. Root \notin K
  <2>1. stack[1].node \in K <=> Skipping(0)
    BY <1>3, <1>4 DEF StackRecorded
  <2> QED BY <2>1, SkipNothing DEF Root
<1>7. Remembered(W, D, K, L)'
  BY <1>1, <1>3, <1>5, <1>6 DEF Remembered, Root
<1>8. W[L[Root] - 1] = Start0 /\ L[Root] - 1 \notin D
  BY <1>3, <1>4 DEF StackRecorded, StackFirst, Root
<1>9. Follows(frames, run, W, D, K, L)'
  <2> DEFINE f == Frame(0)
             fs == <<f>>
  <2>1. /\ f.node = 0 /\ f.got = <<>> /\ Len(<<>>) = 0 /\ 0 <= 1
        /\ 1 .. 0 = {} /\ 1 .. 1 = {1} /\ 1 - 1 = 0
    BY DEF Frame
  <2> HIDE DEF f
  <2>2. Len(fs) = 1 /\ fs[1] = f
    OBVIOUS
  <2> HIDE DEF fs
  <2>3. /\ Root' = Root /\ Args(0)' = <<Root>> /\ Kind(0)' = ctx
    BY <1>1 DEF Root, Args, Kind
  <2>4. Len(Args(0)') = 1
    BY <2>3, OneOf
  <2>5. ctx \notin {"logic", "paren"}
    BY OpsAssumption DEF AllContexts
  <2>6. FrameFollows(f, K)'
    BY Zenon, <2>1, <2>3, <2>4, <2>5 DEF FrameFollows
  <2>7. Position(f, L)' = L[Root] - 1
    BY Zenon, <2>1, <2>3 DEF Position, First
  <2>8. frames' = fs /\ run' = Start0
    BY <1>1, <1>3 DEF fs, f
  <2>9. \A i \in 1 .. Len(fs) : i = 1
    BY <2>1, <2>2
  <2>10. 1 .. Len(fs) - 1 = {}
    BY <2>1, <2>2
  <2> QED BY Zenon, <1>8, <2>2, <2>6, <2>7, <2>8, <2>9, <2>10 DEF Follows
<1>10. Lowered(W, D, K, L)'
  BY <1>9 DEF Lowered
<1>11. LoweringExact'
  BY <1>1 DEF LoweringExact
<1>12. (\E R : RawSet(nodes, R))'
  BY <1>1 DEF XInv
<1> QED BY <1>7, <1>10, <1>11, <1>12 DEF XInv

(* The steps of the lowering.                                              *)
LEMMA LowerX ==
  ASSUME XInv, Lower, IInv'
  PROVE  XInv'
<1>1. CASE \E ctx \in Contexts : Begin(ctx)
  BY <1>1, BeginX
<1>2. ASSUME UNCHANGED ast, UNCHANGED context, Lowering, phase' \notin {"parse", "crashed"},
             \A W, D, K, L : Following(W, D, K, L) =>
               /\ phase' = "lower" => Follows(frames', run', W, D, K, L)
               /\ phase' \in {"done", "trapped"} => LoweringExact'
      PROVE  XInv'
  BY <1>2, LoweringKeeps
<1>3. CASE FetchConst
  <2>1. UNCHANGED <<ast, context, phase>> /\ Lowering
    BY <1>3 DEF FetchConst, Awaits
  <2> QED BY <1>2, <1>3, <2>1, ConstFollows DEF Lowering
<1>4. CASE FetchExpr
  <2>1. UNCHANGED <<ast, context, phase>> /\ Lowering
    BY <1>4 DEF FetchExpr, Awaits
  <2> QED BY <1>2, <1>4, <2>1, FetchExprFollows DEF Lowering
<1>5. CASE ParenExpr
  <2>1. UNCHANGED <<ast, context, phase>> /\ Lowering
    BY <1>5 DEF ParenExpr, Ready, Instead
  <2> QED BY <1>2, <1>5, <2>1, ParenExprFollows DEF Lowering
<1>6. CASE LoadVar
  <2>1. UNCHANGED <<ast, context, phase>> /\ Lowering
    BY <1>6 DEF LoadVar, Ready, Return
  <2> QED BY <1>2, <1>6, <2>1, LoadVarFollows DEF Lowering
<1>7. CASE LoadElement
  <2>1. UNCHANGED <<ast, context>> /\ Lowering /\ phase' \in {"lower", "trapped"}
    BY <1>7 DEF LoadElement, Ready, Return, Lowering
  <2> QED BY <1>2, <1>7, <2>1, LoadElementFollows
<1>8. CASE TranslateCallExpr
  <2>1. UNCHANGED <<ast, context, phase>> /\ Lowering
    BY <1>8 DEF TranslateCallExpr, Ready, Return
  <2> QED BY <1>2, <1>8, <2>1, TranslateCallExprFollows DEF Lowering
<1>9. CASE TranslateBinaryOperator
  <2>1. UNCHANGED <<ast, context>> /\ Lowering /\ phase' \in {"lower", "thrown", "trapped"}
    BY <1>9 DEF TranslateBinaryOperator, Ready, Return, Lowering
  <2> QED BY <1>2, <1>9, <2>1, TranslateBinaryOperatorFollows
<1>10. CASE CondDecided
  <2>1. UNCHANGED <<ast, context, phase>> /\ Lowering
    BY <1>10 DEF CondDecided, Ready, Return
  <2> QED BY <1>2, <1>10, <2>1, CondDecidedFollows DEF Lowering
<1>11. CASE CondPass
  <2>1. UNCHANGED <<ast, context, phase>> /\ Lowering
    BY <1>11 DEF CondPass, Ready, Instead
  <2> QED BY <1>2, <1>11, <2>1, CondPassFollows DEF Lowering
<1>12. CASE TranslateUnaryOperator
  <2>1. UNCHANGED <<ast, context, phase>> /\ Lowering
    BY <1>12 DEF TranslateUnaryOperator, Ready, Return
  <2> QED BY <1>2, <1>12, <2>1, TranslateUnaryOperatorFollows DEF Lowering
<1>13. CASE TranslateAssignOperator
  <2>1. UNCHANGED <<ast, context>> /\ Lowering /\ phase' = "done"
    BY <1>13 DEF TranslateAssignOperator, Ready, Finish
  <2> QED BY <1>2, <1>13, <2>1, TranslateAssignOperatorExact
<1>14. CASE TranslateReturnStmt
  <2>1. UNCHANGED <<ast, context>> /\ Lowering /\ phase' \in {"done", "thrown"}
    BY <1>14 DEF TranslateReturnStmt, Ready, Finish
  <2> QED BY <1>2, <1>14, <2>1, TranslateReturnStmtExact
<1>15. CASE TranslateIfStmt
  <2>1. UNCHANGED <<ast, context>> /\ Lowering /\ phase' = "done"
    BY <1>15 DEF TranslateIfStmt, Ready, Finish
  <2> QED BY <1>2, <1>15, <2>1, TranslateIfStmtExact
<1>16. CASE CallStmt
  <2>1. UNCHANGED <<ast, context, phase>> /\ Lowering
    BY <1>16 DEF CallStmt, Ready
  <2> QED BY <1>2, <1>16, <2>1, CallStmtFollows DEF Lowering
<1>17. CASE ExprStmt
  <2>1. UNCHANGED <<ast, context>> /\ Lowering /\ phase' = "done"
    BY <1>17 DEF ExprStmt, Ready, Finish
  <2> QED BY <1>2, <1>17, <2>1, ExprStmtExact
<1> QED
  BY <1>1, <1>3, <1>4, <1>5, <1>6, <1>7, <1>8, <1>9, <1>10, <1>11, <1>12, <1>13,
     <1>14, <1>15, <1>16, <1>17 DEF Lower

LEMMA StutterX ==
  ASSUME XInv, UNCHANGED vars, IInv'
  PROVE  XInv'
<1>1. /\ nodes' = nodes /\ stack' = stack /\ meant' = meant /\ source' = source
      /\ srcTrap' = srcTrap /\ context' = context /\ frames' = frames /\ run' = run
      /\ outcome' = outcome /\ phase' = phase /\ UNCHANGED <<ast, context>>
  BY DEF vars, ast, low
<1>2. PICK W, D, K, L : Remembered(W, D, K, L) /\ Lowered(W, D, K, L)
  BY DEF XInv
<1>3. Regular' <=> Regular
  BY <1>1, RegularStays
<1>4. Remembered(W, D, K, L)'
  BY <1>1, <1>2
     DEF Remembered, StackRecorded, Top, StackFirst, Skipping, Root
<1>5. Lowered(W, D, K, L)'
  <2> SUFFICES ASSUME phase' = "lower", Regular'
               PROVE  Follows(frames, run, W, D, K, L)'
    BY DEF Lowered
  <2>1. Follows(frames', run', W, D, K, L)
    BY <1>1, <1>2, <1>3 DEF Lowered
  <2> QED BY <1>1, <2>1, FollowsNext
<1>6. LoweringExact'
  BY <1>1, <1>3 DEF XInv, LoweringExact, Root
<1>7. (\E R : RawSet(nodes, R))'
  BY <1>1 DEF XInv
<1> QED BY <1>4, <1>5, <1>6, <1>7 DEF XInv

LEMMA InitX == Init => XInv
<1> SUFFICES ASSUME Init PROVE XInv
  OBVIOUS
<1> DEFINE W == [i \in 0 .. 0 |-> Start0]
<1>1. /\ nodes = <<>> /\ stack = <<>> /\ meant = <<>> /\ source = Start0
      /\ srcTrap = FALSE /\ run = Start0 /\ phase = "parse"
  BY DEF Init, Start0
<1>2. Len(<<>>) = 0 /\ 0 .. 0 = {0} /\ 1 .. 0 = {} /\ 0 - 1 = -1 /\ 1 .. -1 = {}
  OBVIOUS
<1>3. Start0 \in Program
  <2>1. <<>> \in Seq(Vars \X Word)
    OBVIOUS
  <2> QED BY <2>1, StartAssumption DEF Start0, Program
<1>4. Recorded(nodes, meant, W, {}, {}, <<>>)
  <2>1. Len(nodes) = 0 /\ W \in [0 .. 0 -> Program] /\ W[0] = Start0
    BY <1>1, <1>2, <1>3
  <2> HIDE DEF W
  <2> QED BY <1>2, <2>1 DEF Recorded
<1>5. StackRecorded(W, {}, {}, <<>>)
  <2>1. Len(nodes) = 0 /\ Len(stack) = 0 /\ StackFirst(<<>>) = 0 /\ W[0] = Start0
    BY <1>1, <1>2 DEF StackFirst
  <2> HIDE DEF W
  <2> QED BY <1>1, <1>2, <2>1 DEF StackRecorded
<1>6. source = W[Len(nodes)] /\ (srcTrap <=> Len(nodes) \in {})
  BY <1>1, <1>2
<1> HIDE DEF W
<1>7. Remembered(W, {}, {}, <<>>) /\ Lowered(W, {}, {}, <<>>)
  BY <1>1, <1>4, <1>5, <1>6 DEF Remembered, Lowered
<1>8. RawSet(nodes, {})
  BY <1>1, <1>2 DEF RawSet
<1>9. LoweringExact
  BY <1>1 DEF LoweringExact
<1> QED BY <1>7, <1>8, <1>9, InitInv DEF XInv

LEMMA NextX == XInv /\ [Next]_vars => XInv'
<1> SUFFICES ASSUME XInv, [Next]_vars
             PROVE  XInv'
  OBVIOUS
<1>1. IInv'
  BY NextInv DEF XInv
<1>2. CASE Parse
  BY <1>2, ParseXInv
<1>3. CASE Lower
  BY <1>1, <1>3, LowerX
<1>4. CASE Stopped \/ UNCHANGED vars
  BY <1>1, <1>4, StutterX DEF Stopped
<1> QED BY <1>2, <1>3, <1>4 DEF Next

(* The inductive invariant holds in every state the compiler reaches.      *)
THEOREM Invariance == Spec => []IInv
BY InitInv, NextInv, PTL DEF Spec

(* The tree, the meanings, the frames and the code are of their types.     *)
THEOREM TypeCorrect == Spec => []TypeOK
<1>1. IInv => TypeOK
  BY DEF IInv
<1> QED BY <1>1, Invariance, PTL

(* CalculateValue gives a constant the value the language gives it, for    *)
(* every width of an int: wrap-around, division and truth values included. *)
THEOREM FoldingIsExact == Spec => []FoldingExact
<1>1. IInv => FoldingExact
  BY DEF IInv
<1> QED BY <1>1, Invariance, PTL

(* The compiler dies of a division only if the source reaches an undefined *)
(* one, or has it in an operand that && or || skips.                       *)
THEOREM CrashesOnlyOnTraps == Spec => []CrashMeansTrap
<1>1. IInv => CrashMeansTrap
  BY DEF IInv
<1> QED BY <1>1, Invariance, PTL

(* Every instruction that the lowering of an expression emits has operands *)
(* of the types its constructor demands, but for the i1 of a return.       *)
THEOREM OperandsAlwaysTyped == Spec => []OperandsTyped
<1>1. IInv => OperandsTyped
  BY DEF IInv
<1> QED BY <1>1, Invariance, PTL

(* TranslateExpr's code for a Regular expression does what the source      *)
(* does: the same calls in the same order, the same assignments, the same  *)
(* value where one is asked for, and a trap exactly where the source's     *)
(* evaluation reaches an undefined division.                               *)
THEOREM LoweringIsExact == Spec => []LoweringExact
<1>1. XInv => LoweringExact
  BY DEF XInv
<1> QED BY <1>1, InitX, NextX, PTL DEF Spec
=============================================================================
