---------------------------- MODULE Expressions ----------------------------
(***************************************************************************)
(* Expressions: evaluation of constants on the AST (CalculateValue in      *)
(* src/src/frontend/ast_manager.cc), then lowering to the IR of one basic  *)
(* block (TranslateExpr and its callees in src/src/frontend/ast_to_ir.cc). *)
(*                                                                         *)
(* Three things are compared.  The parser builds the tree from the leaves  *)
(* up, and since its order is the order of evaluation, the meaning of the  *)
(* source is computed beside it, with calls that change variables, and     *)
(* operands that && and || skip.  CalculateValue folds each node when its  *)
(* operands are done (the traversal comes after the parse, in the same     *)
(* order, and nothing between the two reads a value).  Then the lowering   *)
(* walks the tree, and each IR instruction is executed when it is emitted, *)
(* which in one block is the run of the finished code.                     *)
(*                                                                         *)
(* Left out: && and || on two operands that are no constants, which make   *)
(* blocks (module AstToIR); more than one argument; arrays that are not    *)
(* constant; the numbers of temporaries (module AstToIR).                  *)
(*                                                                         *)
(* A definition whose name has a suffix after an underscore is a wrong     *)
(* form of the one that follows it, which no action uses.                  *)
(***************************************************************************)
EXTENDS Integers, SequencesExt

CONSTANTS
  Half,       (* an int holds -Half .. Half - 1; in the code Half = 2^31   *)
  Literals,   (* the integer literals                                      *)
  Vars,       (* the int variables; a call set_x(e) assigns e to x         *)
  Start,      (* their value at the beginning                              *)
  Table,      (* the elements of a constant array                          *)
  Ops,        (* the binary operators met                                  *)
  UnaryOps,   (* the unary operators met, among them ( )                   *)
  Contexts,   (* where an expression stands                                *)
  MaxNodes    (* bound on the number of nodes                              *)

ArithOps == {"add", "sub", "mul", "div", "rem"}
RelOps   == {"eq", "ne", "lt", "le", "gt", "ge"}
LogicOps == {"or", "and"}
AllUnary == {"plus", "minus", "not", "paren"}
AllContexts == {"assign", "return", "cond", "stmt"}

Word == -Half .. Half - 1

ASSUME HalfAssumption == Half \in Nat \ {0, 1}
ASSUME LiteralsAssumption == Literals \subseteq Word
ASSUME StartAssumption == Start \in Word
ASSUME TableAssumption == Table \in Seq(Word)
ASSUME OpsAssumption ==
  /\ Ops \subseteq ArithOps \cup RelOps \cup LogicOps
  /\ UnaryOps \subseteq AllUnary /\ Contexts \subseteq AllContexts
ASSUME VarsAssumption ==            (* a node holds a name or an operator   *)
  Vars \cap (AllUnary \cup ArithOps \cup RelOps \cup LogicOps) = {}
ASSUME MaxNodesAssumption == MaxNodes \in Nat

VARIABLES
  (* the AST                                                               *)
  nodes,      (* the nodes, children before parents                        *)
  stack,      (* the parser's operands that await their operator           *)
  consts,     (* the nodes that initialise a constant                      *)
  (* the meaning of the source                                             *)
  meant,      (* the value of each node                                    *)
  source,     (* variables and calls                                       *)
  srcTrap,    (* did it do something undefined, as to divide by zero?      *)
  (* the lowering and the run of its code                                  *)
  context,    (* where the expression stands                               *)
  frames,     (* the calls of TranslateExpr that have not returned         *)
  code,       (* the instructions emitted, with the types of their operands*)
  run,        (* variables and calls                                       *)
  outcome,    (* the value that is assigned, returned or tested            *)
  phase

ast  == <<nodes, stack, consts, meant, source, srcTrap>>
low  == <<context, frames, code, run, outcome>>
vars == <<ast, low, phase>>

-----------------------------------------------------------------------------
(* Integers of 32 bits, on the host and in the IR: they wrap around, and   *)
(* division rounds towards zero.                                           *)
Absent   == Half          (* no word: what was not evaluated has no value  *)
Truth(b) == IF b THEN 1 ELSE 0
Wrap(i)  == ((i + Half) % (2 * Half)) - Half
Size(i)  == IF i < 0 THEN -i ELSE i

Quotient(a, b) ==
  LET q == Size(a) \div Size(b) IN IF (a < 0) = (b < 0) THEN q ELSE -q

(* The division instruction traps.                                         *)
Undefined(op, a, b) ==
  op \in {"div", "rem"} /\ (b = 0 \/ (a = -Half /\ b = -1))

Int32(op, a, b) ==
  CASE op = "add" -> Wrap(a + b)
    [] op = "sub" -> Wrap(a - b)
    [] op = "mul" -> Wrap(a * b)
    [] op = "div" -> Wrap(Quotient(a, b))
    [] op = "rem" -> Wrap(a - (b * Quotient(a, b)))
    [] op = "eq"  -> Truth(a = b)
    [] op = "ne"  -> Truth(a # b)
    [] op = "lt"  -> Truth(a < b)
    [] op = "le"  -> Truth(a <= b)
    [] op = "gt"  -> Truth(a > b)
    [] OTHER      -> Truth(a >= b)

(* BinaryOperator::CalculateValue and UnaryOperator::CalculateValue.       *)
Folded_AndAsProduct(op, a, b) ==
  CASE op = "or"  -> Truth(Wrap(a + b) # 0)
    [] op = "and" -> Truth(Wrap(a * b) # 0)
    [] OTHER      -> Int32(op, a, b)
Folded(op, a, b) ==
  CASE op = "or"  -> Truth(a # 0 \/ b # 0)
    [] op = "and" -> Truth(a # 0 /\ b # 0)
    [] OTHER      -> Int32(op, a, b)

FoldedUnary_NoWrap(op, a) ==
  CASE op = "minus" -> -a
    [] op = "not"   -> Truth(a = 0)
    [] OTHER        -> a
FoldedUnary(op, a) ==
  CASE op = "minus" -> Wrap(-a)
    [] op = "not"   -> Truth(a = 0)
    [] OTHER        -> a

(* The state a program leaves behind: variables, and calls in order.       *)
Called(w, x, v) ==
  [mem |-> [w.mem EXCEPT ![x] = v], calls |-> Append(w.calls, <<x, v>>)]
Stored(w, x, v) == [mem |-> [w.mem EXCEPT ![x] = v], calls |-> w.calls]

-----------------------------------------------------------------------------
(* Building and folding.  An entry of the stack is a node and, if it is    *)
(* the left operand of && or || whose right one is being read, that        *)
(* operator.                                                               *)
Node(kind, op, args, const, value) ==
  [kind |-> kind, op |-> op, args |-> args, const |-> const, value |-> value]

New      == Len(nodes) + 1
Parsing  == phase = "parse"
Room     == Parsing /\ Len(nodes) < MaxNodes
Operand(n) == [node |-> n, logic |-> "none"]
IsOperand(i) == i \in DOMAIN stack /\ stack[i].logic = "none"
Top      == stack[Len(stack)].node
Second   == stack[Len(stack) - 1].node
Popped(k) == SubSeq(stack, 1, Len(stack) - k)
IsConst(n) == nodes[n].const
Val(n)     == nodes[n].value

(* The left operand decides the operator: the source skips the right one.  *)
Decides(op, v) == v # Absent /\ ((op = "or" /\ v # 0) \/ (op = "and" /\ v = 0))
Skipping(k) == \E i \in 1 .. k : Decides(stack[i].logic, meant[stack[i].node])
Reached(k)  == ~srcTrap /\ ~Skipping(k)
Evaluated   == Reached(Len(stack))

(* A node on top of the k topmost operands, which is worth v.              *)
Reduce(k, node, v) ==
  /\ nodes' = Append(nodes, node)
  /\ meant' = Append(meant, IF Reached(Len(stack) - k) THEN v ELSE Absent)
  /\ stack' = Append(Popped(k), Operand(New))

NoEffect == UNCHANGED <<source, srcTrap>>

IntegerLiteral(v) ==
  /\ Room
  /\ Reduce(0, Node("literal", "none", <<>>, TRUE, v), v)
  /\ NoEffect /\ UNCHANGED <<consts, low, phase>>

(* DeclRefExpr to a variable, and to a constant: its initialiser's value.  *)
VarRef(x) ==
  /\ Room
  /\ Reduce(0, Node("var", x, <<>>, FALSE, 0), source.mem[x])
  /\ NoEffect /\ UNCHANGED <<consts, low, phase>>

ConstRef(d) ==
  /\ Room /\ d \in consts
  /\ Reduce(0, Node("const", "none", <<>>, TRUE, Val(d)), meant[d])
  /\ NoEffect /\ UNCHANGED <<consts, low, phase>>

(* An element of the constant array: a constant if its index is one.  A    *)
(* constant index lies in the array: with one that does not, as in t[9],   *)
(* CalculateValue reads init_list behind its end inside the compiler, also *)
(* in an operand that && or || skips, and no such program is modelled.     *)
InTable(i) == i # Absent /\ i \in 0 .. Len(Table) - 1
ElementRef ==
  LET i == meant[Top] IN
  /\ Room /\ IsOperand(Len(stack))
  /\ IsConst(Top) => InTable(Val(Top))
  /\ Reduce(1, Node("element", "none", <<Top>>, IsConst(Top),
                    IF IsConst(Top) THEN Table[Val(Top) + 1] ELSE 0),
            IF InTable(i) THEN Table[i + 1] ELSE Absent)
  /\ srcTrap' = (srcTrap \/ (Evaluated /\ i # Absent /\ ~InTable(i)))
  /\ UNCHANGED <<source, consts, low, phase>>

(* set_x(e)                                                                *)
Call(x) ==
  LET v == meant[Top] IN
  /\ Room /\ IsOperand(Len(stack))
  /\ Reduce(1, Node("call", x, <<Top>>, FALSE, 0), v)
  /\ source' = IF Evaluated /\ v # Absent THEN Called(source, x, v) ELSE source
  /\ UNCHANGED <<srcTrap, consts, low, phase>>

UnaryNode(op) ==
  Node(IF op = "paren" THEN "paren" ELSE "unary", op, <<Top>>, IsConst(Top),
       IF IsConst(Top) THEN FoldedUnary(op, Val(Top)) ELSE 0)

UnaryMeaning(op, v) ==
  IF v = Absent THEN Absent
  ELSE CASE op = "minus" -> IF v = -Half THEN v ELSE -v
         [] op = "not"   -> IF v = 0 THEN 1 ELSE 0
         [] OTHER        -> v

Unary(op) ==
  /\ Room /\ IsOperand(Len(stack))
  /\ Reduce(1, UnaryNode(op), UnaryMeaning(op, meant[Top]))
  /\ NoEffect /\ UNCHANGED <<consts, low, phase>>

(* BinaryOperator: it folds if both operands are constants.  To divide     *)
(* ints of the compiler by zero ends the compiler (SIGFPE).                *)
BothConst == IsConst(Second) /\ IsConst(Top)
BinaryNode(op) ==
  Node(IF op \in LogicOps THEN "logic" ELSE "binary", op, <<Second, Top>>, BothConst,
       IF BothConst THEN Folded(op, Val(Second), Val(Top)) ELSE 0)

Crashes_EitherConst(op) ==
  (IsConst(Second) \/ IsConst(Top)) /\ Undefined(op, Val(Second), Val(Top))
Crashes(op) == BothConst /\ Undefined(op, Val(Second), Val(Top))

Binary(op) ==
  LET a == meant[Second]  b == meant[Top]
      known == a # Absent /\ b # Absent
  IN
  /\ Room /\ IsOperand(Len(stack)) /\ IsOperand(Len(stack) - 1)
  /\ srcTrap' = (srcTrap \/ (Evaluated /\ known /\ Undefined(op, a, b)))
  /\ UNCHANGED <<source, consts, low>>
  /\ IF Crashes(op)
     THEN phase' = "crashed" /\ UNCHANGED <<nodes, meant, stack>>
     ELSE /\ Reduce(2, BinaryNode(op),
                    IF known /\ ~Undefined(op, a, b) THEN Int32(op, a, b)
                    ELSE Absent)
          /\ UNCHANGED phase

(* && and ||: the operator is read, then the right operand.                *)
LogicLeft(op) ==
  /\ Room /\ IsOperand(Len(stack))
  /\ stack' = Append(Popped(1), [node |-> Top, logic |-> op])
  /\ UNCHANGED <<nodes, consts, meant, source, srcTrap, low, phase>>

LogicMeaning(op, a, b) ==
  IF a = Absent THEN Absent
  ELSE IF Decides(op, a) THEN Truth(op = "or")
  ELSE IF b = Absent THEN Absent ELSE Truth(b # 0)

LogicRight ==
  LET op == stack[Len(stack) - 1].logic IN
  /\ Room /\ IsOperand(Len(stack)) /\ Len(stack) > 1 /\ op \in LogicOps
  /\ IsConst(Second) \/ IsConst(Top)
  /\ Reduce(2, BinaryNode(op), LogicMeaning(op, meant[Second], meant[Top]))
  /\ NoEffect /\ UNCHANGED <<consts, low, phase>>

(* const int c = e; the expression that follows may use c.                 *)
ConstDecl ==
  /\ Room /\ Len(stack) = 1 /\ IsOperand(1) /\ IsConst(Top)
  /\ consts' = consts \cup {Top}
  /\ stack' = <<>>
  /\ UNCHANGED <<nodes, meant, source, srcTrap, low, phase>>

-----------------------------------------------------------------------------
(* Lowering.  A frame is a call of a Translate function for a node and the *)
(* operands it has got so far; node 0 is the statement.  An operand is an  *)
(* immediate or a temporary of type i1 or i32, with its value in the run.  *)
Imm(v)      == [imm |-> TRUE,  width |-> 32, val |-> v]
ImmI1(b)    == [imm |-> TRUE,  width |-> 1,  val |-> Truth(b)]
Tmp(w, v)   == [imm |-> FALSE, width |-> w,  val |-> v]
Inst(i, os) == [inst |-> i, types |-> [k \in DOMAIN os |-> os[k].width]]
Frame(n)    == [node |-> n, got |-> <<>>]

Root     == stack[1].node
Lowering == phase = "lower"
Frm      == frames[Len(frames)]
Caller   == frames[Len(frames) - 1]
Got(k)   == Frm.got[k]
Kind(n)  == IF n = 0 THEN context ELSE nodes[n].kind
Args(n)  == IF n = 0 THEN <<Root>> ELSE nodes[n].args
Fetches(kind) == kind \notin {"logic", "paren", "stmt"}

Target == CHOOSE x \in Vars : TRUE       (* what an assignment assigns to *)

Begin(ctx) ==
  /\ Parsing /\ Len(stack) = 1 /\ IsOperand(1)
  /\ context' = ctx
  /\ frames' = <<Frame(0)>>
  /\ phase' = "lower"
  /\ source' = IF ctx = "assign" /\ ~srcTrap
               THEN Stored(source, Target, meant[Root]) ELSE source
  /\ UNCHANGED <<nodes, stack, consts, meant, srcTrap, code, run, outcome>>

(* Each Translate function takes the value of an operand that is a         *)
(* constant, and calls TranslateExpr for any other.                        *)
Next1 == Args(Frm.node)[Len(Frm.got) + 1]
Awaits == Lowering /\ Fetches(Kind(Frm.node)) /\ Len(Frm.got) < Len(Args(Frm.node))

WithOperand_First(f, o) == [node |-> f.node, got |-> <<o>> \o f.got]
WithOperand(f, o) == [node |-> f.node, got |-> Append(f.got, o)]

FetchConst ==
  /\ Awaits /\ IsConst(Next1)
  /\ frames' = [frames EXCEPT ![Len(frames)] = WithOperand(Frm, Imm(Val(Next1)))]
  /\ UNCHANGED <<ast, context, code, run, outcome, phase>>

FetchExpr ==
  /\ Awaits /\ ~IsConst(Next1)
  /\ frames' = Append(frames, Frame(Next1))
  /\ UNCHANGED <<ast, context, code, run, outcome, phase>>

Ready(kind) ==
  /\ Lowering /\ Kind(Frm.node) = kind
  /\ Fetches(kind) => Len(Frm.got) = Len(Args(Frm.node))

(* The call on top returns o, having added instrs to the block.            *)
Return(o, instrs) ==
  /\ frames' = [Front(frames) EXCEPT ![Len(frames) - 1] = WithOperand(Caller, o)]
  /\ code' = code \o instrs
  /\ UNCHANGED <<ast, context, outcome>>

(* A tail call.                                                            *)
Instead(n) ==
  /\ frames' = [frames EXCEPT ![Len(frames)] = Frame(n)]
  /\ UNCHANGED <<ast, context, code, run, outcome, phase>>

ParenExpr == Ready("paren") /\ Instead(Args(Frm.node)[1])

(* TranslateDeclRefExpr                                                    *)
LoadVar ==
  /\ Ready("var")
  /\ Return(Tmp(32, run.mem[nodes[Frm.node].op]), <<Inst("load", <<>>)>>)
  /\ UNCHANGED <<run, phase>>

LoadElement ==
  LET i == Got(1).val IN
  /\ Ready("element")
  /\ Return(Tmp(32, IF InTable(i) THEN Table[i + 1] ELSE 0),
            <<Inst("getelementptr", <<>>), Inst("load", <<>>)>>)
  /\ phase' = IF InTable(i) THEN phase ELSE "trapped"
  /\ UNCHANGED run

TranslateCallExpr ==
  /\ Ready("call")
  /\ Return(Tmp(32, Got(1).val), <<Inst("call", <<Got(1)>>)>>)
  /\ run' = Called(run, nodes[Frm.node].op, Got(1).val)
  /\ UNCHANGED phase

(* TranslateBinaryOperator: an i1 is extended first.                       *)
Extended_LeftOnly(k) == IF k = 1 THEN Tmp(32, Got(k).val) ELSE Got(k)
Extended(k) == IF Got(k).width = 1 THEN Tmp(32, Got(k).val) ELSE Got(k)
Zext(k) == IF Got(k).width = 1 THEN <<Inst("zext", <<Got(k)>>)>> ELSE <<>>

TranslateBinaryOperator ==
  LET op == nodes[Frm.node].op
      os == <<Extended(1), Extended(2)>>
      traps == Undefined(op, os[1].val, os[2].val)
      typed == \A k \in 1 .. 2 : os[k].width = 32    (* BinaryOpInst::Check *)
  IN
  /\ Ready("binary")
  /\ Return(Tmp(IF op \in ArithOps THEN 32 ELSE 1,
                IF traps THEN 0 ELSE Int32(op, os[1].val, os[2].val)),
            Zext(1) \o Zext(2)
              \o <<Inst(IF op \in ArithOps THEN op ELSE "icmp", os)>>)
  /\ phase' = IF op \in ArithOps /\ ~typed THEN "thrown"
              ELSE IF traps THEN "trapped" ELSE phase
  /\ UNCHANGED run

(* TranslateCondOperator with a constant operand: it decides, or the other *)
(* one is translated in its place.                                         *)
DecidesConst(op, n) == IsConst(n) /\ Decides(op, Val(n))
Decided(n) == \E k \in 1 .. 2 : DecidesConst(nodes[n].op, Args(n)[k])
PassedTo(n) == IF IsConst(Args(n)[1]) THEN Args(n)[2] ELSE Args(n)[1]

CondDecided ==
  /\ Ready("logic") /\ Decided(Frm.node)
  /\ Return(ImmI1(nodes[Frm.node].op = "or"), <<>>)
  /\ UNCHANGED <<run, phase>>

CondPass ==
  /\ Ready("logic") /\ ~Decided(Frm.node)
  /\ Instead(PassedTo(Frm.node))

(* TranslatekUnaryOperator                                                 *)
TranslateUnaryOperator ==
  LET op == nodes[Frm.node].op  o == Got(1)  zero == Tmp(o.width, 0) IN
  /\ Ready("unary")
  /\ CASE op = "plus"  -> Return(o, <<>>)
       [] op = "minus" ->
            Return(Tmp(32, Wrap(-o.val)),
                   Zext(1) \o <<Inst("sub", <<Imm(0), Extended(1)>>)>>)
       [] OTHER ->
            Return(Tmp(1, Truth(o.val = 0)), <<Inst("icmp", <<o, zero>>)>>)
  /\ UNCHANGED <<run, phase>>

-----------------------------------------------------------------------------
(* The statements.                                                         *)
Finish(v) ==
  /\ outcome' = v
  /\ frames' = <<>>
  /\ UNCHANGED <<ast, context>>

TranslateAssignOperator ==
  /\ Ready("assign")
  /\ code' = Append(code, Inst("store", <<Got(1)>>))
  /\ run' = Stored(run, Target, Got(1).val)
  /\ phase' = "done"
  /\ Finish(Got(1).val)

(* RetInst::Check refuses an i1.                                           *)
TranslateReturnStmt ==
  /\ Ready("return")
  /\ code' = Append(code, Inst("ret", <<Got(1)>>))
  /\ phase' = IF Got(1).width = 32 THEN "done" ELSE "thrown"
  /\ Finish(Got(1).val)
  /\ UNCHANGED run

(* TranslateIfStmt, up to the branch.                                      *)
TranslateIfStmt ==
  LET o == Got(1) IN
  /\ Ready("cond")
  /\ code' = CASE IsConst(Root) -> code
               [] ~IsConst(Root) /\ o.width = 32 ->
                    code \o <<Inst("icmp", <<o, Imm(0)>>), Inst("br", <<Tmp(1, 0)>>)>>
               [] OTHER -> Append(code, Inst("br", <<o>>))
  /\ phase' = "done"
  /\ Finish(o.val)
  /\ UNCHANGED run

(* TranslateStmt on an expression: only a call is translated.              *)
CallStmt ==
  /\ Ready("stmt") /\ Frm.got = <<>> /\ nodes[Root].kind = "call"
  /\ frames' = Append(frames, Frame(Root))
  /\ UNCHANGED <<ast, context, code, run, outcome, phase>>

ExprStmt ==
  /\ Ready("stmt") /\ (Frm.got # <<>> \/ nodes[Root].kind # "call")
  /\ phase' = "done"
  /\ Finish(0)
  /\ UNCHANGED <<code, run>>

-----------------------------------------------------------------------------
Init ==
  /\ nodes = <<>> /\ stack = <<>> /\ consts = {} /\ meant = <<>>
  /\ source = [mem |-> [x \in Vars |-> Start], calls |-> <<>>]
  /\ srcTrap = FALSE
  /\ context = "none" /\ frames = <<>> /\ code = <<>>
  /\ run = source
  /\ outcome = 0
  /\ phase = "parse"

Stopped ==
  /\ \/ phase \in {"done", "crashed", "thrown", "trapped"}
     \/ Parsing /\ Len(nodes) = MaxNodes
  /\ UNCHANGED vars

Parse ==
  \/ \E v \in Literals : IntegerLiteral(v)
  \/ \E x \in Vars : VarRef(x)
  \/ \E d \in consts : ConstRef(d)
  \/ ElementRef
  \/ \E x \in Vars : Call(x)
  \/ \E op \in UnaryOps : Unary(op)
  \/ \E op \in Ops \ LogicOps : Binary(op)
  \/ \E op \in Ops \cap LogicOps : LogicLeft(op)
  \/ LogicRight
  \/ ConstDecl

Lower ==
  \/ \E ctx \in Contexts : Begin(ctx)
  \/ FetchConst \/ FetchExpr
  \/ ParenExpr \/ LoadVar \/ LoadElement \/ TranslateCallExpr
  \/ TranslateBinaryOperator \/ CondDecided \/ CondPass
  \/ TranslateUnaryOperator
  \/ TranslateAssignOperator \/ TranslateReturnStmt \/ TranslateIfStmt
  \/ CallStmt \/ ExprStmt

Next == Parse \/ Lower \/ Stopped

Spec == Init /\ [][Next]_vars

-----------------------------------------------------------------------------
(* Children come before parents, values are words, types are widths, and   *)
(* TranslateExpr is called for nodes that are no constants.                *)
NodeSet ==
  [kind : {"literal", "var", "const", "element", "call", "unary", "paren",
           "binary", "logic"},
   op : {"none"} \cup Vars \cup AllUnary \cup ArithOps \cup RelOps \cup LogicOps,
   args : Seq(Nat), const : BOOLEAN, value : Word]
InstNames  == ArithOps \cup {"icmp", "zext", "load", "getelementptr", "call",
                             "store", "ret", "br"}
InstSet    == [inst : InstNames, types : Seq({1, 32})]
OperandSet == [imm : BOOLEAN, width : {1, 32}, val : Word]
Program    == [mem : [Vars -> Word], calls : Seq(Vars \X Word)]
TypeOK ==
  /\ nodes \in Seq(NodeSet)
  /\ \A n \in DOMAIN nodes : nodes[n].args \in Seq(1 .. n - 1)
  /\ meant \in Seq(Word \cup {Absent}) /\ Len(meant) = Len(nodes)
  /\ stack \in Seq([node : DOMAIN nodes, logic : {"none"} \cup LogicOps])
  /\ consts \subseteq DOMAIN nodes
  /\ source \in Program /\ run \in Program /\ srcTrap \in BOOLEAN
  /\ context \in {"none"} \cup AllContexts
  /\ frames \in Seq([node : {0} \cup DOMAIN nodes, got : Seq(OperandSet)])
  /\ \A i \in DOMAIN frames :
       IF i = 1 THEN frames[i].node = 0
       ELSE frames[i].node # 0 /\ ~IsConst(frames[i].node)
  /\ code \in Seq(InstSet)
  /\ outcome \in Word
  /\ phase \in {"parse", "lower", "done", "crashed", "thrown", "trapped"}

(* A node that CalculateValue folds has the value that evaluating it by    *)
(* the language's rules would give it, whenever it is evaluated.           *)
FoldingExact ==
  \A n \in DOMAIN nodes :
    IsConst(n) /\ meant[n] # Absent => Val(n) = meant[n]

(* Folding divides as the source would: the compiler dies of a division    *)
(* only if the source, too, comes to a division that is undefined, unless  *)
(* it is in an operand that && or || skips.  A constant index outside its  *)
(* array, the other way to fail while folding, is left out (ElementRef).   *)
CrashMeansTrap == phase = "crashed" => srcTrap \/ Skipping(Len(stack))

WellTyped(i) ==
  /\ i.inst \in ArithOps => i.types = <<32, 32>>
  /\ i.inst = "icmp" => Len(i.types) = 2 /\ i.types[1] = i.types[2]
  /\ i.inst \in {"zext", "br"} => i.types = <<1>>

(* The instructions get operands of the types the IR prescribes, whatever  *)
(* mixture of truth values and ints the source writes: arithmetic is on    *)
(* i32, icmp on two operands of one type, zext on an i1, br on an i1.  No  *)
(* check of a constructor fails except that of a returned value.           *)
OperandsTyped ==
  /\ \A i \in DOMAIN code : WellTyped(code[i])
  /\ phase = "thrown" => context = "return"

-----------------------------------------------------------------------------
(* Expressions whose code does what the source says.  Out of them are:     *)
(* - a constant on the right that decides, to the left of which something  *)
(*   happens: TranslateCondOperator drops the left operand;                *)
(* - && or || passed over to its other operand, where the value and not    *)
(*   only its truth is needed;                                             *)
(* - a statement that is an expression in which something happens, but is  *)
(*   no call: TranslateStmt emits nothing.                                 *)
Pure ==
  \A n \in DOMAIN nodes :
    nodes[n].kind \notin {"call", "element"} /\ nodes[n].op \notin {"div", "rem"}

NoLateDecision ==
  \A n \in DOMAIN nodes : nodes[n].kind = "logic" =>
    IsConst(Args(n)[1]) \/ ~DecidesConst(nodes[n].op, Args(n)[2])

Raw[n \in DOMAIN nodes] ==
  \/ nodes[n].kind = "logic" /\ ~IsConst(n) /\ ~Decided(n)
  \/ nodes[n].op \in {"plus", "paren"} /\ Raw[Args(n)[1]]

TruthSuffices ==
  /\ \A n \in DOMAIN nodes :
       nodes[n].kind = "logic" \/ nodes[n].op \in {"plus", "paren", "not"}
         \/ \A k \in DOMAIN Args(n) : ~Raw[Args(n)[k]]
  /\ context \in {"assign", "return"} => ~Raw[Root]

Regular ==
  /\ \/ Pure
     \/ NoLateDecision /\ (context = "stmt" => nodes[Root].kind = "call")
  /\ TruthSuffices

(* The code does what the source says: the same calls with the same        *)
(* arguments in the same order, the same variables at the end, the same    *)
(* value assigned, returned or tested, or the same trap at the same point; *)
(* operands are fetched left to right, folded or not, and none is lost,    *)
(* evaluated twice, or evaluated where the source skips it.                *)
LoweringExact ==
  phase \in {"done", "trapped"} /\ Regular =>
    /\ run = source
    /\ phase = "trapped" <=> srcTrap
    /\ phase = "done" =>
         CASE context = "cond" -> (outcome # 0) = (meant[Root] # 0)
           [] context = "stmt" -> TRUE
           [] OTHER -> outcome = meant[Root]
=============================================================================
