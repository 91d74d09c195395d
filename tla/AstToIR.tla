------------------------------ MODULE AstToIR ------------------------------
(***************************************************************************)
(* Lowering of the body of one SysY function to basic blocks, as done by   *)
(* src/src/frontend/ast_to_ir.cc.                                          *)
(*                                                                         *)
(* The code is a set of mutually recursive Translate* functions that share *)
(* four static stacks of block lists.  The recursion is made explicit: the *)
(* variable frames is the C++ call stack, pc tells which call or return is *)
(* due, cur is the block passed to (or returned by) a statement, and val   *)
(* the value returned by an expression.  One action is the code a function *)
(* runs between two recursive calls.                                       *)
(*                                                                         *)
(* A definition whose name has a suffix after an underscore (AddBlock_...) *)
(* is a wrong form of the definition that follows it, which no action      *)
(* uses: it is there to confirm that the properties notice the fault.      *)
(*                                                                         *)
(* The source program is not fixed: each call of TranslateStmt or          *)
(* TranslateExpr picks the kind of node it finds, so the behaviours range  *)
(* over every program of at most MaxNodes nested or chained nodes of the   *)
(* kinds in Kinds.                                                         *)
(*                                                                         *)
(* Straight-line code is abstracted to instructions that take the next     *)
(* number ("val") and instructions that take none ("store").  Predecessor  *)
(* and successor lists are left out: nothing in src/ reads them.           *)
(***************************************************************************)
EXTENDS Integers, SequencesExt

CONSTANTS
  NumParams,   (* number of parameters of the function                     *)
  StmtVals,    (* how many numbered instructions an operand list takes     *)
  Kinds,       (* the kinds of nodes the programs are made of              *)
  MaxNodes,    (* bound on the compound, chained and conditional nodes     *)
  DeadCode     (* may a statement follow a jump in the same block?         *)

AllKinds == {"null", "decl", "assign", "call", "return", "break", "continue",
             "compound", "ifconst", "if", "ifelse", "whileconst", "while",
             "i1", "i32", "decided", "neutral", "and", "or"}

ASSUME NumParamsAssumption == NumParams \in Nat
ASSUME StmtValsAssumption  == StmtVals \subseteq Nat
ASSUME KindsAssumption     == Kinds \subseteq AllKinds
ASSUME MaxNodesAssumption  == MaxNodes \in Nat
ASSUME DeadCodeAssumption  == DeadCode \in BOOLEAN

VARIABLES
  blocks,          (* FuncDef's block list, in textual order               *)
  tmp_id,          (* next number for a temporary or a label               *)
  break_stack, continue_stack,   (* blocks that end in an open jump,       *)
  true_stack, false_stack,       (* one list per enclosing construct       *)
  pc, cur, val, frames,          (* the recursion                          *)
  nodes            (* number of the last node met                          *)

stacks  == <<break_stack, continue_stack, true_stack, false_stack>>
vars    == <<blocks, tmp_id, stacks, pc, cur, val, frames, nodes>>

-----------------------------------------------------------------------------
(* Instructions and blocks.                                                *)
(*                                                                         *)
(* A block carries the role it plays for the node that created it, and a   *)
(* jump the roles it is meant to reach: history, which no guard reads.  A  *)
(* jump's role is fixed by the node it is generated for, top down, long    *)
(* before the block of that role exists and the jump is patched.           *)

Parts == {"entry", "then", "else", "end", "check", "body", "lhs", "rhs"}
Role(n, part) == <<n, part>>
NoRole   == Role(0, "end")
NoTarget == [t |-> NoRole, f |-> NoRole]
To(r)    == [t |-> r, f |-> r]

EntryLabel == -1      (* the entry block is named, not numbered            *)

Inst(op, id, t, f, want) ==
  [op |-> op, id |-> id, t |-> t, f |-> f, want |-> want]

ValInst(id)        == Inst("val", id, -1, -1, NoTarget)
StoreInst          == Inst("store", -1, -1, -1, NoTarget)
RetInst            == Inst("ret", -1, -1, -1, NoTarget)
OpenJump(r)        == Inst("ret", -1, -1, -1, To(r))
BrInst(l, want)    == Inst("br", -1, l, l, want)
CondBr(t, f, want) == Inst("cbr", -1, t, f, want)

IsTerminateInst(i) == i.op \in {"ret", "br", "cbr"}
IsBr(i)            == i.op \in {"br", "cbr"}

Closed(bs, b)    == bs[b].insts # <<>> /\ IsTerminateInst(Last(bs[b].insts))
EndsInRet(bs, b) == bs[b].insts # <<>> /\ Last(bs[b].insts).op = "ret"

Block(label, role, insts) == [label |-> label, role |-> role, insts |-> insts]
WithInsts(b, insts)       == Block(b.label, b.role, insts)

AddBlock_Forgotten(bs, label, role) == bs
AddBlock(bs, label, role) == Append(bs, Block(label, role, <<>>))

AddInsts(bs, b, is) == [bs EXCEPT ![b] = WithInsts(bs[b], bs[b].insts \o is)]

(* Rewrites the last instruction of every block of a list.                 *)
MapBack(bs, list, New(_)) ==
  [b \in DOMAIN bs |->
     IF b \in ToSet(list)
     THEN WithInsts(bs[b], Append(Front(bs[b].insts), New(Last(bs[b].insts))))
     ELSE bs[b]]

SetTrue(bs, list, l) ==
  LET New(i) == Inst(i.op, i.id, l, i.f, i.want) IN MapBack(bs, list, New)

SetFalse(bs, list, l) ==
  LET New(i) == Inst(i.op, i.id, i.t, l, i.want) IN MapBack(bs, list, New)

(* pop_back, then AddInst(new BrInst(label)): the loop's repair of the     *)
(* jumps that break and continue left open.                                *)
CloseJumps(bs, list, l) ==
  LET New(i) == BrInst(l, i.want) IN MapBack(bs, list, New)

JumpUnlessRet_Always(bs, b, l, role) == AddInsts(bs, b, <<BrInst(l, To(role))>>)
JumpUnlessRet_Self(bs, b, l, role) ==
  IF EndsInRet(bs, b) THEN bs
  ELSE AddInsts(bs, b, <<BrInst(bs[b].label, To(role))>>)
JumpUnlessRet(bs, b, l, role) ==
  IF EndsInRet(bs, b) THEN bs ELSE AddInsts(bs, b, <<BrInst(l, To(role))>>)

Straight(n, store) ==
  [k \in 1 .. n |-> ValInst(tmp_id + k - 1)]
    \o (IF store THEN <<StoreInst>> ELSE <<>>)

-----------------------------------------------------------------------------
(* The four stacks.                                                        *)

Push(stack)         == Append(stack, <<>>)
AddTop_Outermost(stack, list) == [stack EXCEPT ![1] = @ \o list]
AddTop(stack, list) == [stack EXCEPT ![Len(stack)] = @ \o list]

-----------------------------------------------------------------------------
(* Call frames: the locals that live across a recursive call.              *)

SeqFrame == [kind |-> "seq"]

IfFrame(phase, n, bb, hasElse, cond, then, thenEnd, else) ==
  [kind |-> "if", phase |-> phase, node |-> n, bb |-> bb, hasElse |-> hasElse,
   cond |-> cond, then |-> then, thenEnd |-> thenEnd, else |-> else]

WhileFrame(phase, n, check, const, cond, body) ==
  [kind |-> "while", phase |-> phase, node |-> n, check |-> check,
   const |-> const, cond |-> cond, body |-> body]

CondFrame(op, phase, n, bb, lhs, rhs, cond, want, lt, lf) ==
  [kind |-> "cond", op |-> op, phase |-> phase, node |-> n, bb |-> bb,
   lhs |-> lhs, rhs |-> rhs, cond |-> cond, want |-> want,
   lhs_true |-> lt, lhs_false |-> lf]

Top             == Last(frames)
SetTop(f)       == Append(Front(frames), f)
At(kind, phase) == frames # <<>> /\ Top.kind = kind /\ Top.phase = phase
TopIsSeq        == frames # <<>> /\ Top.kind = "seq"

Loops == {k \in DOMAIN frames : frames[k].kind = "while"}
Loop  == frames[Max(Loops)].node

(* Where control must go when the expression being translated is true or   *)
(* false: inherited from the frame that asked for its value.               *)
Want ==
  CASE Top.kind = "if" ->
         [t |-> Role(Top.node, "then"),
          f |-> Role(Top.node, IF Top.hasElse THEN "else" ELSE "end")]
    [] Top.kind = "while" ->
         [t |-> Role(Top.node, "body"), f |-> Role(Top.node, "end")]
    [] Top.kind = "cond" /\ Top.phase = "lhs" /\ Top.op = "and" ->
         [t |-> Role(Top.node, "rhs"), f |-> Top.want.f]
    [] Top.kind = "cond" /\ Top.phase = "lhs" /\ Top.op = "or" ->
         [t |-> Top.want.t, f |-> Role(Top.node, "rhs")]
    [] OTHER -> Top.want

(* Conversion of a condition to i1: one icmp when the value is an i32.     *)
ToBool(v)       == IF v = "i32" THEN "i1" ELSE v
IcmpInsts(v)    == IF v = "i32" THEN <<ValInst(tmp_id)>> ELSE <<>>
AfterIcmp_Reuse(v) == tmp_id
AfterIcmp(v)    == IF v = "i32" THEN tmp_id + 1 ELSE tmp_id

More    == nodes < MaxNodes
Node(k) == k \in Kinds /\ More /\ nodes' = nodes + 1
New     == Len(blocks) + 1        (* index of the block added next         *)

-----------------------------------------------------------------------------
(* TranslateFunctionDecl up to the translation of the body: parameters are *)
(* numbered, then spilled to allocas in the entry block.                   *)
ParamSpills ==
  [k \in 1 .. 2 * NumParams |->
     IF k % 2 = 1 THEN ValInst(NumParams + k \div 2) ELSE StoreInst]

Init ==
  /\ blocks = <<Block(EntryLabel, Role(0, "entry"), ParamSpills)>>
  /\ tmp_id = 2 * NumParams
  /\ break_stack = <<>> /\ continue_stack = <<>>
  /\ true_stack = <<>>  /\ false_stack = <<>>
  /\ pc = "stmtret" /\ cur = 1 /\ val = "none"
  /\ frames = <<SeqFrame>>
  /\ nodes = 0

-----------------------------------------------------------------------------
(* TranslateStmt on a node whose statement calls no other statement.       *)

Stmt == pc = "stmt"
(* A statement that emits code, or a jump, into the current block.         *)
Emit == Stmt /\ (DeadCode \/ ~Closed(blocks, cur))

NullStmt ==
  /\ Stmt /\ "null" \in Kinds
  /\ pc' = "stmtret"
  /\ UNCHANGED <<blocks, tmp_id, stacks, cur, val, frames, nodes>>

(* n numbered instructions, then an unnumbered one or none.                *)
EmitStraight(n, store) ==
  /\ Emit
  /\ blocks' = AddInsts(blocks, cur, Straight(n, store))
  /\ tmp_id' = tmp_id + n
  /\ pc' = "stmtret"
  /\ UNCHANGED <<stacks, cur, val, frames, nodes>>

(* The alloca of a local variable and, when it has an initialiser, the n   *)
(* numbered instructions that compute its values and addresses.            *)
DeclStmt(n, init) ==
  /\ "decl" \in Kinds
  /\ EmitStraight(IF init THEN n + 1 ELSE 1, init)

AssignStmt(n) == "assign" \in Kinds /\ EmitStraight(n, TRUE)

(* A call whose result is dropped still uses up a number when the function *)
(* returns an int.                                                         *)
CallStmt(n, int) ==
  /\ "call" \in Kinds
  /\ EmitStraight(IF int THEN n + 1 ELSE n, ~int)

ReturnStmt(n) ==
  /\ Emit /\ "return" \in Kinds
  /\ blocks' = AddInsts(blocks, cur, Append(Straight(n, FALSE), RetInst))
  /\ tmp_id' = tmp_id + n
  /\ pc' = "stmtret"
  /\ UNCHANGED <<stacks, cur, val, frames, nodes>>

(* break and continue: a ret void that the enclosing loop replaces.        *)
BreakStmt ==
  /\ Emit /\ "break" \in Kinds
  /\ Loops # {}
  /\ blocks' = AddInsts(blocks, cur, <<OpenJump(Role(Loop, "end"))>>)
  /\ break_stack' = AddTop(break_stack, <<cur>>)
  /\ pc' = "stmtret"
  /\ UNCHANGED <<tmp_id, continue_stack, true_stack, false_stack,
                 cur, val, frames, nodes>>

ContinueStmt ==
  /\ Emit /\ "continue" \in Kinds
  /\ Loops # {}
  /\ blocks' = AddInsts(blocks, cur, <<OpenJump(Role(Loop, "check"))>>)
  /\ continue_stack' = AddTop(continue_stack, <<cur>>)
  /\ pc' = "stmtret"
  /\ UNCHANGED <<tmp_id, break_stack, true_stack, false_stack,
                 cur, val, frames, nodes>>

-----------------------------------------------------------------------------
(* TranslatCompoundStmt: the block a statement returns is handed to the    *)
(* next one.                                                               *)

CompoundStmt ==
  /\ Stmt /\ Node("compound")
  /\ frames' = Append(frames, SeqFrame)
  /\ pc' = "stmtret"
  /\ UNCHANGED <<blocks, tmp_id, stacks, cur, val>>

NextStmt ==
  /\ pc = "stmtret" /\ TopIsSeq
  /\ More /\ nodes' = nodes + 1
  /\ pc' = "stmt"
  /\ UNCHANGED <<blocks, tmp_id, stacks, cur, val, frames>>

CompoundEnd ==
  /\ pc = "stmtret" /\ TopIsSeq
  /\ frames' = Front(frames)
  /\ UNCHANGED <<blocks, tmp_id, stacks, pc, cur, val, nodes>>

-----------------------------------------------------------------------------
(* TranslateIfStmt.                                                        *)

(* A constant condition selects a branch, translated in the same block;    *)
(* when the selected branch is absent nothing is translated.               *)
IfConst(absent) ==
  /\ Stmt /\ Node("ifconst")
  /\ pc' = IF absent THEN "stmtret" ELSE "stmt"
  /\ UNCHANGED <<blocks, tmp_id, stacks, cur, val, frames>>

IfStmt(hasElse) ==
  /\ Emit /\ Node(IF hasElse THEN "ifelse" ELSE "if")
  /\ true_stack'  = Push(true_stack)
  /\ false_stack' = Push(false_stack)
  /\ frames' = Append(frames,
                 IfFrame("cond", nodes + 1, cur, hasElse, "none", 0, 0, 0))
  /\ pc' = "expr"
  /\ UNCHANGED <<blocks, tmp_id, break_stack, continue_stack, cur, val>>

IfThen ==
  /\ pc = "exprret" /\ At("if", "cond")
  /\ blocks' = AddBlock(AddInsts(blocks, Top.bb, IcmpInsts(val)),
                        AfterIcmp(val), Role(Top.node, "then"))
  /\ tmp_id' = AfterIcmp(val) + 1
  /\ frames' = SetTop(IfFrame("then", Top.node, Top.bb, Top.hasElse,
                             ToBool(val), New, 0, 0))
  /\ cur' = New
  /\ pc' = "stmt" /\ val' = "none"
  /\ UNCHANGED <<stacks, nodes>>

IfElse ==
  /\ pc = "stmtret" /\ At("if", "then") /\ Top.hasElse
  /\ blocks' = AddBlock(blocks, tmp_id, Role(Top.node, "else"))
  /\ tmp_id' = tmp_id + 1
  /\ frames' = SetTop(IfFrame("else", Top.node, Top.bb, Top.hasElse,
                             Top.cond, Top.then, cur, New))
  /\ cur' = New
  /\ pc' = "stmt"
  /\ UNCHANGED <<stacks, val, nodes>>

(* Both lists of the if are dropped on each of its two ways out: the early *)
(* return of an if-else that tested a value, and the one after the patches.*)
PopIf_LateOnly ==
  /\ IF Top.hasElse /\ Top.cond # "none" THEN UNCHANGED <<true_stack, false_stack>>
     ELSE true_stack' = Front(true_stack) /\ false_stack' = Front(false_stack)
  /\ frames' = Front(frames)
PopIf ==
  /\ true_stack'  = Front(true_stack)
  /\ false_stack' = Front(false_stack)
  /\ frames' = Front(frames)

(* The end block, the jumps of both branches to it, and the branch on the  *)
(* condition: emitted here when the condition left a value, patched into   *)
(* the blocks of the true and false lists when it did not.                 *)
IfEnd ==
  LET f       == Top
      end     == Role(f.node, "end")
      thenEnd == IF f.hasElse THEN f.thenEnd ELSE cur
      onTrue  == blocks[f.then].label
      onFalse == IF f.hasElse THEN blocks[f.else].label ELSE tmp_id
      added   == AddBlock(blocks, tmp_id, end)
      joined  == JumpUnlessRet(added, thenEnd, tmp_id, end)
      joined2 == IF f.hasElse THEN JumpUnlessRet(joined, cur, tmp_id, end)
                              ELSE joined
      tested  == IF f.cond = "none" THEN joined2
                 ELSE AddInsts(joined2, f.bb, <<CondBr(onTrue, onFalse, Want)>>)
  IN
  /\ pc = "stmtret"
  /\ \/ At("if", "then") /\ ~f.hasElse
     \/ At("if", "else")
  /\ blocks' = IF f.hasElse /\ f.cond # "none" THEN tested
               ELSE SetFalse(SetTrue(tested, Last(true_stack), onTrue),
                             Last(false_stack), onFalse)
  /\ tmp_id' = tmp_id + 1
  /\ PopIf
  /\ cur' = New
  /\ UNCHANGED <<break_stack, continue_stack, pc, val, nodes>>

-----------------------------------------------------------------------------
(* TranslateWhileStmt.                                                     *)

WhileFalse ==
  /\ Stmt /\ Node("whileconst")
  /\ pc' = "stmtret"
  /\ UNCHANGED <<blocks, tmp_id, stacks, cur, val, frames>>

(* while (constant other than 0): the check block stays without a test.    *)
WhileTrue ==
  LET n == nodes + 1 IN
  /\ Emit /\ Node("whileconst")
  /\ break_stack'    = Push(break_stack)
  /\ continue_stack' = Push(continue_stack)
  /\ true_stack'     = Push(true_stack)
  /\ false_stack'    = Push(false_stack)
  /\ blocks' = AddBlock(AddInsts(AddBlock(blocks, tmp_id, Role(n, "check")),
                                 cur, <<BrInst(tmp_id, To(Role(n, "check")))>>),
                        tmp_id + 1, Role(n, "body"))
  /\ tmp_id' = tmp_id + 2
  /\ frames' = Append(frames,
                 WhileFrame("body", n, New, TRUE, "none", New + 1))
  /\ cur' = New + 1
  /\ UNCHANGED <<pc, val>>

WhileStmt ==
  LET n == nodes + 1 IN
  /\ Emit /\ Node("while")
  /\ break_stack'    = Push(break_stack)
  /\ continue_stack' = Push(continue_stack)
  /\ true_stack'     = Push(true_stack)
  /\ false_stack'    = Push(false_stack)
  /\ blocks' = AddInsts(AddBlock(blocks, tmp_id, Role(n, "check")),
                        cur, <<BrInst(tmp_id, To(Role(n, "check")))>>)
  /\ tmp_id' = tmp_id + 1
  /\ frames' = Append(frames, WhileFrame("cond", n, New, FALSE, "none", 0))
  /\ cur' = New
  /\ pc' = "expr"
  /\ UNCHANGED val

WhileBody ==
  /\ pc = "exprret" /\ At("while", "cond")
  /\ blocks' = AddBlock(AddInsts(blocks, Top.check, IcmpInsts(val)),
                        AfterIcmp(val), Role(Top.node, "body"))
  /\ tmp_id' = AfterIcmp(val) + 1
  /\ frames' = SetTop(WhileFrame("body", Top.node, Top.check, Top.const,
                                ToBool(val), New))
  /\ cur' = New
  /\ pc' = "stmt" /\ val' = "none"
  /\ UNCHANGED <<stacks, nodes>>

(* The back edge, the end block, the test, and the repair of the four      *)
(* lists of open jumps, in the order of the code.                          *)
WhileEnd ==
  LET f      == Top
      check  == blocks[f.check].label
      body   == blocks[f.body].label
      looped == JumpUnlessRet(blocks, cur, check, Role(f.node, "check"))
      added  == AddBlock(looped, tmp_id, Role(f.node, "end"))
      tested ==
        CASE f.const ->
               AddInsts(added, f.check, <<BrInst(body, To(Role(f.node, "body")))>>)
          [] ~f.const /\ f.cond # "none" ->
               AddInsts(added, f.check, <<CondBr(body, tmp_id, Want)>>)
          [] OTHER -> added
      broken    == CloseJumps(tested, Last(break_stack), tmp_id)
      continued == CloseJumps(broken, Last(continue_stack), check)
  IN
  /\ pc = "stmtret" /\ At("while", "body")
  /\ blocks' = SetFalse(SetTrue(continued, Last(true_stack), body),
                        Last(false_stack), tmp_id)
  /\ tmp_id' = tmp_id + 1
  /\ break_stack'    = Front(break_stack)
  /\ continue_stack' = Front(continue_stack)
  /\ true_stack'     = Front(true_stack)
  /\ false_stack'    = Front(false_stack)
  /\ frames' = Front(frames)
  /\ cur' = New
  /\ UNCHANGED <<pc, val, nodes>>

-----------------------------------------------------------------------------
(* TranslateExpr on a condition.  SysY has && and || in conditions only,   *)
(* under no operator but each other.  sysy.y accepts them elsewhere, where *)
(* the translator has no answer: those programs are left out.              *)

Expr == pc = "expr"

(* Any expression without && and ||: its value is an i32 (a load, a call,  *)
(* an arithmetic result) or an i1 (a comparison, a negation).              *)
PlainExpr(type) ==
  /\ Expr /\ type \in Kinds
  /\ blocks' = AddInsts(blocks, cur, <<ValInst(tmp_id)>>)
  /\ tmp_id' = tmp_id + 1
  /\ val' = type
  /\ pc' = "exprret"
  /\ UNCHANGED <<stacks, cur, frames, nodes>>

(* TranslateCondOperator with one constant operand that decides the        *)
(* result: the value is an immediate i1 and no code is emitted.            *)
CondDecided ==
  /\ Expr /\ Node("decided")
  /\ val' = "i1"
  /\ pc' = "exprret"
  /\ UNCHANGED <<blocks, tmp_id, stacks, cur, frames>>

(* One constant operand that decides nothing: the result is the other      *)
(* operand, translated in the same block.                                  *)
CondNeutral ==
  /\ Expr /\ Node("neutral")
  /\ UNCHANGED <<blocks, tmp_id, stacks, pc, cur, val, frames>>

CondOperator(op) ==
  LET n == nodes + 1 IN
  /\ Expr /\ Node(op)
  /\ true_stack'  = Push(true_stack)
  /\ false_stack' = Push(false_stack)
  /\ blocks' = AddBlock(blocks, tmp_id, Role(n, "lhs"))
  /\ tmp_id' = tmp_id + 1
  /\ frames' = Append(frames,
       CondFrame(op, "lhs", n, cur, New, 0, "none", Want, <<>>, <<>>))
  /\ cur' = New
  /\ UNCHANGED <<break_stack, continue_stack, pc, val>>

(* The lists the left operand left open are set aside, and the right       *)
(* operand gets lists of its own.                                          *)
CondRhs ==
  /\ pc = "exprret" /\ At("cond", "lhs")
  /\ blocks' = AddBlock(AddInsts(blocks, Top.lhs, IcmpInsts(val)),
                        AfterIcmp(val), Role(Top.node, "rhs"))
  /\ tmp_id' = AfterIcmp(val) + 1
  /\ true_stack'  = Push(Front(true_stack))
  /\ false_stack' = Push(Front(false_stack))
  /\ frames' = SetTop(CondFrame(Top.op, "rhs", Top.node, Top.bb, Top.lhs, New,
                               ToBool(val), Top.want,
                               Last(true_stack), Last(false_stack)))
  /\ cur' = New
  /\ pc' = "expr" /\ val' = "none"
  /\ UNCHANGED <<break_stack, continue_stack, nodes>>

(* Link: the left operand either jumps to the right one or leaves the      *)
(* operator, the right one always leaves it.  A jump that leaves is put on *)
(* the lists of the construct outside, with label_rhs in place of the      *)
(* target it does not know yet.                                            *)
LhsWant(f) ==
  IF f.op = "and" THEN [t |-> Role(f.node, "rhs"), f |-> f.want.f]
                  ELSE [t |-> f.want.t, f |-> Role(f.node, "rhs")]

LinkLhs_TrueOnly(bs, f, l) ==
  IF f.cond # "none" THEN AddInsts(bs, f.lhs, <<CondBr(l, l, LhsWant(f))>>)
                     ELSE SetTrue(bs, f.lhs_true, l)
LinkLhs(bs, f, l) ==
  CASE f.cond # "none" -> AddInsts(bs, f.lhs, <<CondBr(l, l, LhsWant(f))>>)
    [] f.cond = "none" /\ f.op = "and" -> SetTrue(bs, f.lhs_true, l)
    [] OTHER -> SetFalse(bs, f.lhs_false, l)

LinkRhs(bs, f, v, l) ==
  IF v = "none" THEN bs ELSE AddInsts(bs, f.rhs, <<CondBr(l, l, f.want)>>)

LhsTrueLeaving_AnyOp(f) == IF f.cond = "none" THEN f.lhs_true ELSE <<f.lhs>>
LhsTrueLeaving(f) ==
  CASE f.op = "and" -> <<>>
    [] f.op = "or" /\ f.cond = "none" -> f.lhs_true
    [] OTHER -> <<f.lhs>>

LhsFalseLeaving(f) ==
  CASE f.op = "or" -> <<>>
    [] f.op = "and" /\ f.cond = "none" -> f.lhs_false
    [] OTHER -> <<f.lhs>>

RhsLeaving_Always(f, v, list) == <<f.rhs>>
RhsLeaving(f, v, list) == IF v = "none" THEN list ELSE <<f.rhs>>

CondEnd ==
  LET f     == Top
      l     == blocks[f.rhs].label
      icmp  == AddInsts(blocks, f.rhs, IcmpInsts(val))
      enter == AddInsts(icmp, f.bb, <<BrInst(blocks[f.lhs].label,
                                             To(Role(f.node, "lhs")))>>)
  IN
  /\ pc = "exprret" /\ At("cond", "rhs")
  /\ blocks' = LinkRhs(LinkLhs(enter, f, l), f, val, l)
  /\ tmp_id' = AfterIcmp(val)
  /\ true_stack'  = AddTop(Front(true_stack),
                      LhsTrueLeaving(f) \o RhsLeaving(f, val, Last(true_stack)))
  /\ false_stack' = AddTop(Front(false_stack),
                      LhsFalseLeaving(f) \o RhsLeaving(f, val, Last(false_stack)))
  /\ frames' = Front(frames)
  /\ val' = "none"
  /\ UNCHANGED <<break_stack, continue_stack, pc, cur, nodes>>

-----------------------------------------------------------------------------
(* The end of TranslateFunctionDecl: a ret unless the last block is closed.*)
FunctionEnd_NoRet ==
  /\ pc = "stmtret" /\ frames = <<>>
  /\ pc' = "done"
  /\ UNCHANGED <<blocks, tmp_id, stacks, cur, val, frames, nodes>>
FunctionEnd ==
  /\ pc = "stmtret" /\ frames = <<>>
  /\ blocks' = IF Closed(blocks, cur) THEN blocks
               ELSE AddInsts(blocks, cur, <<RetInst>>)
  /\ pc' = "done"
  /\ UNCHANGED <<tmp_id, stacks, cur, val, frames, nodes>>

Finished == pc = "done" /\ UNCHANGED vars

Next ==
  \/ NullStmt
  \/ \E n \in StmtVals, init \in BOOLEAN : DeclStmt(n, init)
  \/ \E n \in StmtVals : AssignStmt(n)
  \/ \E n \in StmtVals, int \in BOOLEAN : CallStmt(n, int)
  \/ \E n \in StmtVals : ReturnStmt(n)
  \/ BreakStmt
  \/ ContinueStmt
  \/ CompoundStmt
  \/ NextStmt
  \/ CompoundEnd
  \/ \E absent \in BOOLEAN : IfConst(absent)
  \/ \E hasElse \in BOOLEAN : IfStmt(hasElse)
  \/ IfThen
  \/ IfElse
  \/ IfEnd
  \/ WhileFalse
  \/ WhileTrue
  \/ WhileStmt
  \/ WhileBody
  \/ WhileEnd
  \/ \E type \in {"i1", "i32"} : PlainExpr(type)
  \/ CondDecided
  \/ CondNeutral
  \/ \E op \in {"and", "or"} : CondOperator(op)
  \/ CondRhs
  \/ CondEnd
  \/ FunctionEnd
  \/ Finished

Spec == Init /\ [][Next]_vars

-----------------------------------------------------------------------------
(* Types.                                                                  *)

RoleSet  == Nat \X Parts
WantSet  == [t : RoleSet, f : RoleSet]
LabelSet == Nat \cup {-1}
InstSet  == [op : {"val", "store", "ret", "br", "cbr"}, id : LabelSet,
             t : LabelSet, f : LabelSet, want : WantSet]
BlockSet == [label : LabelSet, role : RoleSet, insts : Seq(InstSet)]

CondVals == {"none", "i1"}
FrameSet ==
  [kind : {"seq"}]
    \cup [kind : {"if"}, phase : {"cond", "then", "else"}, node : Nat,
          bb : Nat, hasElse : BOOLEAN, cond : CondVals, then : Nat,
          thenEnd : Nat, else : Nat]
    \cup [kind : {"while"}, phase : {"cond", "body"}, node : Nat,
          check : Nat, const : BOOLEAN, cond : CondVals, body : Nat]
    \cup [kind : {"cond"}, op : {"and", "or"}, phase : {"lhs", "rhs"},
          node : Nat, bb : Nat, lhs : Nat, rhs : Nat, cond : CondVals,
          want : WantSet, lhs_true : Seq(Nat), lhs_false : Seq(Nat)]

(* The variables have the shapes the code's variables have.                *)
TypeOK ==
  /\ blocks \in Seq(BlockSet)
  /\ tmp_id \in Nat
  /\ break_stack \in Seq(Seq(Nat)) /\ continue_stack \in Seq(Seq(Nat))
  /\ true_stack \in Seq(Seq(Nat))  /\ false_stack \in Seq(Seq(Nat))
  /\ pc \in {"stmt", "stmtret", "expr", "exprret", "done"}
  /\ cur \in DOMAIN blocks
  /\ val \in {"none", "i1", "i32"}
  /\ frames \in Seq(FrameSet)
  /\ nodes \in Nat

-----------------------------------------------------------------------------
(* Safety.                                                                 *)

Depth(kinds) == Cardinality({k \in DOMAIN frames : frames[k].kind \in kinds})

(* The static stacks mirror the recursion: each open loop owns one list of *)
(* breaks and one of continues, each open if, loop and operator one list   *)
(* of true and one of false jumps, whichever of the early returns the      *)
(* handlers took.  So top() and pop() never meet an empty stack, and the   *)
(* next function starts with four empty stacks.                            *)
StackDiscipline ==
  /\ Len(break_stack) = Depth({"while"})
  /\ Len(continue_stack) = Depth({"while"})
  /\ Len(true_stack) = Depth({"if", "while", "cond"})
  /\ Len(false_stack) = Depth({"if", "while", "cond"})

IdAt(p)   == IF p[2] = 0 THEN blocks[p[1]].label
                         ELSE blocks[p[1]].insts[p[2]].id
Before(p, q) == p[1] < q[1] \/ (p[1] = q[1] /\ p[2] < q[2])

Positions == UNION {{<<b, i>> : i \in 0 .. Len(blocks[b].insts)} :
                      b \in DOMAIN blocks}

(* Where the IR begins a block that the translator has not: code after a   *)
(* terminator in the middle of one of its blocks.  The IR numbers that     *)
(* block too (IR Reference.md), the translator does not, so its numbers    *)
(* are the IR's only up to the first of these places.                      *)
Implicit ==
  {p \in Positions : p[2] > 1 /\ IsTerminateInst(blocks[p[1]].insts[p[2] - 1])}
Ruled ==
  LET implicit == Implicit IN
  {p \in Positions : IdAt(p) >= 0 /\ \A q \in implicit : Before(p, q)}

(* The IR's rule for unnamed values: they are numbered in textual order,   *)
(* and none is skipped or used twice, over parameters, temporaries and     *)
(* labels together, although the blocks of an expression and of the        *)
(* statements around it are filled in turns.  It holds as far as the       *)
(* blocks of the text are those of the IR, which is everywhere in a        *)
(* function without code after a return, break or continue.                *)
Numbering ==
  LET ruled == Ruled
      ids   == {IdAt(q) : q \in ruled} IN
  /\ \A p \in ruled : IdAt(p) >= NumParams /\ NumParams .. IdAt(p) \subseteq ids
  /\ \A p, q \in ruled : Before(p, q) => IdAt(p) < IdAt(q)

HasRole(l, r) == \E b \in DOMAIN blocks : blocks[b].label = l /\ blocks[b].role = r

Listed(stack)  == UNION {ToSet(stack[k]) : k \in DOMAIN stack}
OpenBreaks     == Listed(break_stack)
OpenContinues  == Listed(continue_stack)
OpenTrue  == Listed(true_stack)
               \cup UNION {ToSet(frames[k].lhs_true) :
                             k \in {j \in DOMAIN frames : frames[j].kind = "cond"}}
OpenFalse == Listed(false_stack)
               \cup UNION {ToSet(frames[k].lhs_false) :
                             k \in {j \in DOMAIN frames : frames[j].kind = "cond"}}

(* Backpatching loses no jump and resolves none wrongly: a jump either     *)
(* reaches the block its node means it to reach, or is the last            *)
(* instruction of a block that waits in one of the lists of an enclosing   *)
(* construct.  A ret that stands for break or continue is such a jump too. *)
NoLostJump ==
  LET openTrue == OpenTrue  openFalse == OpenFalse IN
  \A b \in DOMAIN blocks : \A i \in DOMAIN blocks[b].insts :
    LET inst == blocks[b].insts[i]
        last == i = Len(blocks[b].insts)
    IN
    /\ IsBr(inst) =>
         /\ HasRole(inst.t, inst.want.t) \/ (last /\ b \in openTrue)
         /\ HasRole(inst.f, inst.want.f) \/ (last /\ b \in openFalse)
    /\ inst.op = "ret" /\ inst.want # NoTarget =>
         last /\ b \in OpenBreaks \cup OpenContinues

(* A list holds only blocks whose last instruction is the open jump: the   *)
(* casts to BrInst cannot fail, and pop_back removes nothing else.         *)
OpenJumpIsLast ==
  /\ \A b \in OpenTrue \cup OpenFalse :
       blocks[b].insts # <<>> /\ Last(blocks[b].insts).op = "cbr"
  /\ \A b \in OpenBreaks \cup OpenContinues :
       /\ EndsInRet(blocks, b)
       /\ Last(blocks[b].insts).want # NoTarget

(* Every block of the finished function ends with a terminator: control    *)
(* never runs off the end of one, and none is empty, so none is skipped    *)
(* when the function is printed.                                           *)
EveryBlockTerminated == pc = "done" => \A b \in DOMAIN blocks : Closed(blocks, b)

(* ... and it is the only one: what the repairs of the loops and the       *)
(* returns of the branches leave is a control flow graph.                  *)
WellFormedBlocks ==
  /\ EveryBlockTerminated
  /\ pc = "done" =>
       \A b \in DOMAIN blocks : \A i \in 1 .. Len(blocks[b].insts) - 1 :
         ~IsTerminateInst(blocks[b].insts[i])

(* In the finished function a ret returns from the function: none is left  *)
(* over from a break or a continue that its loop did not repair.           *)
NoStrayRet ==
  pc = "done" =>
    \A b \in DOMAIN blocks : \A i \in DOMAIN blocks[b].insts :
      blocks[b].insts[i].op = "ret" => blocks[b].insts[i].want = NoTarget

-----------------------------------------------------------------------------
(* Action property.                                                        *)

(* A jump that has found its target keeps it: no later patch, made for     *)
(* another construct through a list the block was left in, changes it.     *)
ResolvedStay ==
  \A b \in DOMAIN blocks : \A i \in DOMAIN blocks[b].insts :
    LET inst == blocks[b].insts[i] IN
    IsBr(inst) =>
      /\ i \in DOMAIN blocks'[b].insts
      /\ HasRole(inst.t, inst.want.t) => blocks'[b].insts[i].t = inst.t
      /\ HasRole(inst.f, inst.want.f) => blocks'[b].insts[i].f = inst.f
ResolvedJumpsStay == [][ResolvedStay]_vars
=============================================================================
