---------------------------- MODULE ControlFlow ----------------------------
(***************************************************************************)
(* The meaning of the control flow that AstToIR lowers: the source program *)
(* and the control-flow graph made of it are run side by side.             *)
(*                                                                         *)
(* While the translator runs, each node it meets is recorded, with its     *)
(* parent, as the parser built it.  When it is done the source is run by   *)
(* the rules of the language, which know nothing of blocks and lists, and  *)
(* the code by those of the IR.  Each takes its silent steps by itself;    *)
(* both take their events together: a statement that computes, the test of *)
(* a condition, which may go either way, and a return.                     *)
(*                                                                         *)
(* The two meet after every program, so nothing is assumed of the order in *)
(* which the translator built the graph.  A graph that dead code after a   *)
(* break has spoilt (NoStrayRet of AstToIR) is not run.                    *)
(***************************************************************************)
EXTENDS AstToIR

VARIABLES
  tree,    (* the nodes of the source, parents before children             *)
  path,    (* the nodes of which a part is still to be met, outermost first*)
  here,    (* the node of the source that is due, 0 at its end             *)
  at       (* the instruction that is due: its block and its place there   *)

source  == <<tree, path>>
machine == <<here, at>>
allVars == <<vars, source, machine>>

-----------------------------------------------------------------------------
(* Recording.  A node that emits code remembers the place of its first     *)
(* instruction: it names the event in both runs.                           *)
NoPlace == <<0, 0>>
Here    == <<cur, Len(blocks[cur].insts) + 1>>

TreeNode(kind, up, place) == [kind |-> kind, up |-> up, place |-> place]

Leaf(kind, place) ==
  /\ tree' = Append(tree, TreeNode(kind, Last(path), place))
  /\ UNCHANGED <<path, machine>>

Open(kind) ==
  /\ tree' = Append(tree, TreeNode(kind, Last(path), NoPlace))
  /\ path' = Append(path, Len(tree) + 1)
  /\ UNCHANGED machine

Close == path' = Front(path) /\ UNCHANGED <<tree, machine>>

(* A step inside a node, or one that puts a child in its parent's place.   *)
Inside == UNCHANGED <<source, machine>>

CFInit ==
  /\ Init
  /\ tree = <<TreeNode("seq", 0, NoPlace)>> /\ path = <<1>>
  /\ here = 1 /\ at = <<1, 1>>

Translate ==
  \/ NullStmt /\ Leaf("skip", NoPlace)
  \/ \E n \in StmtVals, init \in BOOLEAN : DeclStmt(n, init) /\ Leaf("run", Here)
  \/ \E n \in StmtVals : AssignStmt(n) /\ Leaf("run", Here)
  \/ \E n \in StmtVals, int \in BOOLEAN : CallStmt(n, int) /\ Leaf("run", Here)
  \/ \E n \in StmtVals : ReturnStmt(n) /\ Leaf("return", Here)
  \/ BreakStmt /\ Leaf("break", NoPlace)
  \/ ContinueStmt /\ Leaf("continue", NoPlace)
  \/ CompoundStmt /\ Open("seq")
  \/ NextStmt /\ Inside
  \/ CompoundEnd /\ Close
  \/ IfConst(TRUE) /\ Leaf("skip", NoPlace)
  \/ IfConst(FALSE) /\ Inside
  \/ \E hasElse \in BOOLEAN : IfStmt(hasElse) /\ Open("if")
  \/ IfThen /\ Inside
  \/ IfElse /\ Inside
  \/ IfEnd /\ Close
  \/ WhileFalse /\ Leaf("skip", NoPlace)
  \/ WhileTrue /\ Open("forever")
  \/ WhileStmt /\ Open("while")
  \/ WhileBody /\ Inside
  \/ WhileEnd /\ Close
  \/ \E type \in {"i1", "i32"} : PlainExpr(type) /\ Leaf("test", Here)
  \/ CondDecided /\ Leaf("test", NoPlace)
  \/ CondNeutral /\ Inside
  \/ \E op \in {"and", "or"} : CondOperator(op) /\ Open(op)
  \/ CondRhs /\ Inside
  \/ CondEnd /\ Close
  \/ FunctionEnd /\ Inside

-----------------------------------------------------------------------------
(* The source.  A node is due, then its children in their order; what      *)
(* follows the last depends on what the parent is.                         *)
Kind(n)    == IF n = 0 THEN "end" ELSE tree[n].kind
Kids(n)    == {k \in DOMAIN tree : tree[k].up = n}
Nth(n, k)  == CHOOSE c \in Kids(n) : Cardinality({d \in Kids(n) : d <= c}) = k
Later(n)   == {k \in Kids(tree[n].up) : k > n}

(* The statement n has ended.                                              *)
After ==
  LET after[n \in DOMAIN tree] ==
        LET up == tree[n].up IN
        CASE up = 0 -> 0
          [] up # 0 /\ Kind(up) = "seq" /\ Later(n) # {} -> Min(Later(n))
          [] up # 0 /\ Kind(up) \in {"while", "forever"} -> up
          [] OTHER -> after[up]
  IN after

(* The expression n is worth b: && goes on when it is true, || when it is  *)
(* false, and what an operator leaves open its parent decides.             *)
Tested ==
  LET tested[n \in DOMAIN tree, b \in BOOLEAN] ==
        LET up == tree[n].up IN
        CASE Kind(up) \in {"and", "or"} ->
               IF Later(n) # {} /\ b = (Kind(up) = "and") THEN Min(Later(n))
               ELSE tested[up, b]
          [] b /\ Kind(up) \in {"if", "while"} -> Nth(up, 2)
          [] ~b /\ Kind(up) = "if" /\ Cardinality(Kids(up)) = 3 -> Nth(up, 3)
          [] OTHER -> After[up]
  IN tested

EnclosingLoop(n) ==
  LET up[k \in DOMAIN tree] ==
        IF Kind(k) \in {"while", "forever"} THEN k ELSE up[tree[k].up]
  IN up[n]

SilentSource ==
  CASE Kind(here) = "break"    -> After[EnclosingLoop(here)]
    [] Kind(here) = "continue" -> EnclosingLoop(here)
    [] Kind(here) = "skip" \/ Kids(here) = {} -> After[here]
    [] OTHER -> Nth(here, 1)

SourceWaits == Kind(here) \in {"run", "test", "return", "end"}

SourceEvent ==
  IF here = 0 THEN <<"return", NoPlace>> ELSE <<Kind(here), tree[here].place>>

-----------------------------------------------------------------------------
(* The code.  The place of the test that a conditional branch makes is     *)
(* that of the last value tested in its block, which the translator gave   *)
(* it as operand; a ret likewise returns the value computed for it.        *)
Places(kind) == {tree[n].place : n \in {k \in DOMAIN tree : Kind(k) = kind}}
Over         == <<0, 0>>
Code         == blocks[at[1]].insts
InCode       == at # Over /\ at[2] <= Len(Code)
Due          == Code[at[2]]

Latest(kind) ==
  LET is == {i \in 1 .. at[2] : <<at[1], i>> \in Places(kind)}
  IN IF is = {} THEN NoPlace ELSE <<at[1], Max(is)>>

BlockOf(label) == CHOOSE b \in DOMAIN blocks : blocks[b].label = label

(* "lost": control has run off the end of a block.                         *)
CodeEvent ==
  CASE ~InCode -> <<"lost", at>>
    [] InCode /\ Due.op = "cbr" -> <<"test", Latest("test")>>
    [] InCode /\ Due.op = "ret" -> <<"return", Latest("return")>>
    [] OTHER -> <<"run", at>>

CodeWaits == InCode => Due.op \in {"cbr", "ret"} \/ at \in Places("run")

NextInCode(b) ==
  CASE Due.op = "cbr" -> <<BlockOf(IF b THEN Due.t ELSE Due.f), 1>>
    [] Due.op = "br"  -> <<BlockOf(Due.t), 1>>
    [] OTHER          -> <<at[1], at[2] + 1>>

-----------------------------------------------------------------------------
(* Both runs.  The value of a condition is not known: a test goes either   *)
(* way each time it is made, and the same way in both.                     *)
Running == pc = "done" /\ NoStrayRet /\ at # Over

Silent ==
  /\ Running /\ ~(SourceWaits /\ CodeWaits)
  /\ here' = IF SourceWaits THEN here ELSE SilentSource
  /\ at'   = IF CodeWaits THEN at ELSE NextInCode(TRUE)
  /\ UNCHANGED <<vars, source>>

Meet == Running /\ SourceWaits /\ CodeWaits /\ SourceEvent = CodeEvent

Compute ==
  /\ Meet /\ SourceEvent[1] = "run"
  /\ here' = After[here] /\ at' = NextInCode(TRUE)
  /\ UNCHANGED <<vars, source>>

Test(b) ==
  /\ Meet /\ SourceEvent[1] = "test"
  /\ here' = Tested[here, b] /\ at' = NextInCode(b)
  /\ UNCHANGED <<vars, source>>

Return ==
  /\ Meet /\ SourceEvent[1] = "return"
  /\ here' = 0 /\ at' = Over
  /\ UNCHANGED <<vars, source>>

Stopped == pc = "done" /\ UNCHANGED allVars

CFNext ==
  \/ Translate
  \/ Silent
  \/ Compute \/ (\E b \in BOOLEAN : Test(b)) \/ Return
  \/ Stopped

CFSpec == CFInit /\ [][CFNext]_allVars
FairCFSpec == CFSpec /\ WF_allVars(Silent)

-----------------------------------------------------------------------------
(* Wherever the tests have led, the next thing the code does is the next   *)
(* thing the source does: whatever the nesting of conditions, branches and *)
(* loops, and whatever the order in which their jumps were patched.        *)
CodeFollowsSource ==
  Running /\ SourceWaits /\ CodeWaits => SourceEvent = CodeEvent

(* ... and it gets there: the code does not turn in circles while the      *)
(* source has something to do, nor the other way round.                    *)
NeitherIsStuck ==
  /\ (Running /\ SourceWaits) ~> CodeWaits
  /\ (Running /\ CodeWaits) ~> SourceWaits
=============================================================================
