------------------------- MODULE BackpatchingProofs -------------------------
(***************************************************************************)
(* Machine-checked proofs about the control flow graph that ast_to_ir.cc   *)
(* builds: every block ends with a terminator, and temporaries and labels  *)
(* are numbered in textual order.                                          *)
(***************************************************************************)
EXTENDS AstToIRProofs

Back(bs, b) == Last(bs[b].insts)

-----------------------------------------------------------------------------
(* What the operations on blocks do to each block.                         *)

LEMMA AddBlockEffect ==
  ASSUME NEW bs \in Seq(BlockSet), NEW l \in LabelSet, NEW r \in RoleSet
  PROVE  /\ AddBlock(bs, l, r) \in Seq(BlockSet)
         /\ Len(AddBlock(bs, l, r)) = Len(bs) + 1
         /\ \A b \in 1 .. Len(bs) : AddBlock(bs, l, r)[b] = bs[b]
         /\ AddBlock(bs, l, r)[Len(bs) + 1].label = l
         /\ AddBlock(bs, l, r)[Len(bs) + 1].role = r
         /\ AddBlock(bs, l, r)[Len(bs) + 1].insts = <<>>
<1>1. Block(l, r, <<>>) \in BlockSet
  <2>1. <<>> \in Seq(InstSet)
    OBVIOUS
  <2>2. QED
    BY <2>1, BlockType
<1>2. /\ Block(l, r, <<>>).label = l /\ Block(l, r, <<>>).role = r
      /\ Block(l, r, <<>>).insts = <<>>
  BY DEF Block
<1>3. QED
  BY <1>1, <1>2 DEF AddBlock

LEMMA AddInstsEffect ==
  ASSUME NEW bs \in Seq(BlockSet), NEW x \in 1 .. Len(bs), NEW is \in Seq(InstSet)
  PROVE  /\ AddInsts(bs, x, is) \in Seq(BlockSet)
         /\ Len(AddInsts(bs, x, is)) = Len(bs)
         /\ \A b \in 1 .. Len(bs) :
              /\ AddInsts(bs, x, is)[b].label = bs[b].label
              /\ AddInsts(bs, x, is)[b].role = bs[b].role
         /\ \A b \in 1 .. Len(bs) : b # x => AddInsts(bs, x, is)[b] = bs[b]
         /\ AddInsts(bs, x, is)[x].insts = bs[x].insts \o is
<1>1. /\ AddInsts(bs, x, is) \in Seq(BlockSet)
      /\ Len(AddInsts(bs, x, is)) = Len(bs)
  BY AddInstsGrows DEF Grows
<1>2. \A b \in 1 .. Len(bs) : AddInsts(bs, x, is)[b] =
        IF b = x THEN WithInsts(bs[x], bs[x].insts \o is) ELSE bs[b]
  BY DEF AddInsts
<1>3. ASSUME NEW b \in 1 .. Len(bs)
      PROVE  /\ AddInsts(bs, x, is)[b].label = bs[b].label
             /\ AddInsts(bs, x, is)[b].role = bs[b].role
             /\ b # x => AddInsts(bs, x, is)[b] = bs[b]
             /\ b = x => AddInsts(bs, x, is)[b].insts = bs[x].insts \o is
  <2>1. CASE b = x
    BY <1>2, <2>1 DEF WithInsts, Block
  <2>2. CASE b # x
    BY <1>2, <2>2
  <2>3. QED
    BY <2>1, <2>2
<1>4. QED
  BY <1>1, <1>3

(* An instruction put in place of the last one.                            *)
LEMMA ReplaceLast ==
  ASSUME NEW s \in Seq(InstSet), s # <<>>, NEW j \in InstSet
  PROVE  /\ Len(Append(Front(s), j)) = Len(s) /\ Append(Front(s), j) # <<>>
         /\ \A i \in 1 .. Len(s) - 1 : Append(Front(s), j)[i] = s[i]
         /\ Append(Front(s), j)[Len(s)] = j /\ Last(Append(Front(s), j)) = j
<1> DEFINE f == Front(s)
           t == Append(f, j)
<1>1. /\ f \in Seq(InstSet) /\ Len(f) = Len(s) - 1
      /\ \A i \in 1 .. Len(s) - 1 : f[i] = s[i]
      /\ Len(s) \in Nat
  BY FrontIsSeq
<1> HIDE DEF f
<1>2. /\ t \in Seq(InstSet) /\ Len(t) = Len(f) + 1 /\ t[Len(f) + 1] = j
      /\ \A i \in 1 .. Len(f) : t[i] = f[i]
  BY <1>1
<1> HIDE DEF t
<1>3. Len(t) = Len(s) /\ t # <<>>
  BY <1>1, <1>2
<1>4. QED
  BY <1>1, <1>2, <1>3 DEF Last, f, t

(* The patches: every block b of the list has its last instruction         *)
(* replaced by J[b].                                                       *)
Replaced(bs, bs2, list, J) ==
  /\ bs2 \in Seq(BlockSet) /\ Len(bs2) = Len(bs)
  /\ \A b \in 1 .. Len(bs) : bs2[b].label = bs[b].label /\ bs2[b].role = bs[b].role
  /\ \A b \in 1 .. Len(bs) : b \notin ToSet(list) => bs2[b] = bs[b]
  /\ \A b \in ToSet(list) :
       /\ b \in 1 .. Len(bs) /\ J[b] \in InstSet
       /\ bs[b].insts # <<>> /\ bs2[b].insts # <<>>
       /\ Len(bs2[b].insts) = Len(bs[b].insts)
       /\ \A i \in 1 .. Len(bs[b].insts) - 1 : bs2[b].insts[i] = bs[b].insts[i]
       /\ Back(bs2, b) = J[b]

Trues(bs, list, l) ==
  [b \in ToSet(list) |->
     Inst(Back(bs, b).op, Back(bs, b).id, l, Back(bs, b).f, Back(bs, b).want)]
Falses(bs, list, l) ==
  [b \in ToSet(list) |->
     Inst(Back(bs, b).op, Back(bs, b).id, Back(bs, b).t, l, Back(bs, b).want)]
Brs(bs, list, l) == [b \in ToSet(list) |-> BrInst(l, Back(bs, b).want)]

LEMMA ReplacedBlocks ==
  ASSUME NEW bs \in Seq(BlockSet), NEW list, ListOK(bs, list), NEW J,
         NEW bs2 \in Seq(BlockSet), Len(bs2) = Len(bs),
         \A b \in ToSet(list) : J[b] \in InstSet,
         \A b \in 1 .. Len(bs) :
           bs2[b] = IF b \in ToSet(list)
                    THEN WithInsts(bs[b], Append(Front(bs[b].insts), J[b]))
                    ELSE bs[b]
  PROVE  Replaced(bs, bs2, list, J)
<1>1. ASSUME NEW b \in ToSet(list)
      PROVE  /\ b \in 1 .. Len(bs) /\ bs[b].insts # <<>>
             /\ bs2[b] = WithInsts(bs[b], Append(Front(bs[b].insts), J[b]))
  <2>1. b \in 1 .. Len(bs) /\ bs[b].insts # <<>>
    BY DEF ListOK, ToSet
  <2>2. QED
    BY <2>1
<1>2. ASSUME NEW b \in ToSet(list)
      PROVE  /\ bs2[b].label = bs[b].label /\ bs2[b].role = bs[b].role
             /\ bs2[b].insts = Append(Front(bs[b].insts), J[b])
  <2> DEFINE t == Append(Front(bs[b].insts), J[b])
  <2>1. bs2[b] = WithInsts(bs[b], t)
    BY <1>1
  <2> HIDE DEF t
  <2>2. bs2[b].label = bs[b].label /\ bs2[b].role = bs[b].role /\ bs2[b].insts = t
    BY <2>1 DEF WithInsts, Block
  <2>3. QED
    BY <2>2 DEF t
<1>3. ASSUME NEW b \in ToSet(list)
      PROVE  /\ bs2[b].insts # <<>> /\ Len(bs2[b].insts) = Len(bs[b].insts)
             /\ \A i \in 1 .. Len(bs[b].insts) - 1 : bs2[b].insts[i] = bs[b].insts[i]
             /\ Back(bs2, b) = J[b]
  <2>1. bs[b].insts \in Seq(InstSet) /\ bs[b].insts # <<>> /\ J[b] \in InstSet
    BY <1>1, BlockType
  <2> DEFINE t == Append(Front(bs[b].insts), J[b])
  <2>2. /\ Len(t) = Len(bs[b].insts) /\ t # <<>>
        /\ \A i \in 1 .. Len(bs[b].insts) - 1 : t[i] = bs[b].insts[i]
        /\ Last(t) = J[b]
    BY <2>1, ReplaceLast
  <2>3. bs2[b].insts = t
    BY <1>2
  <2> HIDE DEF t
  <2>4. QED
    BY <2>2, <2>3 DEF Back
<1>4. \A b \in 1 .. Len(bs) : b \notin ToSet(list) => bs2[b] = bs[b]
  OBVIOUS
<1>5. \A b \in 1 .. Len(bs) : bs2[b].label = bs[b].label /\ bs2[b].role = bs[b].role
  BY <1>2, <1>4
<1>6. QED
  BY <1>1, <1>3, <1>4, <1>5 DEF Replaced

LEMMA PatchEffect ==
  ASSUME NEW bs \in Seq(BlockSet), NEW list, ListOK(bs, list), NEW l \in LabelSet
  PROVE  /\ Replaced(bs, SetTrue(bs, list, l), list, Trues(bs, list, l))
         /\ Replaced(bs, SetFalse(bs, list, l), list, Falses(bs, list, l))
         /\ Replaced(bs, CloseJumps(bs, list, l), list, Brs(bs, list, l))
<1>1. ASSUME NEW b \in ToSet(list)
      PROVE  /\ Trues(bs, list, l)[b] \in InstSet /\ Falses(bs, list, l)[b] \in InstSet
             /\ Brs(bs, list, l)[b] \in InstSet
  <2>1. b \in 1 .. Len(bs) /\ bs[b].insts # <<>>
    BY DEF ListOK, ToSet
  <2>2. Back(bs, b) \in InstSet
    BY <2>1, BlockType, LastIsElement DEF Back
  <2>3. QED
    BY <2>2 DEF Trues, Falses, Brs, BrInst, Inst, InstSet, LabelSet
<1>2. DOMAIN bs = 1 .. Len(bs)
  OBVIOUS
<1>3. Replaced(bs, SetTrue(bs, list, l), list, Trues(bs, list, l))
  <2>1. SetTrue(bs, list, l) \in Seq(BlockSet) /\ Len(SetTrue(bs, list, l)) = Len(bs)
    BY MapBackGrows DEF Grows
  <2>2. \A b \in 1 .. Len(bs) : SetTrue(bs, list, l)[b] =
          IF b \in ToSet(list)
          THEN WithInsts(bs[b], Append(Front(bs[b].insts), Trues(bs, list, l)[b]))
          ELSE bs[b]
    BY <1>2 DEF SetTrue, MapBack, Trues, Back
  <2>3. QED
    BY <1>1, <2>1, <2>2, ReplacedBlocks
<1>4. Replaced(bs, SetFalse(bs, list, l), list, Falses(bs, list, l))
  <2>1. SetFalse(bs, list, l) \in Seq(BlockSet) /\ Len(SetFalse(bs, list, l)) = Len(bs)
    BY MapBackGrows DEF Grows
  <2>2. \A b \in 1 .. Len(bs) : SetFalse(bs, list, l)[b] =
          IF b \in ToSet(list)
          THEN WithInsts(bs[b], Append(Front(bs[b].insts), Falses(bs, list, l)[b]))
          ELSE bs[b]
    BY <1>2 DEF SetFalse, MapBack, Falses, Back
  <2>3. QED
    BY <1>1, <2>1, <2>2, ReplacedBlocks
<1>5. Replaced(bs, CloseJumps(bs, list, l), list, Brs(bs, list, l))
  <2>1. CloseJumps(bs, list, l) \in Seq(BlockSet) /\ Len(CloseJumps(bs, list, l)) = Len(bs)
    BY MapBackGrows DEF Grows
  <2>2. \A b \in 1 .. Len(bs) : CloseJumps(bs, list, l)[b] =
          IF b \in ToSet(list)
          THEN WithInsts(bs[b], Append(Front(bs[b].insts), Brs(bs, list, l)[b]))
          ELSE bs[b]
    BY <1>2 DEF CloseJumps, MapBack, Brs, Back
  <2>3. QED
    BY <1>1, <2>1, <2>2, ReplacedBlocks
<1>6. QED
  BY <1>3, <1>4, <1>5

-----------------------------------------------------------------------------
(* bs2 is bs after some code was added: its blocks are the same ones, and  *)
(* those outside S that were closed still are.                             *)
Extends(bs, bs2, S) ==
  /\ Grows(bs, bs2)
  /\ \A b \in 1 .. Len(bs) :
       /\ bs2[b].label = bs[b].label /\ bs2[b].role = bs[b].role
       /\ Closed(bs, b) /\ b \notin S => Closed(bs2, b)

LEMMA ExtendsReflexive ==
  ASSUME NEW bs \in Seq(BlockSet), NEW S
  PROVE  Extends(bs, bs, S)
BY GrowsReflexive DEF Extends

LEMMA ExtendsTransitive ==
  ASSUME NEW b1 \in Seq(BlockSet), NEW b2, NEW b3, NEW S, NEW T,
         Extends(b1, b2, S), Extends(b2, b3, T)
  PROVE  Extends(b1, b3, S \cup T)
<1>1. /\ Len(b1) \in Nat /\ Len(b2) \in Nat /\ Len(b3) \in Nat
      /\ Len(b1) <= Len(b2) /\ Len(b2) <= Len(b3)
  BY DEF Extends, Grows
<1>2. \A b \in 1 .. Len(b1) : b \in 1 .. Len(b2)
  BY <1>1
<1>3. Grows(b1, b3)
  BY GrowsTransitive DEF Extends
<1>4. QED
  BY <1>2, <1>3 DEF Extends

LEMMA AddBlockExtends ==
  ASSUME NEW bs \in Seq(BlockSet), NEW l \in LabelSet, NEW r \in RoleSet
  PROVE  Extends(bs, AddBlock(bs, l, r), {})
BY AddBlockEffect, AddBlockGrows DEF Extends, Closed

Ends(is) == is # <<>> /\ IsTerminateInst(Last(is))

LEMMA ConcatLast ==
  ASSUME NEW s \in Seq(InstSet), NEW is \in Seq(InstSet)
  PROVE  /\ is = <<>> => s \o is = s
         /\ is # <<>> => s \o is # <<>> /\ Last(s \o is) = Last(is)
<1>1. CASE is = <<>>
  BY <1>1
<1>2. CASE is # <<>>
  <2>1. Len(is) \in Nat /\ Len(is) >= 1 /\ Len(s) \in Nat
    BY <1>2
  <2>2. Len(s \o is) = Len(s) + Len(is)
    OBVIOUS
  <2>3. (s \o is)[Len(s) + Len(is)] = is[Len(is)]
    BY <2>1
  <2>4. s \o is # <<>>
    BY <2>1, <2>2
  <2>5. QED
    BY <1>2, <2>2, <2>3, <2>4 DEF Last
<1>3. QED
  BY <1>1, <1>2

LEMMA AddInstsExtends ==
  ASSUME NEW bs \in Seq(BlockSet), NEW x \in 1 .. Len(bs), NEW is \in Seq(InstSet)
  PROVE  /\ Extends(bs, AddInsts(bs, x, is), {x})
         /\ is = <<>> \/ Ends(is) => Extends(bs, AddInsts(bs, x, is), {})
         /\ Ends(is) => Closed(AddInsts(bs, x, is), x)
<1> DEFINE bs2 == AddInsts(bs, x, is)
<1>1. /\ bs2 \in Seq(BlockSet) /\ Len(bs2) = Len(bs)
      /\ \A b \in 1 .. Len(bs) : bs2[b].label = bs[b].label /\ bs2[b].role = bs[b].role
      /\ \A b \in 1 .. Len(bs) : b # x => bs2[b] = bs[b]
      /\ bs2[x].insts = bs[x].insts \o is
  BY AddInstsEffect, Zenon
<1>2. bs[x].insts \in Seq(InstSet)
  BY BlockType
<1> HIDE DEF bs2
<1>3. is # <<>> => bs2[x].insts # <<>> /\ Last(bs2[x].insts) = Last(is)
  BY <1>1, <1>2, ConcatLast
<1>4. is = <<>> => bs2[x].insts = bs[x].insts
  BY <1>1, <1>2, ConcatLast
<1>5. \A b \in 1 .. Len(bs) : b # x => (Closed(bs2, b) <=> Closed(bs, b))
  BY <1>1 DEF Closed
<1>6. Ends(is) => Closed(bs2, x)
  BY <1>3 DEF Closed, Ends
<1>7. is = <<>> => (Closed(bs2, x) <=> Closed(bs, x))
  BY <1>4 DEF Closed
<1>8. QED
  BY <1>1, <1>5, <1>6, <1>7, AddInstsGrows DEF Extends, bs2

LEMMA PatchExtends ==
  ASSUME NEW bs \in Seq(BlockSet), NEW list, ListOK(bs, list), NEW l \in LabelSet
  PROVE  /\ Extends(bs, SetTrue(bs, list, l), {}) /\ Len(SetTrue(bs, list, l)) = Len(bs)
         /\ Extends(bs, SetFalse(bs, list, l), {}) /\ Len(SetFalse(bs, list, l)) = Len(bs)
         /\ Extends(bs, CloseJumps(bs, list, l), {})
         /\ Len(CloseJumps(bs, list, l)) = Len(bs)
<1>1. ASSUME NEW bs2, NEW J, Replaced(bs, bs2, list, J),
             \A b \in ToSet(list) : Closed(bs, b) => IsTerminateInst(J[b])
      PROVE  Extends(bs, bs2, {}) /\ Len(bs2) = Len(bs)
  <2>1. ASSUME NEW b \in 1 .. Len(bs), Closed(bs, b)
        PROVE  Closed(bs2, b)
    <3>1. CASE b \in ToSet(list)
      BY <1>1, <2>1, <3>1 DEF Replaced, Closed, Back
    <3>2. CASE b \notin ToSet(list)
      BY <1>1, <2>1, <3>2 DEF Replaced, Closed
    <3>3. QED
      BY <3>1, <3>2
  <2>2. ASSUME NEW b \in 1 .. Len(bs)
        PROVE  Len(bs[b].insts) <= Len(bs2[b].insts)
    <3>1. Len(bs[b].insts) \in Nat
      BY BlockType
    <3>2. CASE b \in ToSet(list)
      BY <1>1, <3>1, <3>2 DEF Replaced
    <3>3. CASE b \notin ToSet(list)
      BY <1>1, <3>1, <3>3 DEF Replaced
    <3>4. QED
      BY <3>2, <3>3
  <2>3. bs2 \in Seq(BlockSet) /\ Len(bs2) = Len(bs) /\ Len(bs) \in Nat
    BY <1>1 DEF Replaced
  <2>4. Grows(bs, bs2)
    BY <2>2, <2>3 DEF Grows
  <2>5. QED
    BY <1>1, <2>1, <2>3, <2>4 DEF Replaced, Extends
<1>2. \A b \in ToSet(list) : Closed(bs, b) =>
        /\ IsTerminateInst(Trues(bs, list, l)[b])
        /\ IsTerminateInst(Falses(bs, list, l)[b])
        /\ IsTerminateInst(Brs(bs, list, l)[b])
  BY DEF Closed, IsTerminateInst, Trues, Falses, Brs, BrInst, Inst, Back
<1>3. QED
  BY <1>1, <1>2, PatchEffect

-----------------------------------------------------------------------------
(* The blocks a frame knows.                                               *)

(* The block in which the condition a frame waits for is translated.       *)
Asked(f) ==
  CASE f.kind = "if" -> f.bb
    [] f.kind = "while" -> f.check
    [] f.kind = "cond" /\ f.phase = "lhs" -> f.lhs
    [] OTHER -> f.rhs

(* The blocks a frame will still have to close, or may have to.            *)
Waits(f) ==
  CASE f.kind = "if" ->
         IF f.phase = "else" /\ f.hasElse THEN {f.bb, f.thenEnd} ELSE {f.bb}
    [] f.kind = "while" -> {f.check}
    [] f.kind = "cond" -> IF f.phase = "rhs" THEN {f.bb, f.lhs, f.rhs} ELSE {f.bb, f.lhs}
    [] OTHER -> {}

(* Those of them that an operator under the condition has closed.          *)
Tested(f) ==
  CASE f.kind = "if" /\ f.phase # "cond" /\ f.cond = "none" -> {f.bb}
    [] f.kind = "while" /\ f.phase = "body" /\ ~f.const /\ f.cond = "none" -> {f.check}
    [] f.kind = "cond" /\ f.phase = "rhs" /\ f.cond = "none" -> {f.lhs}
    [] OTHER -> {}

WaitsAny(fr)  == UNION {Waits(fr[k]) : k \in 1 .. Len(fr)}
TestedAny(fr) == UNION {Tested(fr[k]) : k \in 1 .. Len(fr)}

(* The blocks a frame waits for exist, those already tested are behind the *)
(* newest one, an operator starts in the block its caller asked about, and *)
(* what the frames around a loop wait for is before the loop.              *)
Placed(fr, n) ==
  /\ \A b \in WaitsAny(fr) : b \in 1 .. n
  /\ \A b \in TestedAny(fr) : b \in 1 .. n - 1
  /\ \A k \in 1 .. Len(fr) : fr[k].kind = "cond" =>
       k > 1 /\ fr[k].bb = Asked(fr[k - 1])
  /\ \A j, k \in 1 .. Len(fr) : j < k /\ fr[k].kind = "while" =>
       \A b \in Waits(fr[j]) : b < fr[k].check

AllClosed(bs, S) == \A b \in 1 .. Len(bs) : Closed(bs, b) \/ b \in S

(* The current block is the newest one; an operand that left a value was   *)
(* translated in it, one that left none has closed it.                     *)
Current ==
  /\ cur = Len(blocks)
  /\ pc = "expr" \/ (pc = "exprret" /\ val # "none") => cur = Asked(Top)
  /\ pc = "exprret" /\ val = "none" => Closed(blocks, Asked(Top)) /\ Closed(blocks, cur)
  /\ pc = "done" => frames = <<>>

Terminated ==
  /\ Placed(frames, Len(blocks))
  /\ Current
  /\ AllClosed(blocks, WaitsAny(frames) \cup (IF pc = "done" THEN {} ELSE {cur}))
  /\ \A b \in TestedAny(frames) : Closed(blocks, b)

TInv == IInv /\ Terminated

-----------------------------------------------------------------------------
(* Frames called, returned from and moved to their next phase.             *)

LEMMA UnionsPush ==
  ASSUME NEW fr \in Seq(FrameSet), NEW f \in FrameSet
  PROVE  /\ WaitsAny(Append(fr, f)) = WaitsAny(fr) \cup Waits(f)
         /\ TestedAny(Append(fr, f)) = TestedAny(fr) \cup Tested(f)
<1> DEFINE s == Append(fr, f)
<1>1. /\ Len(s) = Len(fr) + 1 /\ Len(fr) \in Nat /\ s[Len(fr) + 1] = f
      /\ \A k \in 1 .. Len(fr) : s[k] = fr[k]
  OBVIOUS
<1> HIDE DEF s
<1>2. 1 .. Len(s) = (1 .. Len(fr)) \cup {Len(fr) + 1}
  BY <1>1
<1>3. QED
  BY <1>1, <1>2 DEF WaitsAny, TestedAny, s

LEMMA UnionsTop ==
  ASSUME NEW fr \in Seq(FrameSet), fr # <<>>
  PROVE  /\ WaitsAny(fr) = WaitsAny(Front(fr)) \cup Waits(Last(fr))
         /\ TestedAny(fr) = TestedAny(Front(fr)) \cup Tested(Last(fr))
<1>1. /\ Len(Front(fr)) = Len(fr) - 1 /\ Len(fr) \in Nat \ {0}
      /\ \A k \in 1 .. Len(fr) - 1 : Front(fr)[k] = fr[k]
      /\ Last(fr) = fr[Len(fr)]
  BY FrontIsSeq, LastIsElement
<1>2. 1 .. Len(fr) = (1 .. Len(Front(fr))) \cup {Len(fr)}
  BY <1>1
<1>3. QED
  BY <1>1, <1>2 DEF WaitsAny, TestedAny

LEMMA PlacedLater ==
  ASSUME NEW fr, NEW n \in Nat, NEW m \in Nat, n <= m, Placed(fr, n)
  PROVE  Placed(fr, m)
<1>1. \A b \in 1 .. n : b \in 1 .. m
  OBVIOUS
<1>2. \A b \in 1 .. n - 1 : b \in 1 .. m - 1
  OBVIOUS
<1>3. QED
  BY <1>1, <1>2 DEF Placed

LEMMA PlacedPush ==
  ASSUME NEW fr \in Seq(FrameSet), NEW f \in FrameSet,
         NEW n \in Nat, NEW m \in Nat, n <= m, Placed(fr, n),
         Waits(f) \subseteq 1 .. m, Tested(f) \subseteq 1 .. m - 1,
         f.kind = "cond" => fr # <<>> /\ f.bb = Asked(Last(fr)),
         f.kind = "while" => \A b \in WaitsAny(fr) : b < f.check
  PROVE  Placed(Append(fr, f), m)
<1> DEFINE s == Append(fr, f)
<1>1. /\ Len(s) = Len(fr) + 1 /\ Len(fr) \in Nat /\ s[Len(fr) + 1] = f
      /\ \A k \in 1 .. Len(fr) : s[k] = fr[k]
  OBVIOUS
<1>2. WaitsAny(s) = WaitsAny(fr) \cup Waits(f) /\ TestedAny(s) = TestedAny(fr) \cup Tested(f)
  BY UnionsPush
<1> HIDE DEF s
<1>3. Placed(fr, m)
  BY PlacedLater
<1>4. ASSUME NEW k \in 1 .. Len(s), s[k].kind = "cond"
      PROVE  k > 1 /\ s[k].bb = Asked(s[k - 1])
  <2>1. CASE k = Len(fr) + 1
    <3>1. f.bb = Asked(Last(fr)) /\ fr # <<>> /\ Last(fr) = fr[Len(fr)]
      BY <1>1, <1>4, <2>1, LastIsElement
    <3>2. s[Len(fr)] = fr[Len(fr)] /\ Len(fr) \in 1 .. Len(fr)
      BY <1>1, <3>1
    <3>3. QED
      BY <1>1, <2>1, <3>1, <3>2
  <2>2. CASE k \in 1 .. Len(fr)
    <3>1. fr[k].kind = "cond"
      BY <1>1, <1>4, <2>2
    <3>2. k > 1 /\ fr[k].bb = Asked(fr[k - 1])
      BY <1>3, <2>2, <3>1 DEF Placed
    <3>3. k - 1 \in 1 .. Len(fr)
      BY <1>1, <2>2, <3>2
    <3>4. QED
      BY <1>1, <2>2, <3>2, <3>3
  <2>3. QED
    BY <1>1, <2>1, <2>2
<1>5. ASSUME NEW j \in 1 .. Len(s), NEW k \in 1 .. Len(s), j < k,
             s[k].kind = "while", NEW b \in Waits(s[j])
      PROVE  b < s[k].check
  <2>1. j \in 1 .. Len(fr) /\ s[j] = fr[j]
    BY <1>1, <1>5
  <2>2. CASE k = Len(fr) + 1
    <3>1. b \in WaitsAny(fr)
      BY <1>5, <2>1 DEF WaitsAny
    <3>2. QED
      BY <1>1, <1>5, <2>2, <3>1
  <2>3. CASE k \in 1 .. Len(fr)
    <3>1. fr[k].kind = "while" /\ b \in Waits(fr[j]) /\ s[k] = fr[k]
      BY <1>1, <1>5, <2>1, <2>3
    <3>2. QED
      BY <1>3, <1>5, <2>1, <2>3, <3>1 DEF Placed
  <2>4. QED
    BY <1>1, <2>2, <2>3
<1>6. \A b \in WaitsAny(s) : b \in 1 .. m
  BY <1>2, <1>3 DEF Placed
<1>7. \A b \in TestedAny(s) : b \in 1 .. m - 1
  BY <1>2, <1>3 DEF Placed
<1>8. Placed(s, m)
  BY <1>4, <1>5, <1>6, <1>7 DEF Placed
<1>9. QED
  BY <1>8 DEF s

LEMMA PlacedPop ==
  ASSUME NEW fr \in Seq(FrameSet), fr # <<>>, NEW n, Placed(fr, n)
  PROVE  Placed(Front(fr), n)
<1>1. /\ Len(Front(fr)) = Len(fr) - 1 /\ Len(fr) \in Nat \ {0}
      /\ \A k \in 1 .. Len(fr) - 1 : Front(fr)[k] = fr[k]
  BY FrontIsSeq
<1>2. WaitsAny(Front(fr)) \subseteq WaitsAny(fr) /\ TestedAny(Front(fr)) \subseteq TestedAny(fr)
  BY UnionsTop
<1>3. ASSUME NEW k \in 1 .. Len(Front(fr)), Front(fr)[k].kind = "cond"
      PROVE  k > 1 /\ Front(fr)[k].bb = Asked(Front(fr)[k - 1])
  <2>1. k \in 1 .. Len(fr) /\ fr[k].kind = "cond" /\ Front(fr)[k] = fr[k]
    BY <1>1, <1>3
  <2>2. k > 1 /\ fr[k].bb = Asked(fr[k - 1])
    BY <2>1 DEF Placed
  <2>3. Front(fr)[k - 1] = fr[k - 1]
    BY <1>1, <2>2
  <2>4. QED
    BY <2>1, <2>2, <2>3
<1>4. ASSUME NEW j \in 1 .. Len(Front(fr)), NEW k \in 1 .. Len(Front(fr)), j < k,
             Front(fr)[k].kind = "while", NEW b \in Waits(Front(fr)[j])
      PROVE  b < Front(fr)[k].check
  <2>1. /\ j \in 1 .. Len(fr) /\ k \in 1 .. Len(fr)
        /\ Front(fr)[k] = fr[k] /\ Front(fr)[j] = fr[j]
    BY <1>1
  <2>2. QED
    BY <1>4, <2>1 DEF Placed
<1>5. QED
  BY <1>2, <1>3, <1>4 DEF Placed

LEMMA PlacedTop ==
  ASSUME NEW fr \in Seq(FrameSet), fr # <<>>, NEW n, Placed(fr, n)
  PROVE  /\ Waits(Last(fr)) \subseteq 1 .. n /\ Tested(Last(fr)) \subseteq 1 .. n - 1
         /\ Last(fr).kind = "cond" =>
              Front(fr) # <<>> /\ Last(fr).bb = Asked(Last(Front(fr)))
         /\ Last(fr).kind = "while" => \A b \in WaitsAny(Front(fr)) : b < Last(fr).check
<1>1. /\ Front(fr) \in Seq(FrameSet) /\ Len(Front(fr)) = Len(fr) - 1
      /\ Len(fr) \in Nat \ {0} /\ Len(fr) \in 1 .. Len(fr)
      /\ \A k \in 1 .. Len(fr) - 1 : Front(fr)[k] = fr[k]
      /\ Last(fr) = fr[Len(fr)]
  BY FrontIsSeq, LastIsElement
<1>2. Waits(Last(fr)) \subseteq WaitsAny(fr) /\ Tested(Last(fr)) \subseteq TestedAny(fr)
  BY UnionsTop
<1>3. Waits(Last(fr)) \subseteq 1 .. n /\ Tested(Last(fr)) \subseteq 1 .. n - 1
  BY <1>2 DEF Placed
<1>4. ASSUME Last(fr).kind = "cond"
      PROVE  Front(fr) # <<>> /\ Last(fr).bb = Asked(Last(Front(fr)))
  <2>1. Len(fr) > 1 /\ Last(fr).bb = Asked(fr[Len(fr) - 1])
    BY <1>1, <1>4 DEF Placed
  <2>2. Len(Front(fr)) > 0 /\ Front(fr) # <<>>
    BY <1>1, <2>1
  <2>3. Last(Front(fr)) = fr[Len(fr) - 1]
    BY <1>1, <2>1, <2>2, LastIsElement
  <2>4. QED
    BY <2>1, <2>2, <2>3
<1>5. ASSUME Last(fr).kind = "while", NEW b \in WaitsAny(Front(fr))
      PROVE  b < Last(fr).check
  <2>1. PICK j \in 1 .. Len(Front(fr)) : b \in Waits(Front(fr)[j])
    BY <1>5 DEF WaitsAny
  <2>2. j \in 1 .. Len(fr) /\ j < Len(fr) /\ Front(fr)[j] = fr[j]
    BY <1>1, <2>1
  <2>3. QED
    BY <1>1, <1>5, <2>1, <2>2 DEF Placed
<1>6. QED
  BY <1>3, <1>4, <1>5

LEMMA PlacedSetTop ==
  ASSUME NEW fr \in Seq(FrameSet), fr # <<>>, NEW f \in FrameSet,
         NEW n \in Nat, NEW m \in Nat, n <= m, Placed(fr, n), f.kind = Last(fr).kind,
         Waits(f) \subseteq 1 .. m, Tested(f) \subseteq 1 .. m - 1,
         f.kind = "cond" => f.bb = Last(fr).bb,
         f.kind = "while" => f.check = Last(fr).check
  PROVE  Placed(Append(Front(fr), f), m)
<1>1. Front(fr) \in Seq(FrameSet) /\ Placed(Front(fr), n)
  BY FrontIsSeq, PlacedPop
<1>2. /\ f.kind = "cond" => Front(fr) # <<>> /\ f.bb = Asked(Last(Front(fr)))
      /\ f.kind = "while" => \A b \in WaitsAny(Front(fr)) : b < f.check
  BY PlacedTop
<1>3. QED
  BY <1>1, <1>2, PlacedPush

-----------------------------------------------------------------------------
(* What a step that calls, stays, moves on or returns has to close.        *)

LEMMA ClosedAfter ==
  ASSUME NEW bs \in Seq(BlockSet), NEW bs2, NEW S, NEW T, NEW S2,
         Extends(bs, bs2, T), AllClosed(bs, S),
         \A b \in 1 .. Len(bs2) :
           b \in S \cup T \/ b > Len(bs) => b \in S2 \/ Closed(bs2, b)
  PROVE  AllClosed(bs2, S2)
<1>1. Len(bs) \in Nat /\ Len(bs2) \in Nat
  BY DEF Extends, Grows
<1>2. ASSUME NEW b \in 1 .. Len(bs2)
      PROVE  b \in S2 \/ Closed(bs2, b)
  <2>1. CASE b > Len(bs) \/ b \in S \cup T
    BY <2>1
  <2>2. CASE ~ (b > Len(bs)) /\ b \notin S \cup T
    <3>1. b \in 1 .. Len(bs)
      BY <1>1, <2>2
    <3>2. QED
      BY <2>2, <3>1 DEF AllClosed, Extends, Grows
  <2>3. QED
    BY <2>1, <2>2
<1>3. QED
  BY <1>2 DEF AllClosed

(* The tested blocks are behind the current one: code added to the current *)
(* block leaves them closed.                                               *)
LEMMA TestedStay ==
  ASSUME TInv, NEW bs2, Extends(blocks, bs2, {cur})
  PROVE  \A b \in TestedAny(frames) : b \in 1 .. Len(bs2) - 1 /\ Closed(bs2, b)
<1>1. /\ Len(blocks) \in Nat /\ Len(bs2) \in Nat /\ Len(blocks) <= Len(bs2)
      /\ cur = Len(blocks)
  BY DEF TInv, IInv, TypeOK, Extends, Grows, Terminated, Current
<1>2. ASSUME NEW b \in TestedAny(frames)
      PROVE  b \in 1 .. Len(bs2) - 1 /\ Closed(bs2, b)
  <2>1. b \in 1 .. Len(blocks) - 1 /\ Closed(blocks, b)
    BY DEF TInv, Terminated, Placed
  <2>2. b \in 1 .. Len(blocks) /\ b \notin {cur}
    BY <1>1, <2>1
  <2>3. QED
    BY <1>1, <2>1, <2>2 DEF Extends, Grows
<1>3. QED
  BY <1>2

LEMMA Basics ==
  ASSUME TInv
  PROVE  /\ blocks \in Seq(BlockSet) /\ Len(blocks) \in Nat \ {0}
         /\ frames \in Seq(FrameSet) /\ cur = Len(blocks) /\ cur \in 1 .. Len(blocks)
         /\ tmp_id \in Nat /\ nodes \in Nat /\ val \in {"none", "i1", "i32"}
         /\ Placed(frames, Len(blocks)) /\ TypeOK
         /\ New = Len(blocks) + 1
         /\ pc # "done" => AllClosed(blocks, WaitsAny(frames) \cup {cur})
<1>1. blocks \in Seq(BlockSet) /\ cur \in 1 .. Len(blocks) /\ cur = Len(blocks)
  BY DEF TInv, IInv, TypeOK, Terminated, Current
<1>2. Len(blocks) \in Nat \ {0}
  BY <1>1
<1>3. QED
  BY <1>1, <1>2 DEF TInv, IInv, TypeOK, Terminated, New

LEMMA StayTerminated ==
  ASSUME TInv, pc # "done", pc' # "done", frames' = frames, cur' = cur,
         Extends(blocks, blocks', {cur}), Len(blocks') = Len(blocks), Current'
  PROVE  Terminated'
<1>1. AllClosed(blocks', WaitsAny(frames) \cup {cur})
  <2>1. \A b \in 1 .. Len(blocks') : ~ (b > Len(blocks))
    BY Basics
  <2>2. QED
    BY <2>1, Basics, ClosedAfter
<1>2. QED
  BY <1>1, Basics, TestedStay DEF Terminated

LEMMA CallTerminated ==
  ASSUME TInv, pc # "done", pc' # "done", NEW f \in FrameSet,
         frames' = Append(frames, f), Extends(blocks, blocks', {}),
         Tested(f) = {}, Waits(f) \subseteq 1 .. Len(blocks'),
         f.kind = "cond" => frames # <<>> /\ f.bb = Asked(Top),
         f.kind = "while" => f.check > Len(blocks),
         \A b \in 1 .. Len(blocks') :
           b = cur \/ b > Len(blocks) =>
             b \in Waits(f) \cup {cur'} \/ Closed(blocks', b),
         Current'
  PROVE  Terminated'
<1>1. /\ WaitsAny(frames') = WaitsAny(frames) \cup Waits(f)
      /\ TestedAny(frames') = TestedAny(frames)
  BY Basics, UnionsPush
<1>2. /\ Extends(blocks, blocks', {cur}) /\ Len(blocks) <= Len(blocks')
      /\ Len(blocks') \in Nat
  BY DEF Extends, Grows
<1>3. AllClosed(blocks', WaitsAny(frames') \cup {cur'})
  BY <1>1, <1>2, Basics, ClosedAfter
<1>4. \A b \in TestedAny(frames') : b \in 1 .. Len(blocks') - 1 /\ Closed(blocks', b)
  BY <1>1, <1>2, TestedStay
<1>5. Placed(frames', Len(blocks'))
  <2>1. f.kind = "while" => \A b \in WaitsAny(frames) : b < f.check
    <3>1. f.kind = "while" => f.check \in Nat
      BY FrameFields
    <3>2. \A b \in WaitsAny(frames) : b \in 1 .. Len(blocks)
      BY Basics DEF Placed
    <3>3. QED
      BY <3>1, <3>2, Basics
  <2>2. QED
    BY <1>2, <2>1, Basics, PlacedPush DEF Top
<1>6. QED
  BY <1>3, <1>4, <1>5 DEF Terminated

LEMMA PhaseTerminated ==
  ASSUME TInv, pc # "done", pc' # "done", frames # <<>>, NEW f \in FrameSet,
         frames' = SetTop(f), f.kind = Top.kind, Extends(blocks, blocks', {cur}),
         Waits(Top) \subseteq Waits(f), Waits(f) \subseteq 1 .. Len(blocks'),
         \A b \in Tested(f) : b \in 1 .. Len(blocks') - 1 /\ Closed(blocks', b),
         f.kind = "cond" => f.bb = Top.bb,
         f.kind = "while" => f.check = Top.check,
         \A b \in 1 .. Len(blocks') :
           b = cur \/ b > Len(blocks) =>
             b \in Waits(f) \cup {cur'} \/ Closed(blocks', b),
         Current'
  PROVE  Terminated'
<1>1. /\ WaitsAny(frames) = WaitsAny(Front(frames)) \cup Waits(Top)
      /\ TestedAny(frames) = TestedAny(Front(frames)) \cup Tested(Top)
      /\ Front(frames) \in Seq(FrameSet)
  BY Basics, UnionsTop, FrontIsSeq DEF Top
<1>2. /\ WaitsAny(frames') = WaitsAny(Front(frames)) \cup Waits(f)
      /\ TestedAny(frames') = TestedAny(Front(frames)) \cup Tested(f)
  BY <1>1, UnionsPush DEF SetTop
<1>3. Len(blocks) <= Len(blocks') /\ Len(blocks') \in Nat
  BY DEF Extends, Grows
<1>4. AllClosed(blocks', WaitsAny(frames') \cup {cur'})
  <2>1. \A b \in 1 .. Len(blocks') :
          b \in WaitsAny(frames) \cup {cur} \cup {cur} \/ b > Len(blocks) =>
            b \in WaitsAny(frames') \cup {cur'} \/ Closed(blocks', b)
    BY <1>1, <1>2
  <2>2. QED
    BY <2>1, Basics, ClosedAfter
<1>5. \A b \in TestedAny(frames') : b \in 1 .. Len(blocks') - 1 /\ Closed(blocks', b)
  BY <1>1, <1>2, TestedStay
<1>6. Placed(frames', Len(blocks'))
  <2>1. Tested(f) \subseteq 1 .. Len(blocks') - 1
    OBVIOUS
  <2>2. QED
    BY <1>3, <2>1, Basics, PlacedSetTop DEF Top, SetTop
<1>7. QED
  BY <1>4, <1>5, <1>6 DEF Terminated

LEMMA ReturnTerminated ==
  ASSUME TInv, pc # "done", pc' # "done", frames # <<>>, frames' = Front(frames),
         Extends(blocks, blocks', {cur}),
         \A b \in 1 .. Len(blocks') :
           b = cur \/ b > Len(blocks) \/ b \in Waits(Top) =>
             b = cur' \/ Closed(blocks', b),
         Current'
  PROVE  Terminated'
<1>1. /\ WaitsAny(frames) = WaitsAny(Front(frames)) \cup Waits(Top)
      /\ TestedAny(frames) = TestedAny(Front(frames)) \cup Tested(Top)
  BY Basics, UnionsTop DEF Top
<1>2. Len(blocks) <= Len(blocks') /\ Len(blocks') \in Nat
  BY DEF Extends, Grows
<1>3. AllClosed(blocks', WaitsAny(frames') \cup {cur'})
  <2>1. \A b \in 1 .. Len(blocks') :
          b \in WaitsAny(frames) \cup {cur} \cup {cur} \/ b > Len(blocks) =>
            b \in WaitsAny(frames') \cup {cur'} \/ Closed(blocks', b)
    BY <1>1
  <2>2. QED
    BY <2>1, Basics, ClosedAfter
<1>4. \A b \in TestedAny(frames') : Closed(blocks', b)
  BY <1>1, TestedStay
<1>5. Placed(frames', Len(blocks'))
  <2>1. Placed(Front(frames), Len(blocks))
    BY Basics, PlacedPop
  <2>2. QED
    BY <1>2, <2>1, Basics, PlacedLater
<1>6. QED
  BY <1>3, <1>4, <1>5 DEF Terminated

-----------------------------------------------------------------------------
(* Every action keeps Terminated.                                          *)

LEMMA ExtendsAgain ==
  ASSUME NEW b1 \in Seq(BlockSet), NEW b2, NEW b3, NEW S,
         Extends(b1, b2, S), Extends(b2, b3, {})
  PROVE  Extends(b1, b3, S)
<1>1. S \cup {} = S
  OBVIOUS
<1>2. QED
  BY <1>1, ExtendsTransitive

LEMMA EmitTerminated ==
  ASSUME TInv, pc # "done", NEW is \in Seq(InstSet),
         blocks' = AddInsts(blocks, cur, is), frames' = frames, cur' = cur,
         pc' \in {"stmtret", "exprret"},
         pc' = "exprret" => val' # "none" /\ cur = Asked(Top)
  PROVE  Terminated'
<1>1. Extends(blocks, blocks', {cur}) /\ Len(blocks') = Len(blocks)
  BY Basics, AddInstsExtends, AddInstsEffect
<1>2. Current'
  BY <1>1, Basics DEF Current, Top
<1>3. QED
  BY <1>1, <1>2, StayTerminated

LEMMA StraightTerminated ==
  ASSUME TInv, NEW n \in Nat, NEW store \in BOOLEAN, EmitStraight(n, store)
  PROVE  Terminated'
<1>1. Straight(n, store) \in Seq(InstSet)
  BY Basics, StraightType
<1>2. QED
  BY <1>1, EmitTerminated DEF EmitStraight, Emit, Stmt, stacks

LEMMA ReturnStmtTerminated ==
  ASSUME TInv, NEW n \in Nat, ReturnStmt(n)
  PROVE  Terminated'
<1>1. Append(Straight(n, FALSE), RetInst) \in Seq(InstSet)
  BY Basics, StraightType
<1>2. QED
  BY <1>1, EmitTerminated DEF ReturnStmt, Emit, Stmt

LEMMA JumpTerminated ==
  ASSUME TInv, BreakStmt \/ ContinueStmt
  PROVE  Terminated'
<1>1. Loop \in Nat
  BY LoopType DEF BreakStmt, ContinueStmt, TInv
<1>2. /\ <<OpenJump(Role(Loop, "end"))>> \in Seq(InstSet)
      /\ <<OpenJump(Role(Loop, "check"))>> \in Seq(InstSet)
  BY <1>1, RoleType, InstType DEF Parts
<1>3. QED
  BY <1>2, EmitTerminated DEF BreakStmt, ContinueStmt, Emit, Stmt

LEMMA PlainTerminated ==
  ASSUME TInv, NEW type \in {"i1", "i32"}, PlainExpr(type)
  PROVE  Terminated'
<1>1. <<ValInst(tmp_id)>> \in Seq(InstSet)
  BY Basics, InstType
<1>2. cur = Asked(Top)
  BY DEF TInv, Terminated, Current, PlainExpr, Expr
<1>3. QED
  BY <1>1, <1>2, EmitTerminated DEF PlainExpr, Expr

LEMMA SameTerminated ==
  ASSUME TInv,
         NullStmt \/ NextStmt \/ (\E absent \in BOOLEAN : IfConst(absent))
           \/ WhileFalse \/ CondDecided \/ CondNeutral
  PROVE  Terminated'
<1>1. Extends(blocks, blocks, {cur})
  BY Basics, ExtendsReflexive
<1>2. blocks' = blocks /\ frames' = frames /\ cur' = cur /\ pc # "done" /\ pc' # "done"
  BY DEF NullStmt, NextStmt, IfConst, WhileFalse, CondDecided, CondNeutral, Stmt, Expr
<1>3. /\ pc' = "expr" \/ (pc' = "exprret" /\ val' # "none") => pc = "expr"
      /\ ~ (pc' = "exprret" /\ val' = "none")
  BY DEF NullStmt, NextStmt, IfConst, WhileFalse, CondDecided, CondNeutral, Stmt, Expr
<1>4. Current'
  BY <1>2, <1>3 DEF TInv, Terminated, Current, Top
<1>5. QED
  BY <1>1, <1>2, <1>4, StayTerminated

LEMMA CompoundTerminated ==
  ASSUME TInv, CompoundStmt
  PROVE  Terminated'
<1>1. /\ pc = "stmt" /\ pc' = "stmtret" /\ blocks' = blocks /\ cur' = cur
      /\ frames' = Append(frames, SeqFrame)
  BY DEF CompoundStmt, Stmt
<1>2. Extends(blocks, blocks', {})
  BY <1>1, Basics, ExtendsReflexive
<1>3. SeqFrame \in FrameSet /\ SeqFrame.kind = "seq"
  BY FrameType
<1>4. Waits(SeqFrame) = {} /\ Tested(SeqFrame) = {}
  BY <1>3 DEF Waits, Tested
<1>5. Current'
  BY <1>1, Basics DEF Current
<1>6. \A b \in 1 .. Len(blocks') : b = cur \/ b > Len(blocks) => b = cur'
  BY <1>1, Basics
<1>7. QED
  BY <1>1, <1>2, <1>3, <1>4, <1>5, <1>6, CallTerminated

LEMMA CompoundEndTerminated ==
  ASSUME TInv, CompoundEnd
  PROVE  Terminated'
<1>1. /\ pc = "stmtret" /\ pc' = pc /\ blocks' = blocks /\ cur' = cur
      /\ frames # <<>> /\ Top.kind = "seq" /\ frames' = Front(frames)
  BY DEF CompoundEnd, TopIsSeq
<1>2. Extends(blocks, blocks', {cur})
  BY <1>1, Basics, ExtendsReflexive
<1>3. Waits(Top) = {}
  BY <1>1 DEF Waits
<1>4. Current'
  BY <1>1, Basics DEF Current
<1>5. \A b \in 1 .. Len(blocks') : b = cur \/ b > Len(blocks) => b = cur'
  BY <1>1, Basics
<1>6. QED
  BY <1>1, <1>2, <1>3, <1>4, <1>5, ReturnTerminated

LEMMA IfStmtTerminated ==
  ASSUME TInv, NEW hasElse \in BOOLEAN, IfStmt(hasElse)
  PROVE  Terminated'
<1> DEFINE f == IfFrame("cond", nodes + 1, cur, hasElse, "none", 0, 0, 0)
<1>1. /\ pc = "stmt" /\ pc' = "expr" /\ blocks' = blocks /\ cur' = cur
      /\ frames' = Append(frames, f)
  BY DEF IfStmt, Emit, Stmt
<1>2. Extends(blocks, blocks', {})
  BY <1>1, Basics, ExtendsReflexive
<1>3. f \in FrameSet /\ f.kind = "if" /\ f.phase = "cond" /\ f.bb = cur
  <2>1. nodes + 1 \in Nat /\ cur \in Nat /\ "none" \in CondVals
    BY Basics DEF CondVals
  <2>2. f \in FrameSet
    BY <2>1, FrameType
  <2>3. QED
    BY <2>2 DEF IfFrame
<1> HIDE DEF f
<1>4. Waits(f) = {cur} /\ Tested(f) = {} /\ Asked(f) = cur
  BY <1>3 DEF Waits, Tested, Asked
<1>5. Last(frames') = f
  BY <1>1, Basics DEF Last
<1>6. Current'
  BY <1>1, <1>4, <1>5, Basics DEF Current, Top
<1>7. \A b \in 1 .. Len(blocks') : b = cur \/ b > Len(blocks) => b = cur'
  BY <1>1, Basics
<1>8. QED
  BY <1>1, <1>2, <1>3, <1>4, <1>6, <1>7, Basics, CallTerminated

LEMMA OperatorTerminated ==
  ASSUME TInv, NEW op \in {"and", "or"}, CondOperator(op)
  PROVE  Terminated'
<1> DEFINE f == CondFrame(op, "lhs", nodes + 1, cur, New, 0, "none", Want, <<>>, <<>>)
<1>1. /\ pc = "expr" /\ pc' = "expr" /\ cur' = New /\ frames' = Append(frames, f)
      /\ blocks' = AddBlock(blocks, tmp_id, Role(nodes + 1, "lhs"))
  BY DEF CondOperator, Expr
<1>2. frames # <<>> /\ Awaits(Top) /\ Want \in WantSet
  <2>1. frames # <<>> /\ Awaits(Top)
    BY <1>1 DEF TInv, IInv, ExprCalls
  <2>2. QED
    BY <2>1, TopType DEF TInv, Awaits
<1>3. Extends(blocks, blocks', {}) /\ Len(blocks') = New
  <2>1. tmp_id \in LabelSet /\ Role(nodes + 1, "lhs") \in RoleSet
    BY Basics, RoleType DEF LabelSet, Parts
  <2>2. QED
    BY <1>1, <2>1, Basics, AddBlockExtends, AddBlockEffect
<1>4. f \in FrameSet /\ f.kind = "cond" /\ f.phase = "lhs" /\ f.bb = cur /\ f.lhs = New
  <2>1. /\ <<>> \in Seq(Nat) /\ New \in Nat /\ 0 \in Nat /\ nodes + 1 \in Nat
        /\ cur \in Nat /\ "none" \in CondVals
    BY Basics DEF CondVals
  <2>2. f \in FrameSet
    BY <1>2, <2>1, FrameType
  <2>3. QED
    BY <2>2 DEF CondFrame
<1> HIDE DEF f
<1>5. Waits(f) = {cur, New} /\ Tested(f) = {} /\ Asked(f) = New
  BY <1>4 DEF Waits, Tested, Asked
<1>6. Last(frames') = f
  BY <1>1, Basics DEF Last
<1>7. Current'
  BY <1>1, <1>3, <1>5, <1>6 DEF Current, Top
<1>8. \A b \in 1 .. Len(blocks') : b = cur \/ b > Len(blocks) => b \in {cur, New}
  BY <1>3, Basics
<1>9. cur = Asked(Top)
  BY <1>1 DEF TInv, Terminated, Current
<1>10. {cur, New} \subseteq 1 .. Len(blocks')
  BY <1>3, Basics
<1>11. QED
  BY <1>1, <1>2, <1>3, <1>4, <1>5, <1>7, <1>8, <1>9, <1>10, CallTerminated

(* The jump to the check block closes the block before it.                 *)
LEMMA CheckBlocks ==
  ASSUME TInv, NEW n \in Nat
  PROVE  LET bs == AddInsts(AddBlock(blocks, tmp_id, Role(n, "check")),
                            cur, <<BrInst(tmp_id, To(Role(n, "check")))>>)
         IN /\ Extends(blocks, bs, {}) /\ Len(bs) = New /\ Closed(bs, cur)
<1> DEFINE bs1 == AddBlock(blocks, tmp_id, Role(n, "check"))
           is  == <<BrInst(tmp_id, To(Role(n, "check")))>>
           bs2 == AddInsts(bs1, cur, is)
<1>1. /\ tmp_id \in LabelSet /\ Role(n, "check") \in RoleSet
      /\ To(Role(n, "check")) \in WantSet
  BY Basics, RoleType DEF LabelSet, Parts
<1>2. is \in Seq(InstSet) /\ Ends(is)
  <2>1. /\ BrInst(tmp_id, To(Role(n, "check"))) \in InstSet
        /\ IsTerminateInst(BrInst(tmp_id, To(Role(n, "check"))))
    BY <1>1, InstType DEF IsTerminateInst, BrInst, Inst
  <2>2. QED
    BY <2>1 DEF Ends, Last
<1> HIDE DEF is
<1>3. Extends(blocks, bs1, {}) /\ Len(bs1) = New
  BY <1>1, Basics, AddBlockExtends, AddBlockEffect
<1>4. bs1 \in Seq(BlockSet) /\ cur \in 1 .. Len(bs1)
  BY <1>3, Basics DEF Extends, Grows
<1> HIDE DEF bs1
<1>5. Extends(bs1, bs2, {}) /\ Len(bs2) = New /\ Closed(bs2, cur)
  BY <1>2, <1>3, <1>4, AddInstsExtends, AddInstsEffect
<1> HIDE DEF bs2
<1>6. Extends(blocks, bs2, {})
  BY <1>3, <1>5, Basics, ExtendsAgain
<1>7. QED
  BY <1>5, <1>6 DEF bs1, bs2, is

LEMMA WhileStmtTerminated ==
  ASSUME TInv, WhileStmt
  PROVE  Terminated'
<1> DEFINE n  == nodes + 1
           bs == AddInsts(AddBlock(blocks, tmp_id, Role(n, "check")),
                          cur, <<BrInst(tmp_id, To(Role(n, "check")))>>)
           f  == WhileFrame("cond", n, New, FALSE, "none", 0)
<1>1. n \in Nat /\ New \in Nat /\ "none" \in CondVals
  BY Basics DEF CondVals
<1>2. Extends(blocks, bs, {}) /\ Len(bs) = New /\ Closed(bs, cur)
  BY <1>1, CheckBlocks
<1> HIDE DEF bs
<1>3. /\ f \in FrameSet /\ f.kind = "while" /\ f.phase = "cond" /\ f.check = New
  <2>1. f \in FrameSet
    BY <1>1, FrameType
  <2>2. QED
    BY <2>1 DEF WhileFrame
<1> HIDE DEF f
<1>4. /\ pc = "stmt" /\ pc' = "expr" /\ blocks' = bs /\ cur' = New
      /\ frames' = Append(frames, f)
  BY DEF WhileStmt, Emit, Stmt, bs, f
<1>5. Waits(f) = {New} /\ Tested(f) = {} /\ Asked(f) = New
  BY <1>3 DEF Waits, Tested, Asked
<1>6. Last(frames') = f
  BY <1>4, Basics DEF Last
<1>7. Current'
  BY <1>2, <1>4, <1>5, <1>6 DEF Current, Top
<1>8. \A b \in 1 .. Len(blocks') :
        b = cur \/ b > Len(blocks) => b = New \/ Closed(blocks', b)
  BY <1>2, <1>4, Basics
<1>9. {New} \subseteq 1 .. Len(blocks')
  BY <1>2, <1>4, Basics
<1>10. QED
  BY <1>2, <1>3, <1>4, <1>5, <1>7, <1>8, <1>9, Basics, CallTerminated

LEMMA WhileTrueTerminated ==
  ASSUME TInv, WhileTrue
  PROVE  Terminated'
<1> DEFINE n  == nodes + 1
           bs == AddInsts(AddBlock(blocks, tmp_id, Role(n, "check")),
                          cur, <<BrInst(tmp_id, To(Role(n, "check")))>>)
           bs2 == AddBlock(bs, tmp_id + 1, Role(n, "body"))
           f  == WhileFrame("body", n, New, TRUE, "none", New + 1)
<1>1. n \in Nat /\ New \in Nat /\ New + 1 \in Nat /\ "none" \in CondVals
  BY Basics DEF CondVals
<1>2. Extends(blocks, bs, {}) /\ Len(bs) = New /\ Closed(bs, cur)
  BY <1>1, CheckBlocks
<1> HIDE DEF bs
<1>3. bs \in Seq(BlockSet) /\ tmp_id + 1 \in LabelSet /\ Role(n, "body") \in RoleSet
  BY <1>1, <1>2, Basics, RoleType DEF Extends, Grows, LabelSet, Parts
<1>4. Extends(bs, bs2, {}) /\ Len(bs2) = New + 1
  BY <1>2, <1>3, AddBlockExtends, AddBlockEffect
<1> HIDE DEF bs2
<1>5. Extends(blocks, bs2, {}) /\ Closed(bs2, cur)
  <2>1. cur \in 1 .. Len(bs)
    BY <1>2, Basics
  <2>2. Extends(blocks, bs2, {})
    BY <1>2, <1>4, Basics, ExtendsAgain
  <2>3. QED
    BY <1>2, <1>4, <2>1, <2>2 DEF Extends
<1>6. /\ f \in FrameSet /\ f.kind = "while" /\ f.phase = "body" /\ f.check = New
      /\ f.const
  <2>1. f \in FrameSet
    BY <1>1, FrameType
  <2>2. QED
    BY <2>1 DEF WhileFrame
<1> HIDE DEF f
<1>7. /\ pc = "stmt" /\ pc' = "stmt" /\ blocks' = bs2 /\ cur' = New + 1
      /\ frames' = Append(frames, f)
  BY DEF WhileTrue, Emit, Stmt, bs, bs2, f
<1>8. Waits(f) = {New} /\ Tested(f) = {}
  BY <1>6 DEF Waits, Tested
<1>9. Current'
  BY <1>4, <1>7 DEF Current
<1>10. \A b \in 1 .. Len(blocks') :
         b = cur \/ b > Len(blocks) => b \in {New, New + 1} \/ Closed(blocks', b)
  <2>1. \A b \in 1 .. Len(blocks') : b > Len(blocks) => b \in {New, New + 1}
    BY <1>4, <1>7, Basics
  <2>2. QED
    BY <1>5, <1>7, <2>1
<1>11. {New} \subseteq 1 .. Len(blocks')
  BY <1>4, <1>7, Basics
<1>12. QED
  BY <1>5, <1>6, <1>7, <1>8, <1>9, <1>10, <1>11, Basics, CallTerminated

(* A condition was translated: the value it left, if any, is converted in  *)
(* the block that was asked about, and the next block is added.            *)
LEMMA NextBlockEffect ==
  ASSUME TInv, pc = "exprret", NEW n \in Nat, NEW p \in Parts
  PROVE  LET bs == AddBlock(AddInsts(blocks, Asked(Top), IcmpInsts(val)),
                            AfterIcmp(val), Role(n, p))
         IN /\ Extends(blocks, bs, {cur}) /\ Len(bs) = New
            /\ Asked(Top) \in 1 .. Len(blocks)
            /\ val = "none" => Closed(bs, Asked(Top)) /\ Closed(bs, cur)
            /\ val # "none" => cur = Asked(Top)
<1> DEFINE x   == Asked(Top)
           bs1 == AddInsts(blocks, x, IcmpInsts(val))
           bs2 == AddBlock(bs1, AfterIcmp(val), Role(n, p))
<1>1. /\ IcmpInsts(val) \in Seq(InstSet) /\ AfterIcmp(val) \in LabelSet
      /\ Role(n, p) \in RoleSet
  BY Basics, ToBoolType, RoleType DEF LabelSet
<1>2. /\ val = "none" => Closed(blocks, x) /\ Closed(blocks, cur)
      /\ val # "none" => cur = x
  BY DEF TInv, Terminated, Current
<1>3. x \in 1 .. Len(blocks)
  <2>1. frames # <<>> /\ Awaits(Top) /\ FrameOK(Top, blocks) /\ Top \in FrameSet
    BY TopType DEF TInv, IInv, ExprCalls
  <2>2. CASE Top.kind = "if"
    BY <2>1, <2>2 DEF Asked, FrameOK
  <2>3. CASE Top.kind = "while"
    BY <2>1, <2>3 DEF Asked, FrameOK
  <2>4. CASE Top.kind = "cond"
    BY <2>1, <2>4, FrameFields DEF Asked, FrameOK
  <2>5. QED
    BY <2>1, <2>2, <2>3, <2>4 DEF Awaits
<1> HIDE DEF x
<1>4. bs1 \in Seq(BlockSet) /\ Len(bs1) = Len(blocks)
  BY <1>1, <1>3, Basics, AddInstsEffect
<1>5. CASE val = "none"
  <2>1. IcmpInsts(val) = <<>>
    BY <1>5 DEF IcmpInsts
  <2>2. Extends(blocks, bs1, {})
    BY <1>1, <1>3, <2>1, Basics, AddInstsExtends
  <2> HIDE DEF bs1
  <2>3. Extends(bs1, bs2, {}) /\ Len(bs2) = New
    BY <1>1, <1>4, Basics, AddBlockExtends, AddBlockEffect
  <2> HIDE DEF bs2
  <2>4. Extends(blocks, bs2, {})
    BY <2>2, <2>3, Basics, ExtendsAgain
  <2>5. Extends(blocks, bs2, {cur}) /\ Closed(bs2, x) /\ Closed(bs2, cur)
    BY <1>2, <1>3, <1>5, <2>4, Basics DEF Extends, Grows
  <2>6. QED
    BY <1>3, <1>5, <2>3, <2>5 DEF x, bs1, bs2
<1>6. CASE val # "none"
  <2>1. Extends(blocks, bs1, {cur})
    BY <1>1, <1>2, <1>3, <1>6, Basics, AddInstsExtends
  <2> HIDE DEF bs1
  <2>2. Extends(bs1, bs2, {}) /\ Len(bs2) = New
    BY <1>1, <1>4, Basics, AddBlockExtends, AddBlockEffect
  <2> HIDE DEF bs2
  <2>3. Extends(blocks, bs2, {cur})
    BY <2>1, <2>2, Basics, ExtendsAgain
  <2>4. QED
    BY <1>2, <1>3, <1>6, <2>2, <2>3 DEF x, bs1, bs2
<1>7. QED
  BY <1>5, <1>6

(* ... and the frame moves on.                                             *)
LEMMA ValueTerminated ==
  ASSUME TInv, pc = "exprret", frames # <<>>, NEW n \in Nat, NEW p \in Parts,
         blocks' = AddBlock(AddInsts(blocks, Asked(Top), IcmpInsts(val)),
                            AfterIcmp(val), Role(n, p)),
         NEW f \in FrameSet, frames' = SetTop(f), f.kind = Top.kind,
         cur' = New, pc' \in {"stmt", "expr"}, pc' = "expr" => Asked(f) = New,
         Waits(Top) \subseteq Waits(f), Asked(Top) \in Waits(f),
         Waits(f) \subseteq Waits(Top) \cup {New},
         Tested(f) \subseteq (IF val = "none" THEN {Asked(Top)} ELSE {}),
         f.kind = "cond" => f.bb = Top.bb,
         f.kind = "while" => f.check = Top.check
  PROVE  Terminated'
<1>1. /\ Extends(blocks, blocks', {cur}) /\ Len(blocks') = New
      /\ Asked(Top) \in 1 .. Len(blocks)
      /\ val = "none" => Closed(blocks', Asked(Top)) /\ Closed(blocks', cur)
      /\ val # "none" => cur = Asked(Top)
  BY NextBlockEffect
<1>2. Last(frames') = f
  <2>1. Front(frames) \in Seq(FrameSet)
    BY Basics, FrontIsSeq
  <2>2. QED
    BY <2>1 DEF Last, SetTop
<1>3. Current'
  BY <1>1, <1>2 DEF Current, Top
<1>4. \A b \in Tested(f) : b \in 1 .. Len(blocks') - 1 /\ Closed(blocks', b)
  BY <1>1, Basics
<1>5. Waits(f) \subseteq 1 .. Len(blocks')
  <2>1. Waits(Top) \subseteq 1 .. Len(blocks)
    BY Basics, PlacedTop DEF Top
  <2>2. QED
    BY <1>1, <2>1, Basics
<1>6. \A b \in 1 .. Len(blocks') :
        b = cur \/ b > Len(blocks) =>
          b \in Waits(f) \cup {cur'} \/ Closed(blocks', b)
  <2>1. cur \in Waits(f) \/ Closed(blocks', cur)
    BY <1>1
  <2>2. \A b \in 1 .. Len(blocks') : b > Len(blocks) => b = cur'
    BY <1>1, Basics
  <2>3. QED
    BY <2>1, <2>2
<1>7. QED
  BY <1>1, <1>3, <1>4, <1>5, <1>6, PhaseTerminated

LEMMA IfThenTerminated ==
  ASSUME TInv, IfThen
  PROVE  Terminated'
<1> DEFINE f == IfFrame("then", Top.node, Top.bb, Top.hasElse, ToBool(val), New, 0, 0)
<1>1. /\ frames # <<>> /\ Top.kind = "if" /\ Top.phase = "cond" /\ pc = "exprret"
      /\ frames' = SetTop(f) /\ cur' = New /\ pc' = "stmt"
      /\ blocks' = AddBlock(AddInsts(blocks, Top.bb, IcmpInsts(val)),
                            AfterIcmp(val), Role(Top.node, "then"))
  BY DEF IfThen, At
<1>2. /\ Top \in FrameSet /\ Top.node \in Nat /\ Top.bb \in Nat /\ Top.hasElse \in BOOLEAN
  BY <1>1, TopType, FrameFields DEF TInv
<1>3. ToBool(val) \in CondVals /\ (ToBool(val) = "none" <=> val = "none")
  BY Basics, ToBoolType DEF ToBool
<1>4. f \in FrameSet /\ f.kind = "if" /\ f.phase = "then" /\ f.bb = Top.bb /\ f.cond = ToBool(val)
  <2>1. New \in Nat
    BY Basics
  <2>2. f \in FrameSet
    BY <1>2, <1>3, <2>1, FrameType
  <2>3. QED
    BY <2>2 DEF IfFrame
<1> HIDE DEF f
<1>5. Asked(Top) = Top.bb /\ Waits(Top) = {Top.bb} /\ Waits(f) = {Top.bb}
  BY <1>1, <1>4 DEF Asked, Waits
<1>6. Tested(f) \subseteq (IF val = "none" THEN {Top.bb} ELSE {})
  BY <1>3, <1>4 DEF Tested
<1>7. "then" \in Parts
  BY DEF Parts
<1>8. QED
  BY <1>1, <1>2, <1>4, <1>5, <1>6, <1>7, ValueTerminated

LEMMA WhileBodyTerminated ==
  ASSUME TInv, WhileBody
  PROVE  Terminated'
<1> DEFINE f == WhileFrame("body", Top.node, Top.check, Top.const, ToBool(val), New)
<1>1. /\ frames # <<>> /\ Top.kind = "while" /\ Top.phase = "cond" /\ pc = "exprret"
      /\ frames' = SetTop(f) /\ cur' = New /\ pc' = "stmt"
      /\ blocks' = AddBlock(AddInsts(blocks, Top.check, IcmpInsts(val)),
                            AfterIcmp(val), Role(Top.node, "body"))
  BY DEF WhileBody, At
<1>2. /\ Top \in FrameSet /\ Top.node \in Nat /\ Top.check \in Nat /\ Top.const \in BOOLEAN
  BY <1>1, TopType, FrameFields DEF TInv
<1>3. ToBool(val) \in CondVals /\ (ToBool(val) = "none" <=> val = "none")
  BY Basics, ToBoolType DEF ToBool
<1>4. /\ f \in FrameSet /\ f.kind = "while" /\ f.phase = "body" /\ f.check = Top.check
      /\ f.cond = ToBool(val)
  <2>1. New \in Nat
    BY Basics
  <2>2. f \in FrameSet
    BY <1>2, <1>3, <2>1, FrameType
  <2>3. QED
    BY <2>2 DEF WhileFrame
<1> HIDE DEF f
<1>5. Asked(Top) = Top.check /\ Waits(Top) = {Top.check} /\ Waits(f) = {Top.check}
  BY <1>1, <1>4 DEF Asked, Waits
<1>6. Tested(f) \subseteq (IF val = "none" THEN {Top.check} ELSE {})
  BY <1>3, <1>4 DEF Tested
<1>7. "body" \in Parts
  BY DEF Parts
<1>8. QED
  BY <1>1, <1>2, <1>4, <1>5, <1>6, <1>7, ValueTerminated

LEMMA CondRhsTerminated ==
  ASSUME TInv, CondRhs
  PROVE  Terminated'
<1> DEFINE f == CondFrame(Top.op, "rhs", Top.node, Top.bb, Top.lhs, New, ToBool(val),
                          Top.want, Last(true_stack), Last(false_stack))
<1>1. /\ frames # <<>> /\ Top.kind = "cond" /\ Top.phase = "lhs" /\ pc = "exprret"
      /\ frames' = SetTop(f) /\ cur' = New /\ pc' = "expr"
      /\ blocks' = AddBlock(AddInsts(blocks, Top.lhs, IcmpInsts(val)),
                            AfterIcmp(val), Role(Top.node, "rhs"))
  BY DEF CondRhs, At
<1>2. /\ Top \in FrameSet /\ Top.node \in Nat /\ Top.bb \in Nat /\ Top.lhs \in Nat
      /\ Top.op \in {"and", "or"} /\ Top.want \in WantSet
  BY <1>1, TopType, FrameFields DEF TInv
<1>3. ToBool(val) \in CondVals /\ (ToBool(val) = "none" <=> val = "none")
  BY Basics, ToBoolType DEF ToBool
<1>4. /\ f \in FrameSet /\ f.kind = "cond" /\ f.phase = "rhs" /\ f.bb = Top.bb
      /\ f.lhs = Top.lhs /\ f.rhs = New /\ f.cond = ToBool(val)
  <2>1. New \in Nat
    BY Basics
  <2>2. Last(true_stack) \in Seq(Nat) /\ Last(false_stack) \in Seq(Nat)
    <3>1. true_stack # <<>> /\ false_stack # <<>>
      BY <1>1, MirrorsReturn DEF TInv, IInv, Top, ListKinds
    <3>2. QED
      BY <3>1, LastIsElement DEF TInv, IInv, TypeOK
  <2>3. f \in FrameSet
    BY <1>2, <1>3, <2>1, <2>2, FrameType
  <2>4. QED
    BY <2>3 DEF CondFrame
<1> HIDE DEF f
<1>5. /\ Asked(Top) = Top.lhs /\ Waits(Top) = {Top.bb, Top.lhs}
      /\ Waits(f) = {Top.bb, Top.lhs, New} /\ Asked(f) = New
  BY <1>1, <1>4 DEF Asked, Waits
<1>6. Tested(f) \subseteq (IF val = "none" THEN {Top.lhs} ELSE {})
  BY <1>3, <1>4 DEF Tested
<1>7. "rhs" \in Parts
  BY DEF Parts
<1>8. QED
  BY <1>1, <1>2, <1>4, <1>5, <1>6, <1>7, ValueTerminated

LEMMA IfElseTerminated ==
  ASSUME TInv, IfElse
  PROVE  Terminated'
<1> DEFINE f == IfFrame("else", Top.node, Top.bb, Top.hasElse, Top.cond,
                        Top.then, cur, New)
<1>1. /\ frames # <<>> /\ Top.kind = "if" /\ Top.phase = "then" /\ pc = "stmtret"
      /\ frames' = SetTop(f) /\ cur' = New /\ pc' = "stmt"
      /\ blocks' = AddBlock(blocks, tmp_id, Role(Top.node, "else")) /\ Top.hasElse
  BY DEF IfElse, At
<1>2. /\ Top \in FrameSet /\ Top.node \in Nat /\ Top.bb \in Nat /\ Top.hasElse \in BOOLEAN
      /\ Top.cond \in CondVals /\ Top.then \in Nat
  BY <1>1, TopType, FrameFields DEF TInv
<1>3. /\ f \in FrameSet /\ f.kind = "if" /\ f.phase = "else" /\ f.bb = Top.bb
      /\ f.cond = Top.cond /\ f.thenEnd = cur /\ f.hasElse
  <2>1. New \in Nat /\ cur \in Nat
    BY Basics
  <2>2. f \in FrameSet
    <3>1. IfFrame("else", Top.node, Top.bb, Top.hasElse, Top.cond, Top.then, cur, New)
            \in FrameSet
      BY <1>2, <2>1, FrameType
    <3>2. QED
      BY <3>1
  <2>3. QED
    BY <1>1, <2>2 DEF IfFrame
<1> HIDE DEF f
<1>4. /\ Waits(Top) = {Top.bb} /\ Waits(f) = {Top.bb, cur} /\ Tested(f) = Tested(Top)
  BY <1>1, <1>3 DEF Waits, Tested
<1>5. Extends(blocks, blocks', {}) /\ Len(blocks') = New
  <2>1. tmp_id \in LabelSet /\ Role(Top.node, "else") \in RoleSet
    BY <1>2, Basics, RoleType DEF LabelSet, Parts
  <2>2. QED
    BY <1>1, <2>1, Basics, AddBlockExtends, AddBlockEffect
<1>6. Extends(blocks, blocks', {cur})
  BY <1>5 DEF Extends, Grows
<1>7. \A b \in Tested(f) : b \in 1 .. Len(blocks') - 1 /\ Closed(blocks', b)
  <2>1. Tested(Top) \subseteq TestedAny(frames)
    BY <1>1, Basics, UnionsTop DEF Top
  <2>2. QED
    BY <1>4, <1>6, <2>1, TestedStay
<1>8. Current'
  BY <1>1, <1>5 DEF Current
<1>9. Waits(f) \subseteq 1 .. Len(blocks')
  <2>1. Waits(Top) \subseteq 1 .. Len(blocks)
    BY <1>1, Basics, PlacedTop DEF Top
  <2>2. QED
    BY <1>4, <1>5, <2>1, Basics
<1>10. \A b \in 1 .. Len(blocks') : b = cur \/ b > Len(blocks) => b \in Waits(f) \cup {cur'}
  BY <1>1, <1>4, <1>5, Basics
<1>11. QED
  BY <1>1, <1>3, <1>4, <1>6, <1>7, <1>8, <1>9, <1>10, PhaseTerminated

LEMMA FunctionEndTerminated ==
  ASSUME TInv, FunctionEnd
  PROVE  Terminated'
<1>1. /\ pc = "stmtret" /\ pc' = "done" /\ frames = <<>> /\ frames' = frames /\ cur' = cur
      /\ blocks' = IF Closed(blocks, cur) THEN blocks
                   ELSE AddInsts(blocks, cur, <<RetInst>>)
  BY DEF FunctionEnd
<1>2. Extends(blocks, blocks', {}) /\ Len(blocks') = Len(blocks) /\ Closed(blocks', cur)
  <2>1. CASE Closed(blocks, cur)
    BY <1>1, <2>1, Basics, ExtendsReflexive
  <2>2. CASE ~Closed(blocks, cur)
    <3>1. <<RetInst>> \in Seq(InstSet) /\ Ends(<<RetInst>>)
      BY InstType DEF Ends, Last, IsTerminateInst, RetInst, Inst
    <3>2. QED
      BY <1>1, <2>2, <3>1, Basics, AddInstsExtends, AddInstsEffect
  <2>3. QED
    BY <2>1, <2>2
<1>3. AllClosed(blocks', WaitsAny(frames))
  BY <1>1, <1>2, Basics, ClosedAfter
<1>4. Current'
  BY <1>1, <1>2, Basics DEF Current
<1>5. QED
  BY <1>1, <1>2, <1>3, <1>4, Basics, ClosedAfter DEF Terminated, WaitsAny, TestedAny, Placed

LEMMA JumpUnlessRetExtends ==
  ASSUME NEW bs \in Seq(BlockSet), NEW b \in 1 .. Len(bs), NEW l \in LabelSet,
         NEW r, To(r) \in WantSet
  PROVE  /\ Extends(bs, JumpUnlessRet(bs, b, l, r), {})
         /\ Len(JumpUnlessRet(bs, b, l, r)) = Len(bs)
         /\ Closed(JumpUnlessRet(bs, b, l, r), b)
<1>1. <<BrInst(l, To(r))>> \in Seq(InstSet) /\ Ends(<<BrInst(l, To(r))>>)
  BY InstType DEF Ends, Last, IsTerminateInst, BrInst, Inst
<1>2. CASE EndsInRet(bs, b)
  <2>1. JumpUnlessRet(bs, b, l, r) = bs
    BY <1>2 DEF JumpUnlessRet
  <2>2. Closed(bs, b)
    BY <1>2 DEF EndsInRet, Closed, IsTerminateInst
  <2>3. QED
    BY <2>1, <2>2, ExtendsReflexive
<1>3. CASE ~EndsInRet(bs, b)
  BY <1>1, <1>3, AddInstsExtends, AddInstsEffect DEF JumpUnlessRet
<1>4. QED
  BY <1>2, <1>3

(* One more piece of a chain: the blocks closed so far stay closed.        *)
ClosedIn(bs, T) == T \subseteq 1 .. Len(bs) /\ \A b \in T : Closed(bs, b)

LEMMA ChainExtends ==
  ASSUME NEW b1 \in Seq(BlockSet), NEW b2, NEW b3, NEW S, NEW T,
         Extends(b1, b2, S), Extends(b2, b3, {}), ClosedIn(b2, T)
  PROVE  Extends(b1, b3, S) /\ b3 \in Seq(BlockSet) /\ ClosedIn(b3, T)
<1>1. Extends(b1, b3, S)
  BY ExtendsAgain
<1>2. /\ b3 \in Seq(BlockSet) /\ Len(b2) \in Nat /\ Len(b3) \in Nat
      /\ Len(b2) <= Len(b3)
  BY DEF Extends, Grows
<1>3. ClosedIn(b3, T)
  BY <1>2 DEF Extends, ClosedIn
<1>4. QED
  BY <1>1, <1>2, <1>3

LEMMA IfEndTerminated ==
  ASSUME TInv, IfEnd
  PROVE  Terminated'
<1> DEFINE f       == Top
           end     == Role(f.node, "end")
           thenEnd == IF f.hasElse THEN f.thenEnd ELSE cur
           onTrue  == blocks[f.then].label
           onFalse == IF f.hasElse THEN blocks[f.else].label ELSE tmp_id
           added   == AddBlock(blocks, tmp_id, end)
           joined  == JumpUnlessRet(added, thenEnd, tmp_id, end)
           joined2 == IF f.hasElse THEN JumpUnlessRet(joined, cur, tmp_id, end)
                                   ELSE joined
           tested  == IF f.cond = "none" THEN joined2
                      ELSE AddInsts(joined2, f.bb, <<CondBr(onTrue, onFalse, Want)>>)
           true    == SetTrue(tested, Last(true_stack), onTrue)
           patched == SetFalse(true, Last(false_stack), onFalse)
<1>1. /\ frames # <<>> /\ f.kind = "if" /\ pc = "stmtret" /\ pc' = "stmtret"
      /\ f.phase = "else" \/ (f.phase = "then" /\ ~f.hasElse)
      /\ frames' = Front(frames) /\ cur' = New
  BY DEF IfEnd, At, PopIf
<1>2. /\ f.bb \in 1 .. Len(blocks) /\ f.then \in 1 .. Len(blocks)
      /\ f.phase = "else" => f.thenEnd \in 1 .. Len(blocks) /\ f.else \in 1 .. Len(blocks)
      /\ f.node \in Nat /\ Want \in WantSet /\ f.hasElse \in BOOLEAN
  <2>1. Top \in FrameSet /\ FrameOK(Top, blocks) /\ Want \in WantSet
    BY <1>1, TopType DEF TInv
  <2>2. QED
    BY <1>1, <2>1, FrameFields DEF FrameOK
<1>3. f.hasElse => f.phase = "else"
  BY <1>1
<1>4. /\ end \in RoleSet /\ To(end) \in WantSet
      /\ onTrue \in LabelSet /\ onFalse \in LabelSet /\ tmp_id \in LabelSet
  <2>1. end \in RoleSet /\ To(end) \in WantSet
    BY <1>2, RoleType DEF Parts
  <2>2. tmp_id \in LabelSet /\ onTrue \in LabelSet
    BY <1>2, Basics, BlockType DEF LabelSet
  <2>3. onFalse \in LabelSet
    BY <1>2, <1>3, <2>2, Basics, BlockType
  <2>4. QED
    BY <2>1, <2>2, <2>3
<1>5. thenEnd \in 1 .. Len(blocks) /\ cur \in 1 .. Len(blocks)
  BY <1>2, <1>3, Basics
<1>6. thenEnd = IF f.hasElse THEN f.thenEnd ELSE cur
  OBVIOUS
<1> HIDE DEF end, thenEnd, onTrue, onFalse
<1>7. Extends(blocks, added, {}) /\ Len(added) = New /\ added \in Seq(BlockSet)
  BY <1>4, Basics, AddBlockExtends, AddBlockEffect
<1>8. 1 .. Len(blocks) \subseteq 1 .. New
  BY Basics
<1> HIDE DEF added
<1>9. /\ Extends(blocks, joined, {}) /\ Len(joined) = New /\ joined \in Seq(BlockSet)
      /\ ClosedIn(joined, {thenEnd})
  <2>1. /\ Extends(added, joined, {}) /\ Len(joined) = New /\ Closed(joined, thenEnd)
    BY <1>4, <1>5, <1>7, <1>8, JumpUnlessRetExtends
  <2> HIDE DEF joined
  <2>2. Extends(blocks, joined, {}) /\ joined \in Seq(BlockSet)
    <3>1. Extends(blocks, joined, {})
      BY <1>7, <2>1, Basics, ExtendsAgain
    <3>2. QED
      BY <3>1 DEF Extends, Grows
  <2>3. QED
    BY <1>5, <1>8, <2>1, <2>2 DEF ClosedIn
<1> HIDE DEF joined
<1>10. /\ Extends(blocks, joined2, {}) /\ Len(joined2) = New /\ joined2 \in Seq(BlockSet)
       /\ ClosedIn(joined2, {thenEnd, cur})
  <2>1. CASE f.hasElse
    <3>1. /\ Extends(joined, joined2, {}) /\ Len(joined2) = New /\ Closed(joined2, cur)
      BY <1>4, <1>5, <1>8, <1>9, <2>1, JumpUnlessRetExtends
    <3>2. /\ Extends(blocks, joined2, {}) /\ joined2 \in Seq(BlockSet)
          /\ ClosedIn(joined2, {thenEnd})
      BY <1>9, <3>1, Basics, ChainExtends
    <3>3. QED
      BY <1>5, <1>8, <3>1, <3>2 DEF ClosedIn
  <2>2. CASE ~f.hasElse
    BY <1>6, <1>9, <2>2 DEF ClosedIn
  <2>3. QED
    BY <1>2, <2>1, <2>2
<1> HIDE DEF joined2
<1>11. /\ Extends(blocks, tested, {}) /\ Len(tested) = New /\ tested \in Seq(BlockSet)
       /\ ClosedIn(tested, {thenEnd, cur, f.bb})
  <2>1. CASE f.cond = "none"
    <3>1. f.bb \in TestedAny(frames)
      BY <1>1, <2>1, Basics, UnionsTop DEF Tested, Top
    <3>2. Closed(blocks, f.bb)
      BY <3>1 DEF TInv, Terminated
    <3>3. tested = joined2
      BY <2>1
    <3>4. Closed(tested, f.bb)
      BY <1>2, <1>10, <3>2, <3>3 DEF Extends
    <3>5. QED
      BY <1>2, <1>8, <1>10, <3>3, <3>4 DEF ClosedIn
  <2>2. CASE f.cond # "none"
    <3>1. <<CondBr(onTrue, onFalse, Want)>> \in Seq(InstSet)
          /\ Ends(<<CondBr(onTrue, onFalse, Want)>>)
      BY <1>2, <1>4, InstType DEF Ends, Last, IsTerminateInst, CondBr, Inst
    <3>2. tested = AddInsts(joined2, f.bb, <<CondBr(onTrue, onFalse, Want)>>)
      BY <2>2
    <3>3. f.bb \in 1 .. Len(joined2)
      BY <1>2, <1>8, <1>10
    <3>4. /\ Extends(joined2, tested, {}) /\ Len(tested) = New /\ Closed(tested, f.bb)
      BY ZenonT(30), <1>10, <3>1, <3>2, <3>3, AddInstsExtends, AddInstsEffect
    <3>5. /\ Extends(blocks, tested, {}) /\ tested \in Seq(BlockSet)
          /\ ClosedIn(tested, {thenEnd, cur})
      BY <1>10, <3>4, Basics, ChainExtends
    <3>6. QED
      BY <1>2, <1>8, <3>4, <3>5 DEF ClosedIn
  <2>3. QED
    BY <2>1, <2>2
<1> HIDE DEF tested
<1>12. /\ ListOK(tested, Last(true_stack)) /\ ListOK(tested, Last(false_stack))
  <2>1. ListOK(blocks, Last(true_stack)) /\ ListOK(blocks, Last(false_stack))
    BY <1>1, MirrorsReturn DEF TInv, IInv, ListKinds, Top
  <2>2. QED
    BY <1>11, <2>1, Basics, ListOKGrows DEF Extends
<1>13. /\ Extends(tested, true, {}) /\ Len(true) = New /\ true \in Seq(BlockSet)
       /\ ListOK(true, Last(false_stack))
  <2>1. Extends(tested, true, {}) /\ Len(true) = New
    BY <1>4, <1>11, <1>12, PatchExtends
  <2>2. QED
    BY <1>11, <1>12, <2>1, ListOKGrows DEF Extends, Grows
<1> HIDE DEF true
<1>14. Extends(true, patched, {}) /\ Len(patched) = New
  BY <1>4, <1>13, PatchExtends
<1> HIDE DEF patched
<1>15. /\ Extends(blocks, patched, {})
       /\ ClosedIn(patched, {thenEnd, cur, f.bb})
  <2>1. /\ Extends(blocks, true, {})
        /\ ClosedIn(true, {thenEnd, cur, f.bb})
    BY <1>11, <1>13, Basics, ChainExtends
  <2>2. QED
    BY <1>14, <2>1, Basics, ChainExtends
<1>16. blocks' = IF f.hasElse /\ f.cond # "none" THEN tested ELSE patched
  BY DEF IfEnd, patched, true, tested, joined2, joined, added, onTrue, onFalse, thenEnd, end
<1>17. /\ Extends(blocks, blocks', {}) /\ Len(blocks') = New
       /\ \A b \in {thenEnd, cur, f.bb} : Closed(blocks', b)
  BY <1>11, <1>14, <1>15, <1>16 DEF ClosedIn
<1>18. Waits(f) \subseteq {f.bb, thenEnd}
  BY <1>1, <1>6 DEF Waits
<1>19. \A b \in 1 .. Len(blocks') :
         b = cur \/ b > Len(blocks) \/ b \in Waits(f) => b = cur' \/ Closed(blocks', b)
  <2>1. \A b \in 1 .. Len(blocks') : b > Len(blocks) => b = cur'
    BY <1>1, <1>17, Basics
  <2>2. QED
    BY <1>17, <1>18, <2>1
<1>20. Current'
  BY <1>1, <1>17 DEF Current
<1>21. Extends(blocks, blocks', {cur})
  BY <1>17 DEF Extends
<1> HIDE DEF f
<1>22. QED
  BY <1>1, <1>19, <1>20, <1>21, ReturnTerminated DEF f

(* The end of a loop, up to its test: the back edge, the end block, and    *)
(* the test.                                                               *)
CheckLabel == blocks[Top.check].label
BodyLabel  == blocks[Top.body].label
Looped     == JumpUnlessRet(blocks, cur, CheckLabel, Role(Top.node, "check"))
WithEnd    == AddBlock(Looped, tmp_id, Role(Top.node, "end"))
Retested   ==
  CASE Top.const ->
         AddInsts(WithEnd, Top.check, <<BrInst(BodyLabel, To(Role(Top.node, "body")))>>)
    [] ~Top.const /\ Top.cond # "none" ->
         AddInsts(WithEnd, Top.check, <<CondBr(BodyLabel, tmp_id, Want)>>)
    [] OTHER -> WithEnd
Broken    == CloseJumps(Retested, Last(break_stack), tmp_id)
Continued == CloseJumps(Broken, Last(continue_stack), CheckLabel)

LEMMA LoopEndTypes ==
  ASSUME TInv, WhileEnd
  PROVE  /\ frames # <<>> /\ Top.kind = "while" /\ Top.phase = "body"
         /\ pc = "stmtret" /\ pc' = "stmtret" /\ frames' = Front(frames) /\ cur' = New
         /\ cur \in 1 .. Len(blocks)
         /\ Top.check \in 1 .. Len(blocks) /\ Top.body \in 1 .. Len(blocks)
         /\ Top.node \in Nat /\ Want \in WantSet /\ Top.const \in BOOLEAN
         /\ \A p \in {"check", "body", "end"} :
              Role(Top.node, p) \in RoleSet /\ To(Role(Top.node, p)) \in WantSet
         /\ CheckLabel \in LabelSet /\ BodyLabel \in LabelSet /\ tmp_id \in LabelSet
         /\ blocks' = SetFalse(SetTrue(Continued, Last(true_stack), BodyLabel),
                               Last(false_stack), tmp_id)
         /\ ListOK(blocks, Last(true_stack)) /\ ListOK(blocks, Last(false_stack))
         /\ ListOK(blocks, Last(break_stack)) /\ ListOK(blocks, Last(continue_stack))
<1> DEFINE f == Top
<1>1. /\ frames # <<>> /\ f.kind = "while" /\ f.phase = "body" /\ pc = "stmtret"
      /\ pc' = "stmtret" /\ frames' = Front(frames) /\ cur' = New
      /\ cur \in 1 .. Len(blocks)
  BY Basics, Zenon DEF WhileEnd, At
<1>2. /\ f.check \in 1 .. Len(blocks) /\ f.body \in 1 .. Len(blocks)
      /\ f.node \in Nat /\ Want \in WantSet /\ f.const \in BOOLEAN
  <2>1. Top \in FrameSet /\ FrameOK(Top, blocks) /\ Want \in WantSet
    BY <1>1, TopType DEF TInv
  <2>2. QED
    BY <1>1, <2>1, FrameFields DEF FrameOK
<1>3. /\ \A p \in {"check", "body", "end"} :
           Role(f.node, p) \in RoleSet /\ To(Role(f.node, p)) \in WantSet
      /\ CheckLabel \in LabelSet /\ BodyLabel \in LabelSet /\ tmp_id \in LabelSet
  <2>1. {"check", "body", "end"} \subseteq Parts
    BY DEF Parts
  <2>2. \A p \in {"check", "body", "end"} :
           Role(f.node, p) \in RoleSet /\ To(Role(f.node, p)) \in WantSet
    BY <1>2, <2>1, RoleType
  <2>3. tmp_id \in LabelSet /\ CheckLabel \in LabelSet /\ BodyLabel \in LabelSet
    BY <1>2, Basics, BlockType DEF LabelSet, CheckLabel, BodyLabel
  <2>4. QED
    BY <2>2, <2>3
<1>4. blocks' = SetFalse(SetTrue(Continued, Last(true_stack), BodyLabel),
                         Last(false_stack), tmp_id)
  BY Zenon DEF WhileEnd, Continued, Broken, Retested, WithEnd, Looped, CheckLabel, BodyLabel
<1>5. /\ ListOK(blocks, Last(true_stack)) /\ ListOK(blocks, Last(false_stack))
      /\ ListOK(blocks, Last(break_stack)) /\ ListOK(blocks, Last(continue_stack))
  BY <1>1, MirrorsReturn DEF TInv, IInv, ListKinds, Top
<1>6. QED
  BY <1>1, <1>2, <1>3, <1>4, <1>5

LEMMA LoopEndBlocks ==
  ASSUME TInv, WhileEnd
  PROVE  /\ Extends(blocks, Retested, {}) /\ Len(Retested) = New
         /\ Retested \in Seq(BlockSet) /\ ClosedIn(Retested, {cur, Top.check})
<1> DEFINE f == Top
<1>1. /\ frames # <<>> /\ f.kind = "while" /\ f.phase = "body"
      /\ cur \in 1 .. Len(blocks)
  BY LoopEndTypes
<1>2. /\ f.check \in 1 .. Len(blocks) /\ f.body \in 1 .. Len(blocks)
      /\ f.node \in Nat /\ Want \in WantSet /\ f.const \in BOOLEAN
  BY LoopEndTypes
<1>3. /\ \A p \in {"check", "body", "end"} :
           Role(f.node, p) \in RoleSet /\ To(Role(f.node, p)) \in WantSet
      /\ CheckLabel \in LabelSet /\ BodyLabel \in LabelSet /\ tmp_id \in LabelSet
  BY LoopEndTypes
<1>4. /\ Extends(blocks, Looped, {}) /\ Len(Looped) = Len(blocks)
      /\ Looped \in Seq(BlockSet) /\ ClosedIn(Looped, {cur})
  <2>1. /\ Extends(blocks, Looped, {}) /\ Len(Looped) = Len(blocks)
        /\ Closed(Looped, cur)
    BY <1>1, <1>3, Basics, JumpUnlessRetExtends DEF Looped
  <2>2. QED
    BY <1>1, <2>1 DEF ClosedIn, Extends, Grows
<1>5. 1 .. Len(blocks) \subseteq 1 .. New /\ New = Len(blocks) + 1
  BY Basics
<1>6. /\ Extends(blocks, WithEnd, {}) /\ Len(WithEnd) = New /\ WithEnd \in Seq(BlockSet)
      /\ ClosedIn(WithEnd, {cur})
  <2>1. Extends(Looped, WithEnd, {}) /\ Len(WithEnd) = New
    BY <1>3, <1>4, <1>5, AddBlockExtends, AddBlockEffect DEF WithEnd
  <2>2. QED
    BY <1>4, <2>1, Basics, ChainExtends
<1>7. /\ Extends(blocks, Retested, {}) /\ Len(Retested) = New /\ Retested \in Seq(BlockSet)
      /\ ClosedIn(Retested, {cur, f.check})
  <2> DEFINE always == AddInsts(WithEnd, f.check, <<BrInst(BodyLabel, To(Role(f.node, "body")))>>)
             test   == AddInsts(WithEnd, f.check, <<CondBr(BodyLabel, tmp_id, Want)>>)
  <2>1. f.check \in 1 .. Len(WithEnd)
    BY <1>1, <1>2, <1>5, <1>6
  <2>2. /\ <<BrInst(BodyLabel, To(Role(f.node, "body")))>> \in Seq(InstSet)
        /\ <<CondBr(BodyLabel, tmp_id, Want)>> \in Seq(InstSet)
    BY <1>2, <1>3, InstType
  <2>3. /\ Ends(<<BrInst(BodyLabel, To(Role(f.node, "body")))>>)
        /\ Ends(<<CondBr(BodyLabel, tmp_id, Want)>>)
    BY DEF Ends, Last, IsTerminateInst, BrInst, CondBr, Inst
  <2>4. /\ Extends(WithEnd, always, {}) /\ Len(always) = New /\ Closed(always, f.check)
        /\ Extends(WithEnd, test, {}) /\ Len(test) = New /\ Closed(test, f.check)
    BY <1>6, <2>1, <2>2, <2>3, AddInstsExtends, AddInstsEffect
  <2>5. \/ Retested = always
        \/ Retested = test
        \/ Retested = WithEnd /\ ~f.const /\ f.cond = "none"
    BY Zenon DEF Retested
  <2> HIDE DEF always, test
  <2>6. CASE Retested = always \/ Retested = test
    <3>1. Extends(WithEnd, Retested, {}) /\ Len(Retested) = New /\ Closed(Retested, f.check)
      BY <2>4, <2>6
    <3>2. /\ Extends(blocks, Retested, {}) /\ Retested \in Seq(BlockSet)
          /\ ClosedIn(Retested, {cur})
      BY <1>6, <3>1, Basics, ChainExtends
    <3>3. QED
      BY <1>6, <2>1, <3>1, <3>2 DEF ClosedIn
  <2>7. CASE Retested = WithEnd /\ ~f.const /\ f.cond = "none"
    <3>1. f.check \in TestedAny(frames)
      BY <1>1, <2>7, Basics, UnionsTop DEF Tested, Top
    <3>2. Closed(blocks, f.check)
      BY <3>1 DEF TInv, Terminated
    <3>3. Closed(WithEnd, f.check)
      BY <1>2, <1>6, <3>2 DEF Extends
    <3>4. QED
      BY <1>6, <2>1, <2>7, <3>3 DEF ClosedIn
  <2>8. QED
    BY <2>5, <2>6, <2>7
<1>8. QED
  BY <1>7

LEMMA WhileEndTerminated ==
  ASSUME TInv, WhileEnd
  PROVE  Terminated'
<1> DEFINE f     == Top
           true  == SetTrue(Continued, Last(true_stack), BodyLabel)
           false == SetFalse(true, Last(false_stack), tmp_id)
<1>1. /\ frames # <<>> /\ f.kind = "while" /\ f.phase = "body"
      /\ pc = "stmtret" /\ pc' = "stmtret" /\ frames' = Front(frames) /\ cur' = New
      /\ cur \in 1 .. Len(blocks)
  BY LoopEndTypes
<1>2. CheckLabel \in LabelSet /\ BodyLabel \in LabelSet /\ tmp_id \in LabelSet
  BY LoopEndTypes
<1>3. 1 .. Len(blocks) \subseteq 1 .. New /\ New = Len(blocks) + 1
  BY Basics
<1>4. /\ Extends(blocks, Retested, {}) /\ Len(Retested) = New /\ Retested \in Seq(BlockSet)
      /\ ClosedIn(Retested, {cur, f.check})
  BY LoopEndBlocks
<1>5. /\ ListOK(Retested, Last(true_stack)) /\ ListOK(Retested, Last(false_stack))
      /\ ListOK(Retested, Last(break_stack)) /\ ListOK(Retested, Last(continue_stack))
  BY <1>4, Basics, LoopEndTypes, ListOKGrows DEF Extends
<1>6. /\ Extends(Retested, Broken, {}) /\ Len(Broken) = New /\ Broken \in Seq(BlockSet)
      /\ ListOK(Broken, Last(continue_stack))
      /\ ListOK(Broken, Last(true_stack)) /\ ListOK(Broken, Last(false_stack))
  <2>1. Extends(Retested, Broken, {}) /\ Len(Broken) = New
    BY <1>2, <1>4, <1>5, PatchExtends DEF Broken
  <2>2. QED
    BY <1>4, <1>5, <2>1, ListOKGrows DEF Extends, Grows
<1>7. /\ Extends(Broken, Continued, {}) /\ Len(Continued) = New
       /\ Continued \in Seq(BlockSet)
       /\ ListOK(Continued, Last(true_stack)) /\ ListOK(Continued, Last(false_stack))
  <2>1. Extends(Broken, Continued, {}) /\ Len(Continued) = New
    BY <1>2, <1>6, PatchExtends DEF Continued
  <2>2. QED
    BY <1>6, <2>1, ListOKGrows DEF Extends, Grows
<1>8. /\ Extends(Continued, true, {}) /\ Len(true) = New /\ true \in Seq(BlockSet)
       /\ ListOK(true, Last(false_stack))
  <2>1. Extends(Continued, true, {}) /\ Len(true) = New
    BY <1>2, <1>7, PatchExtends
  <2>2. QED
    BY <1>7, <2>1, ListOKGrows DEF Extends, Grows
<1> HIDE DEF true
<1>9. Extends(true, false, {}) /\ Len(false) = New
  BY <1>2, <1>8, PatchExtends
<1> HIDE DEF false
<1>10. Extends(Retested, false, {})
  BY <1>4, <1>6, <1>7, <1>8, <1>9, ExtendsAgain
<1>11. /\ Extends(blocks, false, {}) /\ ClosedIn(false, {cur, f.check})
  BY <1>4, <1>10, Basics, ChainExtends
<1>12. blocks' = false
  BY LoopEndTypes DEF false, true
<1>13. Waits(f) = {f.check}
  BY <1>1 DEF Waits
<1>14. \A b \in 1 .. Len(blocks') :
         b = cur \/ b > Len(blocks) \/ b \in Waits(f) => b = cur' \/ Closed(blocks', b)
  <2>1. \A b \in 1 .. Len(blocks') : b > Len(blocks) => b = cur'
    BY <1>1, <1>3, <1>9, <1>12, Basics
  <2>2. QED
    BY <1>11, <1>12, <1>13, <2>1 DEF ClosedIn
<1>15. Current'
  BY <1>1, <1>9, <1>12 DEF Current
<1>16. Extends(blocks, blocks', {cur})
  BY <1>11, <1>12 DEF Extends
<1> HIDE DEF f
<1>17. QED
  BY <1>1, <1>14, <1>15, <1>16, ReturnTerminated DEF f

(* The test of the left operand, or the patch that stands for it.          *)
LEMMA LinkExtends ==
  ASSUME NEW bs \in Seq(BlockSet), NEW f \in FrameSet, f.kind = "cond",
         f.phase = "rhs", FrameOK(f, bs), NEW l \in LabelSet, NEW v,
         f.cond = "none" => Closed(bs, f.lhs), v = "none" => Closed(bs, f.rhs)
  PROVE  LET bs2 == LinkRhs(LinkLhs(bs, f, l), f, v, l)
         IN /\ Extends(bs, bs2, {}) /\ Len(bs2) = Len(bs)
            /\ Closed(bs2, f.lhs) /\ Closed(bs2, f.rhs)
<1> DEFINE bs1  == LinkLhs(bs, f, l)
           bs2  == LinkRhs(bs1, f, v, l)
           is   == <<CondBr(l, l, LhsWant(f))>>
           is2  == <<CondBr(l, l, f.want)>>
           test  == AddInsts(bs, f.lhs, is)
           test2 == AddInsts(bs1, f.rhs, is2)
<1>1. /\ f.lhs \in 1 .. Len(bs) /\ f.rhs \in 1 .. Len(bs)
      /\ ListOK(bs, f.lhs_true) /\ ListOK(bs, f.lhs_false)
      /\ f.want \in WantSet /\ f.node \in Nat
  BY FrameFields DEF FrameOK
<1>2. LhsWant(f) \in WantSet
  <2>1. Role(f.node, "rhs") \in RoleSet
    BY <1>1, RoleType DEF Parts
  <2>2. f.want.t \in RoleSet /\ f.want.f \in RoleSet
    BY <1>1 DEF WantSet
  <2>3. QED
    BY <2>1, <2>2 DEF LhsWant, WantSet
<1>3. /\ is \in Seq(InstSet) /\ is2 \in Seq(InstSet) /\ Ends(is) /\ Ends(is2)
  <2>1. CondBr(l, l, LhsWant(f)) \in InstSet /\ CondBr(l, l, f.want) \in InstSet
    BY <1>1, <1>2, InstType
  <2>2. QED
    BY <2>1 DEF Ends, Last, IsTerminateInst, CondBr, Inst
<1> HIDE DEF is, is2
<1>4. /\ Extends(bs, test, {}) /\ Len(test) = Len(bs) /\ Closed(test, f.lhs)
  BY <1>1, <1>3, AddInstsExtends, AddInstsEffect
<1>5. /\ Extends(bs, SetTrue(bs, f.lhs_true, l), {})
      /\ Len(SetTrue(bs, f.lhs_true, l)) = Len(bs)
      /\ Extends(bs, SetFalse(bs, f.lhs_false, l), {})
      /\ Len(SetFalse(bs, f.lhs_false, l)) = Len(bs)
  BY <1>1, PatchExtends
<1>6. \/ bs1 = test
      \/ f.cond = "none" /\ bs1 = SetTrue(bs, f.lhs_true, l)
      \/ f.cond = "none" /\ bs1 = SetFalse(bs, f.lhs_false, l)
  BY Zenon DEF LinkLhs, is
<1> HIDE DEF bs1, test
<1>7. /\ Extends(bs, bs1, {}) /\ Len(bs1) = Len(bs) /\ bs1 \in Seq(BlockSet)
      /\ ClosedIn(bs1, {f.lhs})
  <2>1. Extends(bs, bs1, {}) /\ Len(bs1) = Len(bs)
    BY <1>4, <1>5, <1>6
  <2>2. Closed(bs1, f.lhs)
    <3>1. CASE bs1 = test
      BY <1>4, <3>1
    <3>2. CASE f.cond = "none"
      BY <1>1, <2>1, <3>2 DEF Extends
    <3>3. QED
      BY <1>6, <3>1, <3>2
  <2>3. QED
    BY <1>1, <2>1, <2>2 DEF Extends, Grows, ClosedIn
<1>8. /\ Extends(bs1, bs2, {}) /\ Len(bs2) = Len(bs) /\ Closed(bs2, f.rhs)
  <2>1. CASE v = "none"
    <3>1. bs2 = bs1
      BY <2>1 DEF LinkRhs
    <3>2. Closed(bs1, f.rhs)
      BY <1>1, <1>7, <2>1 DEF Extends
    <3>3. QED
      BY <1>7, <3>1, <3>2, ExtendsReflexive
  <2>2. CASE v # "none"
    <3>1. bs2 = test2
      BY <2>2 DEF LinkRhs, is2
    <3>2. f.rhs \in 1 .. Len(bs1)
      BY <1>1, <1>7
    <3>3. Extends(bs1, test2, {}) /\ Closed(test2, f.rhs)
      BY <1>3, <1>7, <3>2, AddInstsExtends
    <3>4. Len(test2) = Len(bs)
      BY <1>3, <1>7, <3>2, AddInstsEffect
    <3>5. QED
      BY <3>1, <3>3, <3>4
  <2>3. QED
    BY <2>1, <2>2
<1> HIDE DEF bs2
<1>9. /\ Extends(bs, bs2, {}) /\ ClosedIn(bs2, {f.lhs})
  BY <1>7, <1>8, ChainExtends
<1>10. QED
  BY <1>8, <1>9 DEF bs2, bs1, ClosedIn

LEMMA CondEndTerminated ==
  ASSUME TInv, CondEnd
  PROVE  Terminated'
<1> DEFINE f     == Top
           l     == blocks[f.rhs].label
           icmp  == AddInsts(blocks, f.rhs, IcmpInsts(val))
           is    == <<BrInst(blocks[f.lhs].label, To(Role(f.node, "lhs")))>>
           enter == AddInsts(icmp, f.bb, is)
           linked == LinkRhs(LinkLhs(enter, f, l), f, val, l)
<1>1. /\ frames # <<>> /\ f.kind = "cond" /\ f.phase = "rhs" /\ pc = "exprret"
      /\ pc' = "exprret" /\ frames' = Front(frames) /\ cur' = cur /\ val' = "none"
      /\ cur \in 1 .. Len(blocks)
  BY Basics, Zenon DEF CondEnd, At
<1>2. f \in FrameSet /\ FrameOK(f, blocks)
  BY <1>1, TopType DEF TInv
<1>3. /\ f.rhs \in 1 .. Len(blocks) /\ f.lhs \in 1 .. Len(blocks)
      /\ f.bb \in 1 .. Len(blocks) /\ f.node \in Nat
  BY <1>1, <1>2, FrameFields DEF FrameOK
<1>4. /\ IcmpInsts(val) \in Seq(InstSet)
      /\ l \in LabelSet /\ blocks[f.lhs].label \in LabelSet
  BY <1>1, <1>3, Basics, ToBoolType, BlockType
<1>5. is \in Seq(InstSet) /\ Ends(is)
  <2>1. To(Role(f.node, "lhs")) \in WantSet
    BY <1>3, RoleType DEF Parts
  <2>2. QED
    BY <1>4, <2>1, InstType DEF Ends, Last, IsTerminateInst, BrInst, Inst
<1>6. /\ Asked(f) = f.rhs /\ Waits(f) = {f.bb, f.lhs, f.rhs}
      /\ f.cond = "none" => f.lhs \in Tested(f)
  BY <1>1 DEF Asked, Waits, Tested
<1>7. /\ val = "none" => Closed(blocks, f.rhs) /\ Closed(blocks, cur)
      /\ val # "none" => cur = f.rhs
  BY <1>1, <1>6 DEF TInv, Terminated, Current
<1>8. f.cond = "none" => Closed(blocks, f.lhs) /\ f.lhs # cur
  <2>1. Tested(f) \subseteq TestedAny(frames)
    BY <1>1, Basics, UnionsTop DEF Top
  <2>2. \A b \in TestedAny(frames) : Closed(blocks, b) /\ b \in 1 .. Len(blocks) - 1
    BY DEF TInv, Terminated, Placed
  <2>3. QED
    BY <1>6, <2>1, <2>2, Basics
<1>9. /\ Extends(blocks, icmp, {cur}) /\ Len(icmp) = Len(blocks) /\ icmp \in Seq(BlockSet)
      /\ val = "none" => Closed(icmp, f.rhs) /\ Closed(icmp, cur)
      /\ f.cond = "none" => Closed(icmp, f.lhs)
  <2>1. Len(icmp) = Len(blocks) /\ icmp \in Seq(BlockSet)
    BY <1>3, <1>4, Basics, AddInstsEffect
  <2>2. CASE val = "none"
    <3>1. IcmpInsts(val) = <<>>
      BY <2>2 DEF IcmpInsts
    <3>2. Extends(blocks, icmp, {})
      BY <1>3, <1>4, <3>1, Basics, AddInstsExtends
    <3> HIDE DEF icmp
    <3>3. QED
      BY <1>1, <1>3, <1>7, <1>8, <2>1, <2>2, <3>2 DEF Extends
  <2>3. CASE val # "none"
    <3>1. Extends(blocks, icmp, {cur})
      BY <1>3, <1>4, <1>7, <2>3, Basics, AddInstsExtends
    <3> HIDE DEF icmp
    <3>2. QED
      BY <1>3, <1>8, <2>1, <2>3, <3>1 DEF Extends
  <2>4. QED
    BY <2>2, <2>3
<1> HIDE DEF icmp, is
<1>10. /\ Extends(icmp, enter, {}) /\ Len(enter) = Len(blocks) /\ enter \in Seq(BlockSet)
       /\ Closed(enter, f.bb)
  <2>1. f.bb \in 1 .. Len(icmp)
    BY <1>3, <1>9
  <2>2. /\ Extends(icmp, enter, {}) /\ Closed(enter, f.bb)
    BY <1>5, <1>9, <2>1, AddInstsExtends
  <2>3. QED
    BY <1>5, <1>9, <2>1, <2>2, AddInstsEffect
<1> HIDE DEF enter
<1>11. /\ Extends(blocks, enter, {cur})
       /\ val = "none" => Closed(enter, f.rhs) /\ Closed(enter, cur)
       /\ f.cond = "none" => Closed(enter, f.lhs)
  <2>1. Extends(blocks, enter, {cur})
    BY <1>9, <1>10, Basics, ExtendsAgain
  <2>2. QED
    BY <1>1, <1>3, <1>9, <1>10, <2>1 DEF Extends
<1>12. FrameOK(f, enter)
  BY <1>2, <1>11, Basics, FrameOKGrows DEF Extends
<1> HIDE DEF l
<1>13. /\ Extends(enter, linked, {}) /\ Len(linked) = Len(blocks)
       /\ Closed(linked, f.lhs) /\ Closed(linked, f.rhs)
  BY <1>1, <1>2, <1>4, <1>10, <1>11, <1>12, LinkExtends
<1> HIDE DEF linked
<1>14. /\ Extends(blocks, linked, {cur}) /\ Closed(linked, f.bb)
       /\ val = "none" => Closed(linked, cur)
  <2>1. Extends(blocks, linked, {cur})
    BY <1>11, <1>13, Basics, ExtendsAgain
  <2>2. QED
    BY <1>1, <1>3, <1>10, <1>11, <1>13, <2>1 DEF Extends
<1>15. Closed(linked, cur)
  BY <1>7, <1>13, <1>14
<1>16. blocks' = linked
  BY Zenon DEF CondEnd, linked, enter, icmp, l, f, is
<1>17. \A b \in 1 .. Len(blocks') :
         b = cur \/ b > Len(blocks) \/ b \in Waits(f) => b = cur' \/ Closed(blocks', b)
  <2>1. \A b \in 1 .. Len(blocks') : ~ (b > Len(blocks))
    BY <1>13, <1>16, Basics
  <2>2. QED
    BY <1>6, <1>13, <1>14, <1>15, <1>16, <2>1
<1>18. Current'
  <2>1. Front(frames) # <<>> /\ f.bb = Asked(Last(Front(frames)))
    BY <1>1, Basics, PlacedTop DEF Top
  <2>2. Closed(blocks', Asked(Last(frames'))) /\ Closed(blocks', cur')
    BY <1>1, <1>14, <1>15, <1>16, <2>1
  <2>3. cur' = Len(blocks')
    BY <1>1, <1>13, <1>16, Basics
  <2>4. QED
    BY <1>1, <2>2, <2>3 DEF Current, Top
<1> HIDE DEF f
<1>19. QED
  BY <1>1, <1>14, <1>16, <1>17, <1>18, ReturnTerminated DEF f

-----------------------------------------------------------------------------
(* The invariant.                                                          *)

LEMMA InitTInv == Init => TInv
<1> SUFFICES ASSUME Init PROVE Terminated
  BY InitIInv DEF TInv
<1>1. /\ Len(blocks) = 1 /\ cur = 1 /\ pc = "stmtret"
      /\ Len(frames) = 1 /\ frames[1] = SeqFrame /\ SeqFrame.kind = "seq"
  BY FrameType DEF Init
<1>2. Waits(SeqFrame) = {} /\ Tested(SeqFrame) = {}
  BY <1>1 DEF Waits, Tested
<1>3. WaitsAny(frames) = {} /\ TestedAny(frames) = {}
  BY <1>1, <1>2 DEF WaitsAny, TestedAny
<1>4. Placed(frames, Len(blocks))
  BY <1>1, <1>3 DEF Placed
<1>5. Current
  BY <1>1 DEF Current
<1>6. QED
  BY <1>1, <1>3, <1>4, <1>5 DEF Terminated, AllClosed

LEMMA NextTerminated ==
  ASSUME TInv, Next
  PROVE  Terminated'
<1> USE StmtValsAssumption
<1>1. CASE NullStmt \/ NextStmt \/ (\E absent \in BOOLEAN : IfConst(absent))
           \/ WhileFalse \/ CondDecided \/ CondNeutral
  BY <1>1, SameTerminated
<1>2. CASE \E n \in StmtVals, init \in BOOLEAN : DeclStmt(n, init)
  <2>1. PICK n \in StmtVals, init \in BOOLEAN : DeclStmt(n, init)
    BY <1>2
  <2>2. n + 1 \in Nat
    OBVIOUS
  <2>3. EmitStraight(n + 1, init) \/ EmitStraight(1, init)
    BY <2>1 DEF DeclStmt
  <2>4. QED
    BY <2>2, <2>3, StraightTerminated
<1>3. CASE \E n \in StmtVals : AssignStmt(n)
  BY <1>3, StraightTerminated DEF AssignStmt
<1>4. CASE \E n \in StmtVals, int \in BOOLEAN : CallStmt(n, int)
  <2>1. PICK n \in StmtVals, int \in BOOLEAN : CallStmt(n, int)
    BY <1>4
  <2>2. n \in Nat /\ n + 1 \in Nat /\ (~int) \in BOOLEAN
    OBVIOUS
  <2>3. EmitStraight(n + 1, ~int) \/ EmitStraight(n, ~int)
    BY <2>1 DEF CallStmt
  <2>4. QED
    BY <2>2, <2>3, StraightTerminated
<1>5. CASE \E n \in StmtVals : ReturnStmt(n)
  BY <1>5, ReturnStmtTerminated
<1>6. CASE BreakStmt \/ ContinueStmt
  BY <1>6, JumpTerminated
<1>7. CASE CompoundStmt
  BY <1>7, CompoundTerminated
<1>8. CASE CompoundEnd
  BY <1>8, CompoundEndTerminated
<1>9. CASE \E hasElse \in BOOLEAN : IfStmt(hasElse)
  BY <1>9, IfStmtTerminated
<1>10. CASE IfThen \/ IfElse \/ IfEnd
  BY <1>10, IfThenTerminated, IfElseTerminated, IfEndTerminated
<1>11. CASE WhileTrue \/ WhileStmt
  BY <1>11, WhileTrueTerminated, WhileStmtTerminated
<1>12. CASE WhileBody \/ WhileEnd
  BY <1>12, WhileBodyTerminated, WhileEndTerminated
<1>13. CASE \E type \in {"i1", "i32"} : PlainExpr(type)
  BY <1>13, PlainTerminated
<1>14. CASE \E op \in {"and", "or"} : CondOperator(op)
  BY <1>14, OperatorTerminated
<1>15. CASE CondRhs \/ CondEnd
  BY <1>15, CondRhsTerminated, CondEndTerminated
<1>16. CASE FunctionEnd
  BY <1>16, FunctionEndTerminated
<1>17. CASE Finished
  BY <1>17 DEF Finished, vars, TInv, Terminated, Current, Top
<1>18. QED
  BY <1>1, <1>2, <1>3, <1>4, <1>5, <1>6, <1>7, <1>8, <1>9, <1>10, <1>11, <1>12,
     <1>13, <1>14, <1>15, <1>16, <1>17
  DEF Next

LEMMA NextTInv == TInv /\ [Next]_vars => TInv'
<1>1. ASSUME TInv, UNCHANGED vars PROVE TInv'
  <2>1. Terminated'
    BY <1>1 DEF vars, TInv, Terminated, Current, Top
  <2>2. QED
    BY <1>1, <2>1, NextIInv DEF TInv
<1>2. QED
  BY <1>1, NextTerminated, NextIInv DEF TInv

LEMMA TerminatedInvariance == Spec => []TInv
BY InitTInv, NextTInv, PTL DEF Spec

(* Whatever the program, and whichever of its statements are unreachable,  *)
(* every block of the finished function ends with a terminator: each block *)
(* the translator opens is closed by the statement it belongs to, on every *)
(* way through TranslateIfStmt, TranslateWhileStmt and the two operators.  *)
THEOREM BlocksTerminated == Spec => []EveryBlockTerminated
<1>1. TInv => EveryBlockTerminated
  <2> SUFFICES ASSUME TInv, pc = "done", NEW b \in DOMAIN blocks
               PROVE  Closed(blocks, b)
    BY DEF EveryBlockTerminated
  <2>1. Len(frames) = 0
    BY DEF TInv, Terminated, Current
  <2>2. WaitsAny(frames) = {}
    BY <2>1 DEF WaitsAny
  <2>3. b \in 1 .. Len(blocks)
    BY Basics
  <2>4. QED
    BY <2>2, <2>3 DEF TInv, Terminated, AllClosed
<1>2. QED
  BY TerminatedInvariance, <1>1, PTL

-----------------------------------------------------------------------------
(* The lists of the loops.                                                 *)

(* How many of the first k frames are of the kinds K: where the lists of   *)
(* the k-th frame are in the stacks, when it is itself of one of them.     *)
Level(fr, k, K) == Cardinality({j \in 1 .. k : fr[j].kind \in K})

(* A break or a continue is in a block of the loop it belongs to.          *)
LoopLists(fr, st) ==
  \A k \in 1 .. Len(fr) : fr[k].kind = "while" =>
    \A b \in ToSet(st[Level(fr, k, LoopKinds)]) : fr[k].check <= b

LEMMA LevelType ==
  ASSUME NEW fr \in Seq(FrameSet), NEW K, NEW k \in 1 .. Len(fr)
  PROVE  /\ Level(fr, k, K) \in Nat /\ DepthOf(fr, K) \in Nat
         /\ Level(fr, k, K) <= DepthOf(fr, K)
         /\ fr[k].kind \in K => Level(fr, k, K) > 0
         /\ k < Len(fr) /\ fr[Len(fr)].kind \in K => Level(fr, k, K) < DepthOf(fr, K)
<1> DEFINE A == {j \in 1 .. k : fr[j].kind \in K}
           B == {j \in DOMAIN fr : fr[j].kind \in K}
<1>1. /\ k \in Nat /\ Len(fr) \in Nat /\ DOMAIN fr = 1 .. Len(fr)
      /\ A \subseteq B /\ B \subseteq 1 .. Len(fr)
  OBVIOUS
<1>2. fr[k].kind \in K => k \in A
  OBVIOUS
<1>3. k < Len(fr) /\ fr[Len(fr)].kind \in K => Len(fr) \in B \ A
  BY <1>1
<1>4. Level(fr, k, K) = Cardinality(A) /\ DepthOf(fr, K) = Cardinality(B)
  BY DEF Level, DepthOf
<1> HIDE DEF A, B
<1>5. IsFiniteSet(B) /\ IsFiniteSet(A)
  <2>1. IsFiniteSet(1 .. Len(fr))
    BY <1>1, FS_Interval
  <2>2. IsFiniteSet(B)
    BY <1>1, <2>1, FS_Subset
  <2>3. QED
    BY <1>1, <2>2, FS_Subset
<1>6. /\ Cardinality(A) \in Nat /\ Cardinality(B) \in Nat
      /\ Cardinality(A) <= Cardinality(B)
      /\ Cardinality(A) = Cardinality(B) => A = B
      /\ Cardinality(A) = 0 => A = {}
  BY <1>1, <1>5, FS_CardinalityType, FS_Subset, FS_EmptySet
<1>7. QED
  BY <1>2, <1>3, <1>4, <1>6

LEMMA LevelSame ==
  ASSUME NEW fr, NEW fr2, NEW k \in Nat, NEW K,
         \A j \in 1 .. k : fr2[j].kind = fr[j].kind
  PROVE  Level(fr2, k, K) = Level(fr, k, K)
<1>1. {j \in 1 .. k : fr2[j].kind \in K} = {j \in 1 .. k : fr[j].kind \in K}
  OBVIOUS
<1>2. QED
  BY <1>1 DEF Level

LEMMA LevelTop ==
  ASSUME NEW fr \in Seq(FrameSet), NEW K
  PROVE  Level(fr, Len(fr), K) = DepthOf(fr, K)
<1>1. DOMAIN fr = 1 .. Len(fr)
  OBVIOUS
<1>2. QED
  BY <1>1 DEF Level, DepthOf

LEMMA LoopLevel ==
  ASSUME NEW fr \in Seq(FrameSet), NEW k \in 1 .. Len(fr), fr[k].kind = "while"
  PROVE  /\ Level(fr, k, LoopKinds) \in 1 .. DepthOf(fr, LoopKinds)
         /\ k < Len(fr) /\ fr[Len(fr)].kind = "while" =>
              Level(fr, k, LoopKinds) \in 1 .. DepthOf(fr, LoopKinds) - 1
<1> DEFINE l == Level(fr, k, LoopKinds)
           d == DepthOf(fr, LoopKinds)
<1>1. \A x : x \in LoopKinds <=> x = "while"
  BY DEF LoopKinds
<1>2. /\ l \in Nat /\ d \in Nat /\ l <= d
      /\ fr[k].kind \in LoopKinds => l > 0
      /\ k < Len(fr) /\ fr[Len(fr)].kind \in LoopKinds => l < d
  BY LevelType
<1> HIDE DEF l, d
<1>3. l \in 1 .. d /\ (k < Len(fr) /\ fr[Len(fr)].kind = "while" => l \in 1 .. d - 1)
  BY <1>1, <1>2
<1>4. QED
  BY <1>3 DEF l, d

(* The stack of one list per loop.                                         *)
LoopStack(fr, st) ==
  st \in Seq(Seq(Nat)) /\ Len(st) = DepthOf(fr, LoopKinds) /\ LoopLists(fr, st)

LEMMA LoopListsPush ==
  ASSUME NEW fr \in Seq(FrameSet), NEW f \in FrameSet, NEW st, LoopStack(fr, st)
  PROVE  /\ f.kind = "while" => LoopLists(Append(fr, f), Push(st))
         /\ f.kind # "while" => LoopLists(Append(fr, f), st)
<1> DEFINE s == Append(fr, f)
<1>1. /\ s \in Seq(FrameSet) /\ Len(s) = Len(fr) + 1 /\ Len(fr) \in Nat
      /\ s[Len(fr) + 1] = f /\ \A k \in 1 .. Len(fr) : s[k] = fr[k]
  OBVIOUS
<1>2. DepthOf(s, LoopKinds) =
        DepthOf(fr, LoopKinds) + (IF f.kind \in LoopKinds THEN 1 ELSE 0)
  BY DepthPush
<1> HIDE DEF s
<1>3. ASSUME NEW k \in 1 .. Len(fr)
      PROVE  Level(s, k, LoopKinds) = Level(fr, k, LoopKinds)
  <2>1. k \in Nat /\ \A j \in 1 .. k : s[j].kind = fr[j].kind
    BY <1>1
  <2>2. QED
    BY <2>1, LevelSame
<1>4. Level(s, Len(fr) + 1, LoopKinds) = DepthOf(s, LoopKinds)
  BY <1>1, LevelTop
<1>5. ASSUME NEW k \in 1 .. Len(fr), fr[k].kind = "while"
      PROVE  /\ Level(fr, k, LoopKinds) \in 1 .. Len(st)
             /\ \A b \in ToSet(st[Level(fr, k, LoopKinds)]) : fr[k].check <= b
  <2>1. Level(fr, k, LoopKinds) \in 1 .. DepthOf(fr, LoopKinds)
    BY <1>5, LoopLevel
  <2>2. QED
    BY <1>5, <2>1 DEF LoopStack, LoopLists
<1>6. CASE f.kind = "while"
  <2>1. DepthOf(s, LoopKinds) = Len(st) + 1 /\ Len(st) \in Nat
    BY <1>2, <1>6 DEF LoopKinds, LoopStack
  <2>2. /\ Push(st)[Len(st) + 1] = <<>> /\ \A m \in 1 .. Len(st) : Push(st)[m] = st[m]
    BY DEF Push, LoopStack
  <2>3. ToSet(<<>>) = {}
    BY DEF ToSet
  <2>4. ASSUME NEW k \in 1 .. Len(s), s[k].kind = "while",
               NEW b \in ToSet(Push(st)[Level(s, k, LoopKinds)])
        PROVE  s[k].check <= b
    <3>1. CASE k = Len(fr) + 1
      BY <1>1, <1>4, <2>1, <2>2, <2>3, <2>4, <3>1
    <3>2. CASE k # Len(fr) + 1
      <4>1. k \in 1 .. Len(fr) /\ s[k] = fr[k]
        BY <1>1, <3>2
      <4>2. Push(st)[Level(s, k, LoopKinds)] = st[Level(fr, k, LoopKinds)]
        BY <1>3, <1>5, <2>2, <2>4, <4>1
      <4>3. QED
        BY <1>5, <2>4, <4>1, <4>2
    <3>3. QED
      BY <3>1, <3>2
  <2>5. QED
    BY <1>6, <2>4 DEF LoopLists, s
<1>7. CASE f.kind # "while"
  <2>1. ASSUME NEW k \in 1 .. Len(s), s[k].kind = "while",
               NEW b \in ToSet(st[Level(s, k, LoopKinds)])
        PROVE  s[k].check <= b
    <3>1. k \in 1 .. Len(fr) /\ s[k] = fr[k]
      BY <1>1, <1>7, <2>1
    <3>2. QED
      BY <1>3, <1>5, <2>1, <3>1
  <2>2. QED
    BY <1>7, <2>1 DEF LoopLists, s
<1>8. QED
  BY <1>6, <1>7

LEMMA LoopListsPop ==
  ASSUME NEW fr \in Seq(FrameSet), fr # <<>>, NEW st, LoopStack(fr, st)
  PROVE  /\ Last(fr).kind = "while" =>
              /\ LoopLists(Front(fr), Front(st))
              /\ \A b \in ToSet(Last(st)) : Last(fr).check <= b
         /\ Last(fr).kind # "while" => LoopLists(Front(fr), st)
<1> DEFINE s == Front(fr)
<1>1. /\ s \in Seq(FrameSet) /\ Len(s) = Len(fr) - 1 /\ Len(fr) \in Nat \ {0}
      /\ \A k \in 1 .. Len(fr) - 1 : s[k] = fr[k]
      /\ Last(fr) = fr[Len(fr)]
  BY FrontIsSeq, LastIsElement
<1> HIDE DEF s
<1>2. ASSUME NEW k \in 1 .. Len(s)
      PROVE  Level(s, k, LoopKinds) = Level(fr, k, LoopKinds)
  <2>1. k \in Nat /\ \A j \in 1 .. k : s[j].kind = fr[j].kind
    BY <1>1
  <2>2. QED
    BY <2>1, LevelSame
<1>3. ASSUME NEW k \in 1 .. Len(fr), fr[k].kind = "while"
      PROVE  \A b \in ToSet(st[Level(fr, k, LoopKinds)]) : fr[k].check <= b
  BY <1>3 DEF LoopStack, LoopLists
<1>4. CASE Last(fr).kind = "while"
  <2>1. Last(fr).kind \in LoopKinds
    BY <1>4 DEF LoopKinds
  <2>2. Level(fr, Len(fr), LoopKinds) = Len(st)
    BY <1>1, LevelTop DEF LoopStack
  <2>3. st # <<>> /\ st \in Seq(Seq(Nat)) /\ Len(st) \in Nat \ {0}
    BY <1>1, <2>1, <2>2, LevelType DEF LoopStack
  <2>4. Last(st) = st[Len(st)] /\ \A m \in 1 .. Len(st) - 1 : Front(st)[m] = st[m]
    BY <2>3, FrontIsSeq, LastIsElement
  <2>5. ASSUME NEW b \in ToSet(Last(st))
        PROVE  Last(fr).check <= b
    BY <1>1, <1>3, <1>4, <2>2, <2>4, <2>5
  <2>6. ASSUME NEW k \in 1 .. Len(s), s[k].kind = "while",
               NEW b \in ToSet(Front(st)[Level(s, k, LoopKinds)])
        PROVE  s[k].check <= b
    <3>1. k \in 1 .. Len(fr) /\ k < Len(fr) /\ s[k] = fr[k]
      BY <1>1
    <3>2. Level(fr, k, LoopKinds) \in 1 .. Len(st) - 1
      <4>1. fr[Len(fr)].kind = "while" /\ fr[k].kind = "while"
        BY <1>1, <1>4, <2>6, <3>1
      <4>2. Level(fr, k, LoopKinds) \in 1 .. DepthOf(fr, LoopKinds) - 1
        BY <3>1, <4>1, LoopLevel
      <4>3. QED
        BY <4>2 DEF LoopStack
    <3>3. Front(st)[Level(s, k, LoopKinds)] = st[Level(fr, k, LoopKinds)]
      BY <1>2, <2>4, <3>2
    <3>4. QED
      BY <1>3, <2>6, <3>1, <3>3
  <2>7. QED
    BY <1>4, <2>5, <2>6 DEF LoopLists, s
<1>5. CASE Last(fr).kind # "while"
  <2>1. ASSUME NEW k \in 1 .. Len(s), s[k].kind = "while",
               NEW b \in ToSet(st[Level(s, k, LoopKinds)])
        PROVE  s[k].check <= b
    <3>1. k \in 1 .. Len(fr) /\ s[k] = fr[k]
      BY <1>1
    <3>2. QED
      BY <1>2, <1>3, <2>1, <3>1
  <2>2. QED
    BY <1>5, <2>1 DEF LoopLists, s
<1>6. QED
  BY <1>4, <1>5

LEMMA LoopListsSetTop ==
  ASSUME NEW fr \in Seq(FrameSet), fr # <<>>, NEW st, LoopLists(fr, st),
         NEW f \in FrameSet, f.kind = Last(fr).kind,
         f.kind = "while" => f.check = Last(fr).check
  PROVE  LoopLists(Append(Front(fr), f), st)
<1> DEFINE s == Append(Front(fr), f)
<1>1. /\ s \in Seq(FrameSet) /\ Len(s) = Len(fr) /\ Len(fr) \in Nat \ {0}
      /\ \A k \in 1 .. Len(fr) - 1 : s[k] = fr[k]
      /\ s[Len(fr)] = f /\ Last(fr) = fr[Len(fr)]
  BY SetTopIsSeq, LastIsElement
<1> HIDE DEF s
<1>2. ASSUME NEW k \in 1 .. Len(fr)
      PROVE  s[k].kind = fr[k].kind /\ (s[k].kind = "while" => s[k].check = fr[k].check)
  <2>1. CASE k = Len(fr)
    BY <1>1, <2>1
  <2>2. CASE k # Len(fr)
    BY <1>1, <2>2
  <2>3. QED
    BY <2>1, <2>2
<1>3. ASSUME NEW k \in 1 .. Len(fr)
      PROVE  Level(s, k, LoopKinds) = Level(fr, k, LoopKinds)
  <2>1. k \in Nat /\ \A j \in 1 .. k : s[j].kind = fr[j].kind
    BY <1>2
  <2>2. QED
    BY <2>1, LevelSame
<1>4. QED
  BY <1>1, <1>2, <1>3 DEF LoopLists, s

LEMMA LoopListsAddTop ==
  ASSUME NEW fr \in Seq(FrameSet), NEW st, LoopStack(fr, st), st # <<>>, NEW c \in Nat,
         \A k \in 1 .. Len(fr) : fr[k].kind = "while" => fr[k].check <= c
  PROVE  LoopLists(fr, AddTop(st, <<c>>))
<1>1. st \in Seq(Seq(Nat)) /\ Len(st) \in 1 .. Len(st)
  BY DEF LoopStack
<1>2. \A m \in 1 .. Len(st) :
        AddTop(st, <<c>>)[m] = IF m = Len(st) THEN st[m] \o <<c>> ELSE st[m]
  BY <1>1 DEF AddTop
<1>3. ASSUME NEW m \in 1 .. Len(st), NEW b \in ToSet(AddTop(st, <<c>>)[m])
      PROVE  b = c \/ b \in ToSet(st[m])
  <2>1. CASE m = Len(st)
    <3>1. st[m] \in Seq(Nat) /\ b \in ToSet(st[m] \o <<c>>)
      BY <1>1, <1>2, <1>3, <2>1
    <3>2. QED
      BY <3>1 DEF ToSet
  <2>2. CASE m # Len(st)
    BY <1>2, <1>3, <2>2
  <2>3. QED
    BY <2>1, <2>2
<1>4. ASSUME NEW k \in 1 .. Len(fr), fr[k].kind = "while",
             NEW b \in ToSet(AddTop(st, <<c>>)[Level(fr, k, LoopKinds)])
      PROVE  fr[k].check <= b
  <2>1. Level(fr, k, LoopKinds) \in 1 .. Len(st)
    <3>1. Level(fr, k, LoopKinds) \in 1 .. DepthOf(fr, LoopKinds)
      BY <1>4, LoopLevel
    <3>2. QED
      BY <3>1 DEF LoopStack
  <2>2. b = c \/ b \in ToSet(st[Level(fr, k, LoopKinds)])
    BY <1>3, <1>4, <2>1
  <2>3. QED
    BY <1>4, <2>2 DEF LoopStack, LoopLists
<1>5. QED
  BY <1>4 DEF LoopLists

-----------------------------------------------------------------------------
(* Numbers.                                                                *)

Id(bs, b, i) == IF i = 0 THEN bs[b].label ELSE bs[b].insts[i].id

Numbered(bs, n) ==
  /\ NumParams <= n
  /\ \A b \in 1 .. Len(bs) : \A i \in 0 .. Len(bs[b].insts) :
       Id(bs, b, i) >= 0 => Id(bs, b, i) \in NumParams .. n - 1
  /\ \A x \in NumParams .. n - 1 :
       \E b \in 1 .. Len(bs) : \E i \in 0 .. Len(bs[b].insts) : Id(bs, b, i) = x
  /\ \A b, c \in 1 .. Len(bs) :
       \A i \in 0 .. Len(bs[b].insts), j \in 0 .. Len(bs[c].insts) :
         /\ b < c \/ (b = c /\ i < j)
         /\ Id(bs, b, i) >= 0 /\ Id(bs, c, j) >= 0
         => Id(bs, b, i) < Id(bs, c, j)
  /\ \A b \in 1 .. Len(bs) : \A i \in 1 .. Len(bs[b].insts) :
       IsTerminateInst(bs[b].insts[i]) => bs[b].insts[i].id = -1

NInv ==
  /\ TInv
  /\ LoopLists(frames, break_stack) /\ LoopLists(frames, continue_stack)
  /\ Numbered(blocks, tmp_id)

LEMMA IdType ==
  ASSUME NEW bs \in Seq(BlockSet), NEW b \in 1 .. Len(bs)
  PROVE  /\ Len(bs[b].insts) \in Nat
         /\ \A i \in 0 .. Len(bs[b].insts) : Id(bs, b, i) \in LabelSet
         /\ bs[b].insts \in Seq(InstSet)
<1>1. bs[b].label \in LabelSet /\ bs[b].insts \in Seq(InstSet)
  BY BlockType
<1>2. \A i \in 1 .. Len(bs[b].insts) : bs[b].insts[i].id \in LabelSet
  <2>1. \A i \in 1 .. Len(bs[b].insts) : bs[b].insts[i] \in InstSet
    BY <1>1
  <2>2. \A inst \in InstSet : inst.id \in LabelSet
    BY DEF InstSet
  <2>3. QED
    BY <2>1, <2>2
<1>3. QED
  BY <1>1, <1>2 DEF Id

(* Is i a place of block b, label included, in bs already?                 *)
Old(bs, b, i) == b \in 1 .. Len(bs) /\ i \in 0 .. Len(bs[b].insts)

(* The numbers n to m - 1 are handed out in the last block, in a row.      *)
LEMMA NumberedStep ==
  ASSUME NEW bs \in Seq(BlockSet), NEW bs2 \in Seq(BlockSet), bs2 # <<>>,
         NEW n \in Nat, NEW m \in Nat, n <= m, NEW at \in Nat,
         Numbered(bs, n), Len(bs) <= Len(bs2),
         \A b \in 1 .. Len(bs) : \A i \in 0 .. Len(bs[b].insts) :
           Old(bs2, b, i) /\ Id(bs2, b, i) = Id(bs, b, i),
         \A b \in 1 .. Len(bs2) : \A i \in 0 .. Len(bs2[b].insts) :
           \/ Old(bs, b, i)
           \/ Id(bs2, b, i) = -1
           \/ b = Len(bs2) /\ i \in at .. at + (m - n) - 1,
         \A i \in at .. at + (m - n) - 1 :
           /\ Old(bs2, Len(bs2), i) /\ ~Old(bs, Len(bs2), i)
           /\ Id(bs2, Len(bs2), i) = n + (i - at),
         \A b \in 1 .. Len(bs2) : \A i \in 1 .. Len(bs2[b].insts) :
           IsTerminateInst(bs2[b].insts[i]) => bs2[b].insts[i].id = -1
  PROVE  Numbered(bs2, m)
<1> USE NumParamsAssumption
<1>1. Len(bs) \in Nat /\ Len(bs2) \in Nat \ {0}
  OBVIOUS
<1>2. ASSUME NEW b \in 1 .. Len(bs2), NEW i \in 0 .. Len(bs2[b].insts),
             Id(bs2, b, i) >= 0
      PROVE  \/ Old(bs, b, i) /\ Id(bs2, b, i) = Id(bs, b, i)
                /\ Id(bs2, b, i) \in NumParams .. n - 1
             \/ /\ ~Old(bs, b, i) /\ b = Len(bs2) /\ i >= at
                /\ Id(bs2, b, i) = n + (i - at) /\ i - at < m - n
  <2>1. CASE Old(bs, b, i)
    <3>1. Id(bs2, b, i) = Id(bs, b, i)
      BY <2>1 DEF Old
    <3>2. Id(bs, b, i) \in NumParams .. n - 1
      BY <1>2, <2>1, <3>1 DEF Old, Numbered
    <3>3. QED
      BY <2>1, <3>1, <3>2
  <2>2. CASE ~Old(bs, b, i)
    <3>1. b = Len(bs2) /\ i \in at .. at + (m - n) - 1
      BY <1>2, <2>2
    <3>2. Id(bs2, b, i) = n + (i - at)
      BY <3>1
    <3>3. QED
      BY <2>2, <3>1, <3>2
  <2>3. QED
    BY <2>1, <2>2
<1>3. NumParams <= n /\ NumParams \in Nat
  BY DEF Numbered
<1>4. ASSUME NEW b \in 1 .. Len(bs2), NEW i \in 0 .. Len(bs2[b].insts),
             Id(bs2, b, i) >= 0
      PROVE  Id(bs2, b, i) \in NumParams .. m - 1
  <2>1. /\ b \in Nat /\ i \in Nat /\ Id(bs2, b, i) \in Int
    BY IdType DEF LabelSet, EntryLabel
  <2>2. QED
    BY <1>2, <1>3, <1>4, <2>1
<1>5. ASSUME NEW x \in NumParams .. m - 1
      PROVE  \E b \in 1 .. Len(bs2) : \E i \in 0 .. Len(bs2[b].insts) : Id(bs2, b, i) = x
  <2>1. CASE x \in NumParams .. n - 1
    <3>1. PICK b \in 1 .. Len(bs) : \E i \in 0 .. Len(bs[b].insts) : Id(bs, b, i) = x
      BY <2>1 DEF Numbered
    <3>2. PICK i \in 0 .. Len(bs[b].insts) : Id(bs, b, i) = x
      BY <3>1
    <3>3. Old(bs2, b, i) /\ Id(bs2, b, i) = x
      BY <3>2
    <3>4. QED
      BY <3>3 DEF Old
  <2>2. CASE x \in n .. m - 1
    <3> DEFINE i == at + (x - n)
    <3>1. i \in at .. at + (m - n) - 1 /\ n + (i - at) = x
      BY <2>2
    <3> HIDE DEF i
    <3>2. Old(bs2, Len(bs2), i) /\ Id(bs2, Len(bs2), i) = x
      BY <3>1
    <3>3. QED
      BY <3>2 DEF Old
  <2>3. QED
    BY <1>3, <2>1, <2>2
<1>6. ASSUME NEW b \in 1 .. Len(bs2), NEW c \in 1 .. Len(bs2),
             NEW i \in 0 .. Len(bs2[b].insts), NEW j \in 0 .. Len(bs2[c].insts),
             b < c \/ (b = c /\ i < j), Id(bs2, b, i) >= 0, Id(bs2, c, j) >= 0
      PROVE  Id(bs2, b, i) < Id(bs2, c, j)
  <2>1. /\ b \in Nat /\ c \in Nat /\ i \in Nat /\ j \in Nat
        /\ Id(bs2, b, i) \in Int /\ Id(bs2, c, j) \in Int
    BY IdType DEF LabelSet, EntryLabel
  <2>2. CASE Old(bs, b, i) /\ Old(bs, c, j)
    <3>1. Id(bs, b, i) < Id(bs, c, j)
      <4>1. Id(bs, b, i) >= 0 /\ Id(bs, c, j) >= 0
        BY <1>2, <1>6, <2>2
      <4>2. QED
        BY <1>6, <2>2, <4>1 DEF Old, Numbered
    <3>2. QED
      BY <1>2, <1>6, <2>2, <3>1
  <2>3. CASE Old(bs, b, i) /\ ~Old(bs, c, j)
    BY <1>2, <1>6, <2>1, <2>3
  <2>4. CASE ~Old(bs, b, i) /\ Old(bs, c, j)
    <3>1. b = Len(bs2) /\ c = b /\ i < j
      BY <1>1, <1>2, <1>6, <2>1, <2>4
    <3>2. Old(bs, b, i)
      BY <1>6, <2>1, <2>4, <3>1, IdType DEF Old
    <3>3. QED
      BY <2>4, <3>2
  <2>5. CASE ~Old(bs, b, i) /\ ~Old(bs, c, j)
    BY <1>2, <1>6, <2>1, <2>5
  <2>6. QED
    BY <2>2, <2>3, <2>4, <2>5
<1>7. NumParams <= m
  BY <1>3
<1>8. QED
  BY <1>4, <1>5, <1>6, <1>7 DEF Numbered

LEMMA AddBlockNumbered ==
  ASSUME NEW bs \in Seq(BlockSet), NEW n \in Nat, Numbered(bs, n), NEW r \in RoleSet
  PROVE  Numbered(AddBlock(bs, n, r), n + 1)
<1> DEFINE bs2 == AddBlock(bs, n, r)
           m   == n + 1
           at  == 0
<1>1. n \in LabelSet
  BY DEF LabelSet
<1>2. /\ bs2 \in Seq(BlockSet) /\ Len(bs2) = Len(bs) + 1 /\ Len(bs) \in Nat
      /\ \A b \in 1 .. Len(bs) : bs2[b] = bs[b]
      /\ bs2[Len(bs) + 1].label = n /\ bs2[Len(bs) + 1].insts = <<>>
  BY <1>1, AddBlockEffect
<1> HIDE DEF bs2
<1>3. Len(bs2[Len(bs2)].insts) = 0 /\ bs2 # <<>>
  BY <1>2
<1>4. ASSUME NEW b \in 1 .. Len(bs), NEW i \in 0 .. Len(bs[b].insts)
      PROVE  Old(bs2, b, i) /\ Id(bs2, b, i) = Id(bs, b, i)
  BY <1>2 DEF Old, Id
<1>5. ASSUME NEW b \in 1 .. Len(bs2), NEW i \in 0 .. Len(bs2[b].insts)
      PROVE  Old(bs, b, i) \/ (b = Len(bs2) /\ i \in at .. at + (m - n) - 1)
  <2>1. CASE b = Len(bs2)
    BY <1>3, <2>1
  <2>2. CASE b # Len(bs2)
    BY <1>2, <2>2 DEF Old
  <2>3. QED
    BY <2>1, <2>2
<1>6. ASSUME NEW i \in at .. at + (m - n) - 1
      PROVE  /\ Old(bs2, Len(bs2), i) /\ ~Old(bs, Len(bs2), i)
             /\ Id(bs2, Len(bs2), i) = n + (i - at)
  BY <1>2, <1>3 DEF Old, Id
<1>7. ASSUME NEW b \in 1 .. Len(bs2), NEW i \in 1 .. Len(bs2[b].insts),
             IsTerminateInst(bs2[b].insts[i])
      PROVE  bs2[b].insts[i].id = -1
  <2>1. b \in 1 .. Len(bs)
    BY <1>2, <1>3
  <2>2. QED
    BY <1>2, <1>7, <2>1 DEF Numbered
<1>8. m \in Nat /\ at \in Nat /\ n <= m /\ Len(bs) <= Len(bs2)
  BY <1>2
<1> HIDE DEF m, at
<1>9. Numbered(bs2, m)
  BY <1>2, <1>3, <1>4, <1>5, <1>6, <1>7, <1>8, NumberedStep
<1>10. QED
  BY <1>9 DEF bs2, m

(* The first m instructions take the numbers from n on, the others none.   *)
Takes(is, n, m) ==
  /\ m \in 0 .. Len(is)
  /\ \A k \in 1 .. Len(is) :
       /\ k <= m => is[k].id = n + k - 1
       /\ k > m => is[k].id = -1
       /\ IsTerminateInst(is[k]) => is[k].id = -1

LEMMA AddInstsNumbered ==
  ASSUME NEW bs \in Seq(BlockSet), NEW n \in Nat, Numbered(bs, n),
         NEW x \in 1 .. Len(bs), NEW is \in Seq(InstSet), NEW m \in Nat,
         Takes(is, n, m), m > 0 => x = Len(bs)
  PROVE  Numbered(AddInsts(bs, x, is), n + m)
<1> DEFINE bs2 == AddInsts(bs, x, is)
           at  == Len(bs[x].insts) + 1
<1>1. /\ bs2 \in Seq(BlockSet) /\ Len(bs2) = Len(bs)
      /\ \A b \in 1 .. Len(bs) : bs2[b].label = bs[b].label
      /\ \A b \in 1 .. Len(bs) : b # x => bs2[b] = bs[b]
      /\ bs2[x].insts = bs[x].insts \o is
  BY AddInstsEffect
<1> HIDE DEF bs2
<1>2. /\ bs[x].insts \in Seq(InstSet) /\ Len(bs[x].insts) \in Nat
      /\ Len(is) \in Nat /\ at \in Nat
  BY BlockType
<1>3. /\ Len(bs2[x].insts) = Len(bs[x].insts) + Len(is)
      /\ \A i \in 1 .. Len(bs[x].insts) : bs2[x].insts[i] = bs[x].insts[i]
      /\ \A k \in 1 .. Len(is) : bs2[x].insts[Len(bs[x].insts) + k] = is[k]
  BY <1>1, <1>2
<1>4. ASSUME NEW b \in 1 .. Len(bs), NEW i \in 0 .. Len(bs[b].insts)
      PROVE  Old(bs2, b, i) /\ Id(bs2, b, i) = Id(bs, b, i)
  <2>1. CASE b = x
    <3>1. i \in 0 .. Len(bs2[x].insts)
      BY <1>2, <1>3, <2>1
    <3>2. i = 0 \/ i \in 1 .. Len(bs[x].insts)
      BY <1>2, <2>1
    <3>3. Id(bs2, b, i) = Id(bs, b, i)
      BY <1>1, <1>3, <2>1, <3>2 DEF Id
    <3>4. QED
      BY <1>1, <2>1, <3>1, <3>3 DEF Old
  <2>2. CASE b # x
    BY <1>1, <2>2 DEF Old, Id
  <2>3. QED
    BY <2>1, <2>2
<1>5. ASSUME NEW i \in 0 .. Len(bs2[x].insts), ~Old(bs, x, i)
      PROVE  /\ i - Len(bs[x].insts) \in 1 .. Len(is)
             /\ Id(bs2, x, i) = is[i - Len(bs[x].insts)].id
  <2> DEFINE k == i - Len(bs[x].insts)
  <2>1. k \in 1 .. Len(is) /\ i = Len(bs[x].insts) + k /\ i # 0
    BY SMTT(30), <1>2, <1>3, <1>5 DEF Old
  <2> HIDE DEF k
  <2>2. QED
    BY <1>3, <2>1 DEF Id, k
<1>6. ASSUME NEW b \in 1 .. Len(bs2), NEW i \in 0 .. Len(bs2[b].insts)
      PROVE  \/ Old(bs, b, i)
             \/ Id(bs2, b, i) = -1
             \/ b = Len(bs2) /\ i \in at .. at + ((n + m) - n) - 1
  <2>1. CASE b = x /\ ~Old(bs, b, i)
    <3>1. /\ i - Len(bs[x].insts) \in 1 .. Len(is)
          /\ Id(bs2, b, i) = is[i - Len(bs[x].insts)].id
      BY <1>5, <2>1
    <3>2. CASE i - Len(bs[x].insts) <= m
      <4>1. m > 0 /\ i \in at .. at + ((n + m) - n) - 1
        BY <1>2, <3>1, <3>2
      <4>2. QED
        BY <1>1, <2>1, <4>1
    <3>3. CASE i - Len(bs[x].insts) > m
      BY <3>1, <3>3 DEF Takes
    <3>4. QED
      BY <1>2, <3>1, <3>2, <3>3
  <2>2. CASE b # x
    BY <1>1, <2>2 DEF Old
  <2>3. QED
    BY <2>1, <2>2
<1>7. ASSUME NEW i \in at .. at + ((n + m) - n) - 1
      PROVE  /\ Old(bs2, Len(bs2), i) /\ ~Old(bs, Len(bs2), i)
             /\ Id(bs2, Len(bs2), i) = n + (i - at)
  <2> DEFINE k == i - Len(bs[x].insts)
  <2>1. x = Len(bs2) /\ k \in 1 .. m /\ i - at = k - 1 /\ m <= Len(is) /\ i \in Nat
    BY <1>1, <1>2 DEF Takes
  <2>2. i \in 0 .. Len(bs2[x].insts) /\ ~Old(bs, x, i)
    BY SMTT(30), <1>2, <1>3, <2>1 DEF Old
  <2>3. Id(bs2, x, i) = is[k].id /\ k \in 1 .. Len(is)
    BY <1>5, <2>2
  <2> HIDE DEF k
  <2>4. is[k].id = n + k - 1
    BY <2>1, <2>3 DEF Takes
  <2>5. Id(bs2, x, i) = n + (i - at)
    BY <2>1, <2>3, <2>4
  <2>6. QED
    BY <2>1, <2>2, <2>5 DEF Old
<1>8. ASSUME NEW b \in 1 .. Len(bs2), NEW i \in 1 .. Len(bs2[b].insts),
             IsTerminateInst(bs2[b].insts[i])
      PROVE  bs2[b].insts[i].id = -1
  <2>1. CASE b = x /\ i > Len(bs[x].insts)
    <3>1. i - Len(bs[x].insts) \in 1 .. Len(is)
      BY <1>2, <1>3, <2>1
    <3>2. bs2[b].insts[i] = is[i - Len(bs[x].insts)]
      <4>1. i = Len(bs[x].insts) + (i - Len(bs[x].insts))
        BY <1>2
      <4>2. QED
        BY <1>3, <2>1, <3>1, <4>1
    <3>3. QED
      BY <1>8, <3>1, <3>2 DEF Takes
  <2>2. CASE b = x /\ i <= Len(bs[x].insts)
    <3>1. i \in 1 .. Len(bs[x].insts) /\ bs2[b].insts[i] = bs[x].insts[i]
      BY SMTT(30), <1>2, <1>3, <2>2
    <3>2. QED
      BY <1>8, <3>1 DEF Numbered
  <2>3. CASE b # x
    BY <1>1, <1>8, <2>3 DEF Numbered
  <2>4. QED
    BY <1>2, <2>1, <2>2, <2>3
<1>9. n + m \in Nat /\ n <= n + m /\ Len(bs) <= Len(bs2) /\ bs2 # <<>>
  BY <1>1
<1> HIDE DEF at
<1>10. QED
  BY <1>1, <1>2, <1>4, <1>6, <1>7, <1>8, <1>9, NumberedStep DEF bs2

LEMMA ReplacedNumbered ==
  ASSUME NEW bs \in Seq(BlockSet), bs # <<>>, NEW n \in Nat, Numbered(bs, n), NEW bs2,
         NEW list, NEW J, Replaced(bs, bs2, list, J),
         \A b \in ToSet(list) :
           /\ J[b].id = Back(bs, b).id
           /\ IsTerminateInst(J[b]) => J[b].id = -1
  PROVE  Numbered(bs2, n)
<1>1. /\ bs2 \in Seq(BlockSet) /\ Len(bs2) = Len(bs) /\ bs2 # <<>>
      /\ \A b \in 1 .. Len(bs) : b \notin ToSet(list) => bs2[b] = bs[b]
      /\ \A b \in 1 .. Len(bs) : bs2[b].label = bs[b].label
  BY DEF Replaced
<1>2. ASSUME NEW b \in 1 .. Len(bs), b \in ToSet(list)
      PROVE  /\ Len(bs2[b].insts) = Len(bs[b].insts) /\ Len(bs[b].insts) \in Nat \ {0}
             /\ \A i \in 1 .. Len(bs[b].insts) - 1 : bs2[b].insts[i] = bs[b].insts[i]
             /\ bs2[b].insts[Len(bs[b].insts)] = J[b]
             /\ bs[b].insts[Len(bs[b].insts)] = Back(bs, b)
  <2>1. /\ bs[b].insts # <<>> /\ bs2[b].insts # <<>>
        /\ Len(bs2[b].insts) = Len(bs[b].insts)
        /\ \A i \in 1 .. Len(bs[b].insts) - 1 : bs2[b].insts[i] = bs[b].insts[i]
        /\ Back(bs2, b) = J[b]
    BY <1>2 DEF Replaced
  <2>2. bs[b].insts \in Seq(InstSet) /\ bs2[b].insts \in Seq(InstSet)
    BY <1>1, BlockType
  <2>3. Len(bs[b].insts) \in Nat \ {0}
    BY <2>1, <2>2
  <2>4. QED
    BY <2>1, <2>3 DEF Back, Last
<1>3. ASSUME NEW b \in 1 .. Len(bs), NEW i \in 1 .. Len(bs[b].insts)
      PROVE  /\ i \in 1 .. Len(bs2[b].insts)
             /\ bs2[b].insts[i].id = bs[b].insts[i].id
             /\ IsTerminateInst(bs2[b].insts[i]) => bs2[b].insts[i].id = -1
  <2>1. IsTerminateInst(bs[b].insts[i]) => bs[b].insts[i].id = -1
    BY DEF Numbered
  <2>2. CASE b \notin ToSet(list)
    BY <1>1, <2>1, <2>2
  <2>3. CASE b \in ToSet(list) /\ i = Len(bs[b].insts)
    BY <1>2, <2>3
  <2>4. CASE b \in ToSet(list) /\ i # Len(bs[b].insts)
    <3>1. i \in 1 .. Len(bs[b].insts) - 1
      BY <1>2, <2>4
    <3>2. QED
      BY <1>2, <2>1, <2>4, <3>1
  <2>5. QED
    BY <2>2, <2>3, <2>4
<1>4. ASSUME NEW b \in 1 .. Len(bs)
      PROVE  Len(bs2[b].insts) = Len(bs[b].insts) /\ Len(bs[b].insts) \in Nat
  BY <1>1, <1>2, IdType
<1>5. ASSUME NEW b \in 1 .. Len(bs), NEW i \in 0 .. Len(bs[b].insts)
      PROVE  Old(bs2, b, i) /\ Id(bs2, b, i) = Id(bs, b, i)
  BY <1>1, <1>3, <1>4 DEF Old, Id
<1>6. ASSUME NEW b \in 1 .. Len(bs2), NEW i \in 0 .. Len(bs2[b].insts)
      PROVE  Old(bs, b, i)
  BY <1>1, <1>4 DEF Old
<1>7. \A i \in 0 .. 0 + (n - n) - 1 : FALSE
  OBVIOUS
<1>8. ASSUME NEW b \in 1 .. Len(bs2), NEW i \in 1 .. Len(bs2[b].insts),
             IsTerminateInst(bs2[b].insts[i])
      PROVE  bs2[b].insts[i].id = -1
  BY <1>1, <1>3, <1>4, <1>8
<1>9. n <= n /\ Len(bs) <= Len(bs2)
  BY <1>1
<1>10. QED
  BY <1>1, <1>5, <1>6, <1>7, <1>8, <1>9, NumberedStep

(* The patches keep every number; the repair of the loops does, because    *)
(* the instruction it drops is a terminator.                               *)
LEMMA PatchNumbered ==
  ASSUME NEW bs \in Seq(BlockSet), bs # <<>>, NEW n \in Nat, Numbered(bs, n),
         NEW list, ListOK(bs, list), NEW l \in LabelSet
  PROVE  /\ Numbered(SetTrue(bs, list, l), n) /\ Numbered(SetFalse(bs, list, l), n)
         /\ (\A b \in ToSet(list) : Closed(bs, b)) =>
              Numbered(CloseJumps(bs, list, l), n)
<1>1. ASSUME NEW b \in ToSet(list)
      PROVE  IsTerminateInst(Back(bs, b)) => Back(bs, b).id = -1
  <2>1. b \in 1 .. Len(bs) /\ bs[b].insts # <<>>
    BY DEF ListOK, ToSet
  <2>2. bs[b].insts \in Seq(InstSet)
    BY <2>1, BlockType
  <2>3. Len(bs[b].insts) \in 1 .. Len(bs[b].insts)
    BY <2>1, <2>2
  <2>4. QED
    BY <2>1, <2>3 DEF Back, Last, Numbered
<1>2. \A b \in ToSet(list) :
        /\ Trues(bs, list, l)[b].id = Back(bs, b).id
        /\ IsTerminateInst(Trues(bs, list, l)[b]) => Trues(bs, list, l)[b].id = -1
  BY <1>1 DEF Trues, Inst, IsTerminateInst
<1>3. \A b \in ToSet(list) :
        /\ Falses(bs, list, l)[b].id = Back(bs, b).id
        /\ IsTerminateInst(Falses(bs, list, l)[b]) => Falses(bs, list, l)[b].id = -1
  BY <1>1 DEF Falses, Inst, IsTerminateInst
<1>4. ASSUME \A b \in ToSet(list) : Closed(bs, b)
      PROVE  \A b \in ToSet(list) :
        /\ Brs(bs, list, l)[b].id = Back(bs, b).id
        /\ IsTerminateInst(Brs(bs, list, l)[b]) => Brs(bs, list, l)[b].id = -1
  BY <1>1, <1>4 DEF Brs, BrInst, Inst, Closed, Back
<1>5. /\ Replaced(bs, SetTrue(bs, list, l), list, Trues(bs, list, l))
      /\ Replaced(bs, SetFalse(bs, list, l), list, Falses(bs, list, l))
      /\ Replaced(bs, CloseJumps(bs, list, l), list, Brs(bs, list, l))
  BY PatchEffect
<1>6. Numbered(SetTrue(bs, list, l), n)
  BY <1>2, <1>5, ReplacedNumbered
<1>7. Numbered(SetFalse(bs, list, l), n)
  BY <1>3, <1>5, ReplacedNumbered
<1>8. ASSUME \A b \in ToSet(list) : Closed(bs, b)
      PROVE  Numbered(CloseJumps(bs, list, l), n)
  <2>1. \A b \in ToSet(list) :
        /\ Brs(bs, list, l)[b].id = Back(bs, b).id
        /\ IsTerminateInst(Brs(bs, list, l)[b]) => Brs(bs, list, l)[b].id = -1
    BY <1>4, <1>8
  <2>2. QED
    BY <1>5, <2>1, ReplacedNumbered
<1>9. QED
  BY <1>6, <1>7, <1>8

-----------------------------------------------------------------------------
(* Every action keeps the numbering.                                       *)

LEMMA StraightTakes ==
  ASSUME NEW n \in Nat, NEW store \in BOOLEAN, tmp_id \in Nat
  PROVE  /\ Takes(Straight(n, store), tmp_id, n)
         /\ Takes(Append(Straight(n, FALSE), RetInst), tmp_id, n)
<1> DEFINE s == [k \in 1 .. n |-> ValInst(tmp_id + k - 1)]
<1>1. /\ s \in Seq({ValInst(i) : i \in Nat}) /\ Len(s) = n
      /\ \A k \in 1 .. n : s[k] = ValInst(tmp_id + k - 1)
  OBVIOUS
<1>2. \A i \in Nat : ValInst(i).id = i /\ ~IsTerminateInst(ValInst(i))
  BY DEF ValInst, Inst, IsTerminateInst
<1> HIDE DEF s
<1>3. /\ StoreInst.id = -1 /\ RetInst.id = -1
  BY DEF StoreInst, RetInst, Inst
<1>4. \A k \in 1 .. n : s[k].id = tmp_id + k - 1 /\ ~IsTerminateInst(s[k])
  BY <1>1, <1>2
<1>5. ASSUME NEW i, i.id = -1
      PROVE  Takes(s \o <<i>>, tmp_id, n)
  <2>1. /\ Len(s \o <<i>>) = n + 1 /\ (s \o <<i>>)[n + 1] = i
        /\ \A k \in 1 .. n : (s \o <<i>>)[k] = s[k]
    BY <1>1
  <2>2. QED
    BY <1>4, <1>5, <2>1 DEF Takes
<1>6. Takes(s, tmp_id, n)
  BY <1>1, <1>4 DEF Takes
<1>7. s \o <<>> = s
  BY <1>1
<1>8. Append(s, RetInst) = s \o <<RetInst>>
  BY <1>1
<1>9. Straight(n, TRUE) = s \o <<StoreInst>> /\ Straight(n, FALSE) = s
  BY <1>7 DEF Straight, s
<1>10. QED
  BY <1>3, <1>5, <1>6, <1>8, <1>9

LEMMA IcmpTakes ==
  ASSUME tmp_id \in Nat, val \in {"none", "i1", "i32"}
  PROVE  /\ AfterIcmp(val) - tmp_id \in Nat
         /\ Takes(IcmpInsts(val), tmp_id, AfterIcmp(val) - tmp_id)
         /\ AfterIcmp(val) = tmp_id + (AfterIcmp(val) - tmp_id)
         /\ AfterIcmp(val) \in Nat
         /\ val = "none" => ~ (AfterIcmp(val) - tmp_id > 0)
<1>1. CASE val = "i32"
  <2>1. AfterIcmp(val) = tmp_id + 1 /\ IcmpInsts(val) = <<ValInst(tmp_id)>>
    BY <1>1 DEF AfterIcmp, IcmpInsts
  <2>2. ValInst(tmp_id).id = tmp_id /\ ~IsTerminateInst(ValInst(tmp_id))
    BY DEF ValInst, Inst, IsTerminateInst
  <2>3. Takes(<<ValInst(tmp_id)>>, tmp_id, 1)
    BY <2>2 DEF Takes
  <2>4. AfterIcmp(val) - tmp_id = 1
    BY <2>1
  <2>5. QED
    BY <1>1, <2>1, <2>3, <2>4
<1>2. CASE val # "i32"
  <2>1. AfterIcmp(val) = tmp_id /\ IcmpInsts(val) = <<>>
    BY <1>2 DEF AfterIcmp, IcmpInsts
  <2>2. Takes(<<>>, tmp_id, 0)
    BY DEF Takes
  <2>3. AfterIcmp(val) - tmp_id = 0
    BY <2>1
  <2>4. QED
    BY <2>1, <2>2, <2>3
<1>3. QED
  BY <1>1, <1>2

(* bs is b0 after some code was added, numbered below n.                   *)
Reaches(b0, bs, n) == Grows(b0, bs) /\ Numbered(bs, n)

LEMMA ReachBlock ==
  ASSUME NEW b0 \in Seq(BlockSet), NEW bs, NEW n \in Nat, Reaches(b0, bs, n),
         NEW r \in RoleSet
  PROVE  Reaches(b0, AddBlock(bs, n, r), n + 1)
<1>1. bs \in Seq(BlockSet) /\ n \in LabelSet
  BY DEF Reaches, Grows, LabelSet
<1>2. QED
  BY <1>1, AddBlockNumbered, AddBlockGrows, GrowsTransitive DEF Reaches

LEMMA ReachInst ==
  ASSUME NEW b0 \in Seq(BlockSet), NEW bs, NEW n \in Nat, Reaches(b0, bs, n),
         NEW x \in 1 .. Len(b0), NEW i \in InstSet, i.id = -1
  PROVE  Reaches(b0, AddInsts(bs, x, <<i>>), n)
<1>1. bs \in Seq(BlockSet) /\ x \in 1 .. Len(bs)
  BY DEF Reaches, Grows
<1> DEFINE is == <<i>>
           m  == 0
           bs2 == AddInsts(bs, x, is)
<1>2. /\ is \in Seq(InstSet) /\ Takes(is, n, m) /\ m \in Nat /\ ~ (m > 0)
      /\ n + m = n
  BY DEF Takes
<1> HIDE DEF is, m
<1>3. Numbered(bs2, n + m)
  BY <1>1, <1>2, AddInstsNumbered DEF Reaches
<1>4. Grows(bs, bs2)
  BY <1>1, <1>2, AddInstsGrows
<1> HIDE DEF bs2
<1>5. n + m = n
  BY <1>2
<1>6. Numbered(bs2, n) /\ Grows(bs, bs2)
  BY <1>3, <1>4, <1>5
<1>7. Reaches(b0, bs2, n)
  BY <1>1, <1>6, GrowsTransitive DEF Reaches
<1>8. QED
  BY <1>7 DEF bs2, is

LEMMA ReachJump ==
  ASSUME NEW b0 \in Seq(BlockSet), NEW bs, NEW n \in Nat, Reaches(b0, bs, n),
         NEW x \in 1 .. Len(b0), NEW l \in LabelSet, NEW r, To(r) \in WantSet
  PROVE  Reaches(b0, JumpUnlessRet(bs, x, l, r), n)
<1>1. BrInst(l, To(r)) \in InstSet /\ BrInst(l, To(r)).id = -1
  BY InstType DEF BrInst, Inst
<1>2. QED
  BY <1>1, ReachInst DEF JumpUnlessRet

LEMMA ReachPatch ==
  ASSUME NEW b0 \in Seq(BlockSet), b0 # <<>>, NEW bs, NEW n \in Nat,
         Reaches(b0, bs, n), NEW list, ListOK(b0, list), NEW l \in LabelSet
  PROVE  /\ Reaches(b0, SetTrue(bs, list, l), n) /\ Reaches(b0, SetFalse(bs, list, l), n)
         /\ (\A b \in ToSet(list) : Closed(bs, b)) =>
              Reaches(b0, CloseJumps(bs, list, l), n)
<1>1. bs \in Seq(BlockSet) /\ bs # <<>>
  BY DEF Reaches, Grows
<1>2. ListOK(bs, list)
  BY ListOKGrows DEF Reaches
<1>3. /\ Grows(bs, SetTrue(bs, list, l)) /\ Grows(bs, SetFalse(bs, list, l))
      /\ Grows(bs, CloseJumps(bs, list, l))
  BY <1>1, <1>2, MapBackGrows
<1>4. /\ Grows(b0, SetTrue(bs, list, l)) /\ Grows(b0, SetFalse(bs, list, l))
      /\ Grows(b0, CloseJumps(bs, list, l))
  BY <1>1, <1>3, GrowsTransitive DEF Reaches
<1>5. QED
  BY <1>1, <1>2, <1>4, PatchNumbered DEF Reaches

(* The conversion of an operand to i1, which has a number only when the    *)
(* operand left a value, and was translated in the newest block then.      *)
LEMMA IcmpNumbered ==
  ASSUME TInv, Numbered(blocks, tmp_id), pc = "exprret", NEW x \in 1 .. Len(blocks),
         x = Asked(Top)
  PROVE  Reaches(blocks, AddInsts(blocks, x, IcmpInsts(val)), AfterIcmp(val))
<1>1. val # "none" => x = Len(blocks)
  BY DEF TInv, Terminated, Current
<1>2. IcmpInsts(val) \in Seq(InstSet) /\ val \in {"none", "i1", "i32"}
  BY Basics, ToBoolType
<1> DEFINE m == AfterIcmp(val) - tmp_id
<1>3. /\ m \in Nat /\ Takes(IcmpInsts(val), tmp_id, m)
      /\ AfterIcmp(val) = tmp_id + m /\ (val = "none" => ~ (m > 0))
  BY <1>2, Basics, IcmpTakes
<1> HIDE DEF m
<1>4. Numbered(AddInsts(blocks, x, IcmpInsts(val)), tmp_id + m)
  BY <1>1, <1>2, <1>3, Basics, AddInstsNumbered
<1>5. QED
  BY <1>2, <1>3, <1>4, Basics, AddInstsGrows DEF Reaches

LEMMA NextBlockNumbered ==
  ASSUME TInv, Numbered(blocks, tmp_id), pc = "exprret", NEW x \in 1 .. Len(blocks),
         x = Asked(Top), NEW r \in RoleSet
  PROVE  Numbered(AddBlock(AddInsts(blocks, x, IcmpInsts(val)), AfterIcmp(val), r),
                  AfterIcmp(val) + 1)
<1>1. Reaches(blocks, AddInsts(blocks, x, IcmpInsts(val)), AfterIcmp(val))
  BY IcmpNumbered
<1>2. AfterIcmp(val) \in Nat
  BY Basics, IcmpTakes
<1>3. QED
  BY <1>1, <1>2, Basics, ReachBlock DEF Reaches

LEMMA EmitNumbered ==
  ASSUME TInv, Numbered(blocks, tmp_id), NEW is \in Seq(InstSet), NEW m \in Nat,
         Takes(is, tmp_id, m)
  PROVE  Numbered(AddInsts(blocks, cur, is), tmp_id + m)
BY Basics, AddInstsNumbered

LEMMA JumpNumbered ==
  ASSUME TInv, Numbered(blocks, tmp_id), BreakStmt \/ ContinueStmt
  PROVE  Numbered(blocks', tmp_id')
<1>1. Loop \in Nat
  BY LoopType DEF BreakStmt, ContinueStmt, TInv
<1>2. \A p \in Parts : /\ OpenJump(Role(Loop, p)) \in InstSet
                       /\ OpenJump(Role(Loop, p)).id = -1
  BY <1>1, RoleType, InstType DEF OpenJump, Inst
<1>3. PICK i \in InstSet : i.id = -1 /\ blocks' = AddInsts(blocks, cur, <<i>>)
  BY <1>2 DEF BreakStmt, ContinueStmt, Parts
<1>4. Reaches(blocks, blocks, tmp_id)
  BY Basics, GrowsReflexive DEF Reaches
<1>5. Reaches(blocks, blocks', tmp_id)
  BY <1>3, <1>4, Basics, ReachInst
<1>6. tmp_id' = tmp_id
  BY DEF BreakStmt, ContinueStmt
<1>7. QED
  BY <1>5, <1>6 DEF Reaches

LEMMA StraightNumbered ==
  ASSUME TInv, Numbered(blocks, tmp_id), NEW n \in Nat, NEW store \in BOOLEAN,
         EmitStraight(n, store) \/ ReturnStmt(n)
  PROVE  Numbered(blocks', tmp_id')
<1>1. \E is \in Seq(InstSet) : Takes(is, tmp_id, n) /\ blocks' = AddInsts(blocks, cur, is)
  BY Basics, StraightType, StraightTakes DEF EmitStraight, ReturnStmt
<1>2. tmp_id' = tmp_id + n
  BY DEF EmitStraight, ReturnStmt
<1>3. QED
  BY <1>1, <1>2, EmitNumbered

LEMMA PlainNumbered ==
  ASSUME TInv, Numbered(blocks, tmp_id), NEW type \in {"i1", "i32"}, PlainExpr(type)
  PROVE  Numbered(blocks', tmp_id')
<1> DEFINE is == <<ValInst(tmp_id)>>
<1>1. is \in Seq(InstSet)
  BY Basics, InstType
<1>2. Takes(is, tmp_id, 1)
  <2>1. ValInst(tmp_id).id = tmp_id /\ ~IsTerminateInst(ValInst(tmp_id))
    BY DEF ValInst, Inst, IsTerminateInst
  <2>2. QED
    BY <2>1, Basics DEF Takes
<1>3. blocks' = AddInsts(blocks, cur, is) /\ tmp_id' = tmp_id + 1
  BY DEF PlainExpr
<1> HIDE DEF is
<1>4. QED
  BY <1>1, <1>2, <1>3, EmitNumbered

LEMMA NewBlockNumbered ==
  ASSUME TInv, Numbered(blocks, tmp_id), IfElse \/ \E op \in {"and", "or"} : CondOperator(op)
  PROVE  Numbered(blocks', tmp_id')
<1>1. \E r \in RoleSet : blocks' = AddBlock(blocks, tmp_id, r)
  <2>1. CASE IfElse
    <3>1. Top.node \in Nat
      BY <2>1, TopType, FrameFields DEF TInv, IfElse, At
    <3>2. Role(Top.node, "else") \in RoleSet
      BY <3>1, RoleType DEF Parts
    <3>3. QED
      BY <2>1, <3>2 DEF IfElse
  <2>2. CASE \E op \in {"and", "or"} : CondOperator(op)
    <3>1. Role(nodes + 1, "lhs") \in RoleSet
      BY Basics, RoleType DEF Parts
    <3>2. QED
      BY <2>2, <3>1 DEF CondOperator
  <2>3. QED
    BY <2>1, <2>2
<1>2. tmp_id' = tmp_id + 1
  BY DEF IfElse, CondOperator
<1>3. QED
  BY <1>1, <1>2, Basics, AddBlockNumbered

LEMMA AfterOperandNumbered ==
  ASSUME TInv, Numbered(blocks, tmp_id), IfThen \/ WhileBody \/ CondRhs
  PROVE  Numbered(blocks', tmp_id')
<1>1. /\ pc = "exprret" /\ tmp_id' = AfterIcmp(val) + 1 /\ frames # <<>>
  BY DEF IfThen, WhileBody, CondRhs, At
<1>2. Top \in FrameSet /\ FrameOK(Top, blocks)
  BY <1>1, TopType DEF TInv
<1>3. Top.node \in Nat
  BY <1>1, <1>2, FrameFields DEF IfThen, WhileBody, CondRhs, At
<1>4. \A p \in Parts : Role(Top.node, p) \in RoleSet
  BY <1>3, RoleType
<1>5. \E x \in 1 .. Len(blocks), p \in Parts :
        /\ x = Asked(Top)
        /\ blocks' = AddBlock(AddInsts(blocks, x, IcmpInsts(val)), AfterIcmp(val),
                              Role(Top.node, p))
  <2>1. CASE IfThen
    <3>1. Asked(Top) = Top.bb /\ Top.bb \in 1 .. Len(blocks)
      BY <1>2, <2>1 DEF IfThen, At, Asked, FrameOK
    <3>2. QED
      BY <2>1, <3>1 DEF IfThen, Parts
  <2>2. CASE WhileBody
    <3>1. Asked(Top) = Top.check /\ Top.check \in 1 .. Len(blocks)
      BY <1>2, <2>2 DEF WhileBody, At, Asked, FrameOK
    <3>2. QED
      BY <2>2, <3>1 DEF WhileBody, Parts
  <2>3. CASE CondRhs
    <3>1. Asked(Top) = Top.lhs /\ Top.lhs \in 1 .. Len(blocks)
      BY <1>2, <2>3 DEF CondRhs, At, Asked, FrameOK
    <3>2. QED
      BY <2>3, <3>1 DEF CondRhs, Parts
  <2>4. QED
    BY <2>1, <2>2, <2>3
<1>6. QED
  BY <1>1, <1>4, <1>5, NextBlockNumbered

LEMMA IfEndNumbered ==
  ASSUME TInv, Numbered(blocks, tmp_id), IfEnd
  PROVE  Numbered(blocks', tmp_id')
<1> DEFINE f       == Top
           n       == tmp_id + 1
           end     == Role(f.node, "end")
           thenEnd == IF f.hasElse THEN f.thenEnd ELSE cur
           onTrue  == blocks[f.then].label
           onFalse == IF f.hasElse THEN blocks[f.else].label ELSE tmp_id
           added   == AddBlock(blocks, tmp_id, end)
           joined  == JumpUnlessRet(added, thenEnd, tmp_id, end)
           joined2 == IF f.hasElse THEN JumpUnlessRet(joined, cur, tmp_id, end)
                                   ELSE joined
           test    == CondBr(onTrue, onFalse, Want)
           tested  == IF f.cond = "none" THEN joined2
                      ELSE AddInsts(joined2, f.bb, <<test>>)
           true    == SetTrue(tested, Last(true_stack), onTrue)
           patched == SetFalse(true, Last(false_stack), onFalse)
<1>1. /\ frames # <<>> /\ f.kind = "if" /\ tmp_id' = n
      /\ f.phase = "else" \/ (f.phase = "then" /\ ~f.hasElse)
  BY DEF IfEnd, At
<1>2. /\ f.bb \in 1 .. Len(blocks) /\ f.then \in 1 .. Len(blocks)
      /\ f.phase = "else" => f.thenEnd \in 1 .. Len(blocks) /\ f.else \in 1 .. Len(blocks)
      /\ f.node \in Nat /\ Want \in WantSet
  <2>1. Top \in FrameSet /\ FrameOK(Top, blocks) /\ Want \in WantSet
    BY <1>1, TopType DEF TInv
  <2>2. QED
    BY <1>1, <2>1, FrameFields DEF FrameOK
<1>3. /\ end \in RoleSet /\ To(end) \in WantSet
      /\ onTrue \in LabelSet /\ onFalse \in LabelSet /\ tmp_id \in LabelSet
  <2>1. end \in RoleSet /\ To(end) \in WantSet
    BY <1>2, RoleType DEF Parts
  <2>2. tmp_id \in LabelSet /\ onTrue \in LabelSet
    BY <1>2, Basics, BlockType DEF LabelSet
  <2>3. onFalse \in LabelSet
    BY <1>1, <1>2, <2>2, Basics, BlockType
  <2>4. QED
    BY <2>1, <2>2, <2>3
<1>4. thenEnd \in 1 .. Len(blocks) /\ cur \in 1 .. Len(blocks) /\ n \in Nat
  BY <1>1, <1>2, Basics
<1>5. ListOK(blocks, Last(true_stack)) /\ ListOK(blocks, Last(false_stack))
  BY <1>1, MirrorsReturn DEF TInv, IInv, ListKinds, Top
<1>6. blocks' = IF f.hasElse /\ f.cond # "none" THEN tested ELSE patched
  BY DEF IfEnd, patched, true, tested, joined2, joined, added, onTrue, onFalse, thenEnd, end
<1>7. test \in InstSet /\ test.id = -1
  BY <1>2, <1>3, InstType DEF CondBr, Inst
<1> HIDE DEF end, thenEnd, onTrue, onFalse, test
<1>8. Reaches(blocks, added, n)
  <2>1. Reaches(blocks, blocks, tmp_id)
    BY Basics, GrowsReflexive DEF Reaches
  <2>2. QED
    BY <1>3, <2>1, Basics, ReachBlock
<1> HIDE DEF added, n
<1>9. Reaches(blocks, joined, n)
  BY <1>3, <1>4, <1>8, Basics, ReachJump
<1> HIDE DEF joined
<1>10. Reaches(blocks, joined2, n)
  BY <1>3, <1>4, <1>9, Basics, ReachJump
<1> HIDE DEF joined2
<1>11. Reaches(blocks, tested, n)
  BY <1>2, <1>4, <1>7, <1>10, Basics, ReachInst
<1> HIDE DEF tested
<1>12. Reaches(blocks, true, n)
  BY <1>3, <1>4, <1>5, <1>11, Basics, ReachPatch
<1> HIDE DEF true
<1>13. Reaches(blocks, patched, n)
  BY <1>3, <1>4, <1>5, <1>12, Basics, ReachPatch
<1> HIDE DEF patched
<1>14. QED
  BY <1>1, <1>6, <1>11, <1>13 DEF Reaches

LEMMA WhileCallNumbered ==
  ASSUME TInv, Numbered(blocks, tmp_id), WhileTrue \/ WhileStmt
  PROVE  Numbered(blocks', tmp_id')
<1> DEFINE n     == tmp_id + 1
           check == AddBlock(blocks, tmp_id, Role(nodes + 1, "check"))
           enter == BrInst(tmp_id, To(Role(nodes + 1, "check")))
           bs    == AddInsts(check, cur, <<enter>>)
<1>1. /\ \A p \in Parts : /\ Role(nodes + 1, p) \in RoleSet
                          /\ To(Role(nodes + 1, p)) \in WantSet
      /\ tmp_id \in LabelSet /\ n \in Nat /\ "check" \in Parts /\ "body" \in Parts
  BY Basics, RoleType DEF LabelSet, Parts
<1>2. enter \in InstSet /\ enter.id = -1
  BY <1>1, InstType DEF BrInst, Inst
<1> HIDE DEF enter
<1>3. Reaches(blocks, check, n)
  <2>1. Reaches(blocks, blocks, tmp_id)
    BY Basics, GrowsReflexive DEF Reaches
  <2>2. QED
    BY <1>1, <2>1, Basics, ReachBlock
<1> HIDE DEF check, n
<1>4. Reaches(blocks, bs, n)
  BY <1>1, <1>2, <1>3, Basics, ReachInst
<1> HIDE DEF bs
<1>5. Reaches(blocks, AddBlock(bs, n, Role(nodes + 1, "body")), n + 1)
  BY <1>1, <1>4, Basics, ReachBlock
<1>6. CASE WhileTrue
  <2>1. /\ blocks' = AddBlock(bs, n, Role(nodes + 1, "body")) /\ tmp_id' = tmp_id + 2
    BY <1>6 DEF WhileTrue, bs, check, enter, n
  <2>2. tmp_id' = n + 1
    BY <2>1, Basics DEF n
  <2>3. QED
    BY <1>5, <2>1, <2>2 DEF Reaches
<1>7. CASE WhileStmt
  <2>1. blocks' = bs /\ tmp_id' = n
    BY <1>7 DEF WhileStmt, bs, check, enter, n
  <2>2. QED
    BY <1>4, <2>1 DEF Reaches
<1>8. QED
  BY <1>6, <1>7

(* The blocks of a loop's own break and continue lists are closed when the *)
(* loop ends: they are not before its check block, and what is still open  *)
(* there is the current block, the check block or before it.               *)
LEMMA ListedBlocksClosed ==
  ASSUME TInv, WhileEnd, NEW list, ListOK(blocks, list),
         \A b \in ToSet(list) : Top.check <= b
  PROVE  \A b \in ToSet(list) : Closed(Retested, b)
<1>1. /\ frames # <<>> /\ Top.kind = "while" /\ pc = "stmtret"
      /\ Top.check \in 1 .. Len(blocks) /\ frames \in Seq(FrameSet)
  BY LoopEndTypes, Basics
<1>2. /\ Extends(blocks, Retested, {}) /\ ClosedIn(Retested, {cur, Top.check})
  BY LoopEndBlocks
<1>3. Waits(Top) = {Top.check}
  BY <1>1 DEF Waits
<1>4. WaitsAny(frames) = WaitsAny(Front(frames)) \cup {Top.check}
  BY <1>1, <1>3, UnionsTop DEF Top
<1>5. ASSUME NEW b \in WaitsAny(Front(frames))
      PROVE  b < Top.check
  <2>1. PICK k \in 1 .. Len(Front(frames)) : b \in Waits(Front(frames)[k])
    BY <1>5 DEF WaitsAny
  <2>2. /\ k \in 1 .. Len(frames) /\ Len(frames) \in 1 .. Len(frames) /\ k < Len(frames)
        /\ b \in Waits(frames[k]) /\ Top = frames[Len(frames)]
    BY <1>1, <2>1, FrontIsSeq, LastIsElement DEF Top
  <2>3. Placed(frames, Len(blocks))
    BY Basics
  <2>4. QED
    BY <1>1, <2>2, <2>3 DEF Placed
<1>6. ASSUME NEW b \in ToSet(list)
      PROVE  Closed(Retested, b)
  <2>1. b \in 1 .. Len(blocks) /\ Top.check <= b
    BY DEF ListOK, ToSet
  <2>2. b \notin WaitsAny(Front(frames))
    BY <1>1, <1>5, <2>1
  <2>3. Closed(blocks, b) \/ b \in WaitsAny(frames) \cup {cur}
    BY <1>1, <2>1, Basics DEF AllClosed
  <2>4. Closed(blocks, b) \/ b \in {cur, Top.check}
    BY <1>4, <2>2, <2>3
  <2>5. QED
    BY <1>2, <2>1, <2>4 DEF Extends, ClosedIn
<1>7. QED
  BY <1>6

LEMMA WhileEndNumbered ==
  ASSUME TInv, Numbered(blocks, tmp_id), WhileEnd,
         \A b \in ToSet(Last(break_stack)) : Top.check <= b,
         \A b \in ToSet(Last(continue_stack)) : Top.check <= b
  PROVE  Numbered(blocks', tmp_id')
<1> DEFINE n     == tmp_id + 1
           true  == SetTrue(Continued, Last(true_stack), BodyLabel)
           false == SetFalse(true, Last(false_stack), tmp_id)
<1>1. /\ cur \in 1 .. Len(blocks) /\ Top.check \in 1 .. Len(blocks)
      /\ Top.node \in Nat /\ Want \in WantSet
      /\ CheckLabel \in LabelSet /\ BodyLabel \in LabelSet /\ tmp_id \in LabelSet
      /\ ListOK(blocks, Last(true_stack)) /\ ListOK(blocks, Last(false_stack))
      /\ ListOK(blocks, Last(break_stack)) /\ ListOK(blocks, Last(continue_stack))
  BY LoopEndTypes
<1>2. /\ Role(Top.node, "end") \in RoleSet /\ To(Role(Top.node, "check")) \in WantSet
      /\ To(Role(Top.node, "body")) \in WantSet
  BY LoopEndTypes
<1>3. n \in Nat /\ tmp_id' = n
  BY Basics DEF WhileEnd
<1>4. blocks' = false
  BY LoopEndTypes
<1>5. Reaches(blocks, Looped, tmp_id)
  <2>1. Reaches(blocks, blocks, tmp_id)
    BY Basics, GrowsReflexive DEF Reaches
  <2>2. QED
    BY <1>1, <1>2, <2>1, Basics, ReachJump DEF Looped
<1>6. Reaches(blocks, WithEnd, n)
  BY <1>1, <1>2, <1>5, Basics, ReachBlock DEF WithEnd
<1> HIDE DEF n
<1>7. Reaches(blocks, Retested, n)
  <2> DEFINE always == BrInst(BodyLabel, To(Role(Top.node, "body")))
             test   == CondBr(BodyLabel, tmp_id, Want)
  <2>1. /\ always \in InstSet /\ test \in InstSet /\ always.id = -1 /\ test.id = -1
    BY <1>1, <1>2, InstType DEF BrInst, CondBr, Inst
  <2>2. \/ Retested = WithEnd
        \/ Retested = AddInsts(WithEnd, Top.check, <<always>>)
        \/ Retested = AddInsts(WithEnd, Top.check, <<test>>)
    BY Zenon DEF Retested
  <2> HIDE DEF always, test
  <2>3. /\ Reaches(blocks, AddInsts(WithEnd, Top.check, <<always>>), n)
        /\ Reaches(blocks, AddInsts(WithEnd, Top.check, <<test>>), n)
    BY <1>1, <1>3, <1>6, <2>1, Basics, ReachInst
  <2>4. QED
    BY <1>6, <2>2, <2>3
<1>8. Reaches(blocks, Broken, n)
  <2>1. \A b \in ToSet(Last(break_stack)) : Closed(Retested, b)
    BY <1>1, ListedBlocksClosed
  <2>2. QED
    BY <1>1, <1>3, <1>7, <2>1, Basics, ReachPatch DEF Broken
<1>9. Reaches(blocks, Continued, n)
  <2>1. \A b \in ToSet(Last(continue_stack)) : Closed(Retested, b)
    BY <1>1, ListedBlocksClosed
  <2>2. Retested \in Seq(BlockSet) /\ Grows(blocks, Retested)
    BY LoopEndBlocks DEF Extends
  <2>3. ListOK(Retested, Last(break_stack))
    BY <1>1, <2>2, Basics, ListOKGrows
  <2>4. Extends(Retested, Broken, {})
    BY <1>1, <2>2, <2>3, PatchExtends DEF Broken
  <2>5. \A b \in ToSet(Last(continue_stack)) : b \in 1 .. Len(Retested)
    <3>1. ListOK(Retested, Last(continue_stack))
      BY <1>1, <2>2, Basics, ListOKGrows
    <3>2. QED
      BY <3>1 DEF ListOK, ToSet
  <2>6. \A b \in ToSet(Last(continue_stack)) : Closed(Broken, b)
    BY <2>1, <2>4, <2>5 DEF Extends
  <2>7. QED
    BY <1>1, <1>3, <1>8, <2>6, Basics, ReachPatch DEF Continued
<1>10. Reaches(blocks, true, n)
  BY <1>1, <1>3, <1>9, Basics, ReachPatch
<1> HIDE DEF true
<1>11. Reaches(blocks, false, n)
  BY <1>1, <1>3, <1>10, Basics, ReachPatch
<1>12. QED
  BY <1>3, <1>4, <1>11 DEF Reaches

LEMMA CondEndNumbered ==
  ASSUME TInv, Numbered(blocks, tmp_id), CondEnd
  PROVE  Numbered(blocks', tmp_id')
<1> DEFINE f      == Top
           n      == AfterIcmp(val)
           l      == blocks[f.rhs].label
           icmp   == AddInsts(blocks, f.rhs, IcmpInsts(val))
           jump   == BrInst(blocks[f.lhs].label, To(Role(f.node, "lhs")))
           enter  == AddInsts(icmp, f.bb, <<jump>>)
           test   == CondBr(l, l, LhsWant(f))
           test2  == CondBr(l, l, f.want)
           linked == LinkLhs(enter, f, l)
           linked2 == LinkRhs(linked, f, val, l)
<1>1. /\ frames # <<>> /\ f.kind = "cond" /\ f.phase = "rhs" /\ pc = "exprret"
      /\ tmp_id' = n
  BY DEF CondEnd, At
<1>2. f \in FrameSet /\ FrameOK(f, blocks)
  BY <1>1, TopType DEF TInv
<1>3. /\ f.rhs \in 1 .. Len(blocks) /\ f.lhs \in 1 .. Len(blocks)
      /\ f.bb \in 1 .. Len(blocks) /\ f.node \in Nat /\ f.want \in WantSet
      /\ ListOK(blocks, f.lhs_true) /\ ListOK(blocks, f.lhs_false)
      /\ f.rhs = Asked(f)
  BY <1>1, <1>2, FrameFields DEF FrameOK, Asked
<1>4. /\ l \in LabelSet /\ blocks[f.lhs].label \in LabelSet
      /\ To(Role(f.node, "lhs")) \in WantSet /\ Role(f.node, "rhs") \in RoleSet
  BY <1>3, Basics, BlockType, RoleType DEF Parts
<1>5. LhsWant(f) \in WantSet
  <2>1. f.want.t \in RoleSet /\ f.want.f \in RoleSet
    BY <1>3 DEF WantSet
  <2>2. QED
    BY <1>4, <2>1 DEF LhsWant, WantSet
<1>6. /\ jump \in InstSet /\ test \in InstSet /\ test2 \in InstSet
      /\ jump.id = -1 /\ test.id = -1 /\ test2.id = -1
  BY <1>3, <1>4, <1>5, InstType DEF BrInst, CondBr, Inst
<1>7. n \in Nat /\ Reaches(blocks, icmp, n)
  BY <1>1, <1>3, Basics, IcmpNumbered, IcmpTakes
<1>8. \/ linked = AddInsts(enter, f.lhs, <<test>>)
      \/ linked = SetTrue(enter, f.lhs_true, l)
      \/ linked = SetFalse(enter, f.lhs_false, l)
  BY Zenon DEF LinkLhs
<1>9. \/ linked2 = linked
      \/ linked2 = AddInsts(linked, f.rhs, <<test2>>)
  BY DEF LinkRhs
<1>10. blocks' = linked2
  BY Zenon DEF CondEnd
<1> HIDE DEF icmp, jump, test, test2, n, l
<1>11. Reaches(blocks, enter, n)
  BY <1>3, <1>6, <1>7, Basics, ReachInst
<1> HIDE DEF enter, linked, linked2
<1>12. Reaches(blocks, linked, n)
  <2>1. /\ Reaches(blocks, AddInsts(enter, f.lhs, <<test>>), n)
        /\ Reaches(blocks, SetTrue(enter, f.lhs_true, l), n)
        /\ Reaches(blocks, SetFalse(enter, f.lhs_false, l), n)
    BY <1>3, <1>4, <1>6, <1>7, <1>11, Basics, ReachInst, ReachPatch
  <2>2. QED
    BY <1>8, <2>1
<1>13. Reaches(blocks, linked2, n)
  <2>1. Reaches(blocks, AddInsts(linked, f.rhs, <<test2>>), n)
    BY <1>3, <1>6, <1>7, <1>12, Basics, ReachInst
  <2>2. QED
    BY <1>9, <1>12, <2>1
<1>14. QED
  BY <1>1, <1>10, <1>13 DEF Reaches

LEMMA FunctionEndNumbered ==
  ASSUME TInv, Numbered(blocks, tmp_id), FunctionEnd
  PROVE  Numbered(blocks', tmp_id')
<1>1. RetInst \in InstSet /\ RetInst.id = -1
  BY InstType DEF RetInst, Inst
<1>2. Reaches(blocks, blocks, tmp_id)
  BY Basics, GrowsReflexive DEF Reaches
<1>3. Reaches(blocks, AddInsts(blocks, cur, <<RetInst>>), tmp_id)
  BY <1>1, <1>2, Basics, ReachInst
<1>4. QED
  BY <1>2, <1>3 DEF FunctionEnd, Reaches

-----------------------------------------------------------------------------
(* Every action keeps the lists of the loops apart.                        *)

LEMMA LoopStacks ==
  ASSUME NInv
  PROVE  /\ LoopStack(frames, break_stack) /\ LoopStack(frames, continue_stack)
         /\ frames \in Seq(FrameSet) /\ Len(frames) \in Nat
         /\ \A k \in 1 .. Len(frames) :
              frames[k].kind = "while" => frames[k].check \in 1 .. Len(blocks)
         /\ TInv /\ Numbered(blocks, tmp_id)
<1>1. /\ LoopStack(frames, break_stack) /\ LoopStack(frames, continue_stack)
  BY DEF NInv, TInv, IInv, TypeOK, Mirrors, LoopStack
<1>2. \A k \in 1 .. Len(frames) : FrameOK(frames[k], blocks)
  BY DEF NInv, TInv, IInv, Mirrors, FramesOK
<1>3. TInv
  BY DEF NInv
<1>4. QED
  BY <1>1, <1>2, <1>3, Basics DEF NInv, FrameOK

LEMMA JumpLoopLists ==
  ASSUME NInv, BreakStmt \/ ContinueStmt
  PROVE  LoopLists(frames, break_stack') /\ LoopLists(frames, continue_stack')
<1>1. \A k \in 1 .. Len(frames) : frames[k].kind = "while" => frames[k].check <= cur
  BY LoopStacks, Basics
<1>2. cur \in Nat
  BY LoopStacks, Basics
<1>3. break_stack # <<>> /\ continue_stack # <<>>
  <2>1. PICK k \in 1 .. Len(frames) : frames[k].kind = "while"
    BY LoopStacks DEF BreakStmt, ContinueStmt, Loops
  <2>2. Level(frames, k, LoopKinds) \in 1 .. DepthOf(frames, LoopKinds)
    BY <2>1, LoopStacks, LoopLevel
  <2>3. QED
    BY <2>2, LoopStacks DEF LoopStack
<1>4. /\ LoopLists(frames, AddTop(break_stack, <<cur>>))
      /\ LoopLists(frames, AddTop(continue_stack, <<cur>>))
  BY <1>1, <1>2, <1>3, LoopStacks, LoopListsAddTop
<1>5. QED
  BY <1>4, LoopStacks DEF BreakStmt, ContinueStmt, LoopStack

LEMMA NextLoopLists ==
  ASSUME NInv, Next
  PROVE  LoopLists(frames', break_stack') /\ LoopLists(frames', continue_stack')
<1> DEFINE Same == UNCHANGED <<break_stack, continue_stack>>
           Push2 == /\ break_stack' = Push(break_stack)
                    /\ continue_stack' = Push(continue_stack)
<1>1. CASE BreakStmt \/ ContinueStmt
  <2>1. frames' = frames
    BY <1>1 DEF BreakStmt, ContinueStmt
  <2>2. QED
    BY <1>1, <2>1, JumpLoopLists
<1>2. CASE frames' = frames /\ Same
  BY <1>2, LoopStacks DEF LoopStack
<1>3. CASE Same /\ \E f \in FrameSet : f.kind # "while" /\ frames' = Append(frames, f)
  BY <1>3, LoopStacks, LoopListsPush
<1>4. CASE Push2 /\ \E f \in FrameSet : f.kind = "while" /\ frames' = Append(frames, f)
  BY <1>4, LoopStacks, LoopListsPush
<1>5. CASE /\ Same /\ frames # <<>>
           /\ \E f \in FrameSet : /\ f.kind = Top.kind /\ frames' = SetTop(f)
                                  /\ f.kind = "while" => f.check = Top.check
  BY <1>5, LoopStacks, LoopListsSetTop DEF SetTop, Top, LoopStack
<1>6. CASE Same /\ frames # <<>> /\ Top.kind # "while" /\ frames' = Front(frames)
  BY <1>6, LoopStacks, LoopListsPop DEF Top
<1>7. CASE WhileEnd
  <2>1. /\ frames # <<>> /\ Last(frames).kind = "while" /\ frames' = Front(frames)
        /\ break_stack' = Front(break_stack) /\ continue_stack' = Front(continue_stack)
    BY <1>7 DEF WhileEnd, At, Top
  <2>2. QED
    BY <2>1, LoopStacks, LoopListsPop
<1> HIDE DEF Same, Push2
<1>8. CASE CompoundStmt \/ (\E hasElse \in BOOLEAN : IfStmt(hasElse))
           \/ (\E op \in {"and", "or"} : CondOperator(op))
  <2>1. TInv /\ nodes + 1 \in Nat /\ cur \in Nat /\ New \in Nat /\ 0 \in Nat
        /\ "none" \in CondVals /\ <<>> \in Seq(Nat)
    BY LoopStacks, Basics DEF CondVals
  <2>2. CASE CompoundStmt
    BY <1>3, <2>2, FrameType DEF CompoundStmt, Same, stacks
  <2>3. CASE \E hasElse \in BOOLEAN : IfStmt(hasElse)
    <3>1. PICK hasElse \in BOOLEAN : IfStmt(hasElse)
      BY <2>3
    <3> DEFINE f == IfFrame("cond", nodes + 1, cur, hasElse, "none", 0, 0, 0)
    <3>2. f \in FrameSet /\ f.kind = "if"
      <4>1. f \in FrameSet
        BY <2>1, FrameType
      <4>2. QED
        BY <4>1 DEF IfFrame
    <3>3. frames' = Append(frames, f) /\ Same
      BY <3>1 DEF IfStmt, Same
    <3> HIDE DEF f
    <3>4. QED
      BY <1>3, <3>2, <3>3
  <2>4. CASE \E op \in {"and", "or"} : CondOperator(op)
    <3>1. PICK op \in {"and", "or"} : CondOperator(op)
      BY <2>4
    <3> DEFINE f == CondFrame(op, "lhs", nodes + 1, cur, New, 0, "none", Want, <<>>, <<>>)
    <3>2. Want \in WantSet
      <4>1. frames # <<>> /\ Awaits(Top)
        BY <2>1, <3>1 DEF TInv, IInv, ExprCalls, CondOperator, Expr
      <4>2. QED
        BY <2>1, <4>1, TopType DEF TInv, Awaits
    <3>3. f \in FrameSet /\ f.kind = "cond"
      <4>1. f \in FrameSet
        BY <2>1, <3>2, FrameType
      <4>2. QED
        BY <4>1 DEF CondFrame
    <3>4. frames' = Append(frames, f) /\ Same
      BY <3>1 DEF CondOperator, Same
    <3> HIDE DEF f
    <3>5. QED
      BY <1>3, <3>3, <3>4
  <2>5. QED
    BY <1>8, <2>2, <2>3, <2>4
<1>9. CASE WhileTrue \/ WhileStmt
  <2>1. TInv /\ nodes + 1 \in Nat /\ New \in Nat /\ New + 1 \in Nat /\ 0 \in Nat
        /\ "none" \in CondVals
    BY LoopStacks, Basics DEF CondVals
  <2> DEFINE f == WhileFrame("body", nodes + 1, New, TRUE, "none", New + 1)
             g == WhileFrame("cond", nodes + 1, New, FALSE, "none", 0)
  <2>2. f \in FrameSet /\ g \in FrameSet
    BY <2>1, FrameType
  <2>3. f.kind = "while" /\ g.kind = "while"
    BY DEF WhileFrame
  <2>4. (frames' = Append(frames, f) \/ frames' = Append(frames, g)) /\ Push2
    BY <1>9 DEF WhileTrue, WhileStmt, Push2
  <2> HIDE DEF f, g
  <2>5. QED
    BY <1>4, <2>2, <2>3, <2>4
<1>10. CASE IfThen \/ IfElse \/ WhileBody \/ CondRhs
  <2>1. TInv /\ frames # <<>> /\ Top \in FrameSet /\ Same
    <3>1. TInv /\ frames # <<>> /\ Same
      BY <1>10, LoopStacks DEF IfThen, IfElse, WhileBody, CondRhs, At, Same, stacks
    <3>2. QED
      BY <3>1, TopType DEF TInv
  <2>2. \E f \in FrameSet : /\ f.kind = Top.kind /\ frames' = SetTop(f)
                            /\ f.kind = "while" => f.check = Top.check
    <3>1. /\ New \in Nat /\ cur \in Nat /\ 0 \in Nat /\ ToBool(val) \in CondVals
      BY <2>1, Basics, ToBoolType
    <3>2. CASE IfThen
      <4> DEFINE f == IfFrame("then", Top.node, Top.bb, Top.hasElse, ToBool(val), New, 0, 0)
      <4>1. /\ Top.kind = "if" /\ Top.node \in Nat /\ Top.bb \in Nat
            /\ Top.hasElse \in BOOLEAN
        BY <2>1, <3>2, FrameFields DEF IfThen, At
      <4>2. f \in FrameSet
        BY <3>1, <4>1, FrameType
      <4>3. f.kind = "if"
        BY DEF IfFrame
      <4>4. frames' = SetTop(f)
        BY <3>2 DEF IfThen
      <4> HIDE DEF f
      <4>5. QED
        BY <4>1, <4>2, <4>3, <4>4
    <3>3. CASE IfElse
      <4> DEFINE f == IfFrame("else", Top.node, Top.bb, Top.hasElse, Top.cond,
                              Top.then, cur, New)
      <4>1. /\ Top.kind = "if" /\ Top.node \in Nat /\ Top.bb \in Nat
            /\ Top.hasElse \in BOOLEAN /\ Top.cond \in CondVals /\ Top.then \in Nat
        BY <2>1, <3>3, FrameFields DEF IfElse, At
      <4>2. f \in FrameSet
        BY <3>1, <4>1, FrameType
      <4>3. f.kind = "if"
        BY DEF IfFrame
      <4>4. frames' = SetTop(f)
        BY <3>3 DEF IfElse
      <4> HIDE DEF f
      <4>5. QED
        BY <4>1, <4>2, <4>3, <4>4
    <3>4. CASE WhileBody
      <4> DEFINE f == WhileFrame("body", Top.node, Top.check, Top.const, ToBool(val), New)
      <4>1. /\ Top.kind = "while" /\ Top.node \in Nat /\ Top.check \in Nat
            /\ Top.const \in BOOLEAN
        BY <2>1, <3>4, FrameFields DEF WhileBody, At
      <4>2. f \in FrameSet
        BY <3>1, <4>1, FrameType
      <4>3. f.kind = "while" /\ f.check = Top.check
        BY DEF WhileFrame
      <4>4. frames' = SetTop(f)
        BY <3>4 DEF WhileBody
      <4> HIDE DEF f
      <4>5. QED
        BY <4>1, <4>2, <4>3, <4>4
    <3>5. CASE CondRhs
      <4> DEFINE f == CondFrame(Top.op, "rhs", Top.node, Top.bb, Top.lhs, New, ToBool(val),
                                Top.want, Last(true_stack), Last(false_stack))
      <4>1. /\ Top.kind = "cond" /\ Top.op \in {"and", "or"} /\ Top.node \in Nat
            /\ Top.bb \in Nat /\ Top.lhs \in Nat /\ Top.want \in WantSet
        BY <2>1, <3>5, FrameFields DEF CondRhs, At
      <4>2. Last(true_stack) \in Seq(Nat) /\ Last(false_stack) \in Seq(Nat)
        <5>1. true_stack # <<>> /\ false_stack # <<>>
          BY <2>1, <4>1, MirrorsReturn DEF TInv, IInv, ListKinds, Top
        <5>2. QED
          BY <2>1, <5>1, LastIsElement DEF TInv, IInv, TypeOK
      <4>3. f \in FrameSet
        BY <3>1, <4>1, <4>2, FrameType
      <4>4. f.kind = "cond"
        BY DEF CondFrame
      <4>5. frames' = SetTop(f)
        BY <3>5 DEF CondRhs
      <4> HIDE DEF f
      <4>6. QED
        BY <4>1, <4>3, <4>4, <4>5
    <3>6. QED
      BY <1>10, <3>2, <3>3, <3>4, <3>5
  <2>3. QED
    BY <1>5, <2>1, <2>2
<1>11. CASE CompoundEnd \/ IfEnd \/ CondEnd
  <2>1. Same /\ frames # <<>> /\ Top.kind # "while" /\ frames' = Front(frames)
    BY <1>11 DEF CompoundEnd, IfEnd, CondEnd, TopIsSeq, At, PopIf, Same, stacks
  <2>2. QED
    BY <1>6, <2>1
<1>12. CASE \/ NullStmt \/ NextStmt \/ (\E absent \in BOOLEAN : IfConst(absent))
            \/ WhileFalse \/ CondDecided \/ CondNeutral \/ FunctionEnd \/ Finished
            \/ (\E n \in StmtVals, init \in BOOLEAN : DeclStmt(n, init))
            \/ (\E n \in StmtVals : AssignStmt(n))
            \/ (\E n \in StmtVals, int \in BOOLEAN : CallStmt(n, int))
            \/ (\E n \in StmtVals : ReturnStmt(n))
            \/ (\E type \in {"i1", "i32"} : PlainExpr(type))
  <2>1. frames' = frames /\ Same
    BY <1>12 DEF NullStmt, NextStmt, IfConst, WhileFalse, CondDecided, CondNeutral,
         FunctionEnd, Finished, DeclStmt, AssignStmt, CallStmt, EmitStraight,
         ReturnStmt, PlainExpr, Same, stacks, vars
  <2>2. QED
    BY <1>2, <2>1
<1>13. QED
  BY <1>1, <1>7, <1>8, <1>9, <1>10, <1>11, <1>12 DEF Next

-----------------------------------------------------------------------------
(* The invariant with the numbers.                                         *)

LEMMA NextNumbered ==
  ASSUME NInv, Next
  PROVE  Numbered(blocks', tmp_id')
<1> USE StmtValsAssumption
<1>1. TInv /\ Numbered(blocks, tmp_id)
  BY LoopStacks
<1>2. CASE /\ blocks' = blocks /\ tmp_id' = tmp_id
  BY <1>1, <1>2
<1>3. CASE \/ NullStmt \/ NextStmt \/ (\E absent \in BOOLEAN : IfConst(absent))
           \/ WhileFalse \/ CondDecided \/ CondNeutral \/ CompoundStmt \/ CompoundEnd
           \/ (\E hasElse \in BOOLEAN : IfStmt(hasElse)) \/ Finished
  BY <1>2, <1>3 DEF NullStmt, NextStmt, IfConst, WhileFalse, CondDecided, CondNeutral,
       CompoundStmt, CompoundEnd, IfStmt, Finished, vars
<1>4. CASE \/ (\E n \in StmtVals, init \in BOOLEAN : DeclStmt(n, init))
           \/ (\E n \in StmtVals : AssignStmt(n))
           \/ (\E n \in StmtVals, int \in BOOLEAN : CallStmt(n, int))
           \/ (\E n \in StmtVals : ReturnStmt(n))
  <2>1. \E n \in Nat, store \in BOOLEAN : EmitStraight(n, store) \/ ReturnStmt(n)
    <3>1. CASE \E n \in StmtVals, init \in BOOLEAN : DeclStmt(n, init)
      <4>1. PICK n \in StmtVals, init \in BOOLEAN : DeclStmt(n, init)
        BY <3>1
      <4>2. n + 1 \in Nat /\ 1 \in Nat
        OBVIOUS
      <4>3. EmitStraight(n + 1, init) \/ EmitStraight(1, init)
        BY <4>1 DEF DeclStmt
      <4>4. QED
        BY <4>2, <4>3
    <3>2. CASE \E n \in StmtVals : AssignStmt(n) \/ ReturnStmt(n)
      BY <3>2 DEF AssignStmt
    <3>3. CASE \E n \in StmtVals, int \in BOOLEAN : CallStmt(n, int)
      <4>1. PICK n \in StmtVals, int \in BOOLEAN : CallStmt(n, int)
        BY <3>3
      <4>2. n \in Nat /\ n + 1 \in Nat /\ (~int) \in BOOLEAN
        OBVIOUS
      <4>3. EmitStraight(n + 1, ~int) \/ EmitStraight(n, ~int)
        BY <4>1 DEF CallStmt
      <4>4. QED
        BY <4>2, <4>3
    <3>4. QED
      BY <1>4, <3>1, <3>2, <3>3
  <2>2. QED
    BY <1>1, <2>1, StraightNumbered
<1>5. CASE BreakStmt \/ ContinueStmt
  BY <1>1, <1>5, JumpNumbered
<1>6. CASE IfElse \/ (\E op \in {"and", "or"} : CondOperator(op))
  BY <1>1, <1>6, NewBlockNumbered
<1>7. CASE IfThen \/ WhileBody \/ CondRhs
  BY <1>1, <1>7, AfterOperandNumbered
<1>8. CASE IfEnd \/ CondEnd \/ FunctionEnd
  BY <1>1, <1>8, IfEndNumbered, CondEndNumbered, FunctionEndNumbered
<1>9. CASE WhileTrue \/ WhileStmt
  BY <1>1, <1>9, WhileCallNumbered
<1>10. CASE WhileEnd
  <2>1. frames # <<>> /\ Last(frames).kind = "while"
    BY <1>10 DEF WhileEnd, At, Top
  <2>2. /\ \A b \in ToSet(Last(break_stack)) : Last(frames).check <= b
        /\ \A b \in ToSet(Last(continue_stack)) : Last(frames).check <= b
    BY <2>1, LoopStacks, LoopListsPop
  <2>3. QED
    BY <1>1, <1>10, <2>2, WhileEndNumbered DEF Top
<1>11. CASE \E type \in {"i1", "i32"} : PlainExpr(type)
  BY <1>1, <1>11, PlainNumbered
<1>12. QED
  BY <1>3, <1>4, <1>5, <1>6, <1>7, <1>8, <1>9, <1>10, <1>11 DEF Next

LEMMA InitNInv == Init => NInv
<1> SUFFICES ASSUME Init
             PROVE  /\ LoopLists(frames, break_stack) /\ LoopLists(frames, continue_stack)
                    /\ Numbered(blocks, tmp_id)
  BY InitTInv DEF NInv
<1>1. LoopLists(frames, break_stack) /\ LoopLists(frames, continue_stack)
  BY FrameType DEF Init, LoopLists
<1>2. NumParams \in Nat /\ tmp_id = 2 * NumParams /\ Len(blocks) = 1
  BY NumParamsAssumption DEF Init
<1>3. /\ blocks[1].label = -1 /\ blocks[1].insts = ParamSpills
  BY DEF Init, Block, EntryLabel
<1>4. /\ Len(ParamSpills) = 2 * NumParams
      /\ \A k \in 1 .. 2 * NumParams :
           ParamSpills[k].id = IF k % 2 = 1 THEN NumParams + k \div 2 ELSE -1
      /\ \A k \in 1 .. 2 * NumParams : ~IsTerminateInst(ParamSpills[k])
  <2>1. Len(ParamSpills) = 2 * NumParams
    <3>1. 2 * NumParams \in Nat
      BY <1>2
    <3>2. \A k \in 1 .. 2 * NumParams : NumParams + k \div 2 \in Nat
      BY <1>2
    <3>3. \A k \in 1 .. 2 * NumParams :
            (IF k % 2 = 1 THEN ValInst(NumParams + k \div 2) ELSE StoreInst) \in InstSet
      BY <3>2, InstType
    <3>4. ParamSpills \in [1 .. 2 * NumParams -> InstSet]
      BY <3>3 DEF ParamSpills
    <3>5. QED
      BY <3>1, <3>4
  <2>2. \A k \in 1 .. 2 * NumParams :
          ParamSpills[k] = IF k % 2 = 1 THEN ValInst(NumParams + k \div 2) ELSE StoreInst
    BY <1>2 DEF ParamSpills
  <2>3. \A i : ValInst(i).id = i /\ ~IsTerminateInst(ValInst(i))
    BY DEF ValInst, Inst, IsTerminateInst
  <2>4. StoreInst.id = -1 /\ ~IsTerminateInst(StoreInst)
    BY DEF StoreInst, Inst, IsTerminateInst
  <2>5. QED
    BY <2>1, <2>2, <2>3, <2>4
<1> DEFINE N == NumParams
<1> HIDE DEF N
<1>5. ASSUME NEW i \in 0 .. Len(blocks[1].insts)
      PROVE  /\ Id(blocks, 1, i) >= 0 <=> i % 2 = 1
             /\ i % 2 = 1 => /\ Id(blocks, 1, i) = NumParams + i \div 2
                             /\ i = 2 * (i \div 2) + 1
  <2>1. i \in 0 .. 2 * NumParams /\ i \in Nat
    BY <1>2, <1>3, <1>4
  <2>2. /\ i \div 2 \in Nat /\ i % 2 \in {0, 1} /\ i = 2 * (i \div 2) + (i % 2)
    BY <2>1
  <2>3. CASE i = 0
    <3>1. Id(blocks, 1, i) = -1
      BY <1>3, <2>3 DEF Id
    <3>2. QED
      BY <3>1, <2>3
  <2>4. CASE i # 0
    <3>1. i \in 1 .. 2 * NumParams
      BY <1>2, <2>1, <2>4
    <3>2. Id(blocks, 1, i) = IF i % 2 = 1 THEN NumParams + i \div 2 ELSE -1
      BY <3>1, <2>4, <1>3, <1>4 DEF Id
    <3>3. CASE i % 2 = 1
      <4>1. Id(blocks, 1, i) = NumParams + i \div 2
        BY <3>2, <3>3
      <4> DEFINE p == i \div 2
      <4>2. p \in Nat /\ i = 2 * p + 1
        BY <2>2, <3>3
      <4> HIDE DEF p
      <4>3. NumParams + p >= 0
        BY <1>2, <4>2
      <4>4. QED
        BY <3>3, <4>1, <4>2, <4>3 DEF p
    <3>4. CASE i % 2 # 1
      BY <3>2, <3>4
    <3>5. QED
      BY <3>3, <3>4
  <2>5. QED
    BY <2>3, <2>4
<1>6. ASSUME NEW i \in 0 .. Len(blocks[1].insts), Id(blocks, 1, i) >= 0
      PROVE  Id(blocks, 1, i) \in NumParams .. tmp_id - 1
  <2> DEFINE p == i \div 2
  <2>1. i % 2 = 1
    BY <1>5, <1>6
  <2>2. Id(blocks, 1, i) = NumParams + p /\ i = 2 * p + 1
    BY <1>5, <2>1
  <2>3. i \in 0 .. 2 * NumParams
    BY <1>2, <1>3, <1>4
  <2>4. p \in Nat
    BY <2>3, <1>2
  <2> HIDE DEF p
  <2>5. NumParams + p \in NumParams .. 2 * NumParams - 1
    BY <1>2, <2>2, <2>3, <2>4
  <2>6. QED
    BY <1>2, <2>2, <2>5
<1>7. ASSUME NEW x \in NumParams .. tmp_id - 1
      PROVE  \E i \in 0 .. Len(blocks[1].insts) : Id(blocks, 1, i) = x
  <2> DEFINE i == 2 * (x - NumParams) + 1
  <2>1. i \in 0 .. Len(blocks[1].insts) /\ i % 2 = 1 /\ NumParams + i \div 2 = x
    BY <1>2, <1>3, <1>4
  <2> HIDE DEF i
  <2>2. Id(blocks, 1, i) = x
    BY <1>5, <2>1
  <2>3. QED
    BY <2>1, <2>2
<1>8. ASSUME NEW i \in 0 .. Len(blocks[1].insts), NEW j \in 0 .. Len(blocks[1].insts),
             i < j, Id(blocks, 1, i) >= 0, Id(blocks, 1, j) >= 0
      PROVE  Id(blocks, 1, i) < Id(blocks, 1, j)
  <2>1. i % 2 = 1 /\ j % 2 = 1
    BY <1>5, <1>8
  <2>2. i = 2 * (i \div 2) + 1 /\ j = 2 * (j \div 2) + 1
    BY <1>5, <2>1
  <2>3. Id(blocks, 1, i) = NumParams + i \div 2 /\ Id(blocks, 1, j) = NumParams + j \div 2
    BY <1>5, <2>1
  <2>4. i \div 2 \in Int /\ j \div 2 \in Int
    BY <1>2, <1>3, <1>4
  <2> DEFINE p == i \div 2
             q == j \div 2
  <2> HIDE DEF p, q
  <2>5. p < q
    BY <1>8, <2>2, <2>4 DEF p, q
  <2>6. QED
    BY <1>2, <2>3, <2>4, <2>5 DEF p, q
<1>9. \A i \in 1 .. Len(blocks[1].insts) : ~IsTerminateInst(blocks[1].insts[i])
  BY <1>3, <1>4
<1>10. NumParams <= tmp_id
  BY <1>2
<1>11. \A b \in 1 .. Len(blocks) : b = 1
  BY <1>2
<1>12. Numbered(blocks, tmp_id)
  BY <1>6, <1>7, <1>8, <1>9, <1>10, <1>11, <1>2 DEF Numbered
<1>13. QED
  BY <1>1, <1>12

LEMMA NextNInv == NInv /\ [Next]_vars => NInv'
<1>1. ASSUME NInv, UNCHANGED vars PROVE NInv'
  <2>1. TInv'
    BY <1>1, NextTInv DEF NInv
  <2>2. /\ blocks' = blocks /\ tmp_id' = tmp_id /\ frames' = frames
        /\ break_stack' = break_stack /\ continue_stack' = continue_stack
    BY <1>1 DEF vars, stacks
  <2>3. QED
    BY <1>1, <2>1, <2>2 DEF NInv
<1>2. ASSUME NInv, Next PROVE NInv'
  <2>1. TInv'
    BY <1>2, NextTInv DEF NInv
  <2>2. QED
    BY <1>2, <2>1, NextLoopLists, NextNumbered DEF NInv
<1>3. QED
  BY <1>1, <1>2

LEMMA NumberedInvariance == Spec => []NInv
BY InitNInv, NextNInv, PTL DEF Spec

(* Whatever the program, the parameters, temporaries and labels before the *)
(* first code that follows a terminator in its block are numbered as the   *)
(* IR wants it, without gaps in textual order, after every step of the     *)
(* translator, although the blocks of a condition are filled, patched and  *)
(* repaired out of order (ast_to_ir.cc: tmp_id).                           *)
THEOREM NumbersInOrder == Spec => []Numbering
<1>1. NInv => Numbering
  <2> SUFFICES ASSUME NInv PROVE Numbering
    OBVIOUS
  <2>1. /\ blocks \in Seq(BlockSet) /\ Numbered(blocks, tmp_id)
    BY LoopStacks, Basics
  <2>2. /\ \A p \in Positions : \E b \in 1 .. Len(blocks) :
             \E i \in 0 .. Len(blocks[b].insts) : p = <<b, i>>
        /\ \A b \in 1 .. Len(blocks) : \A i \in 0 .. Len(blocks[b].insts) :
             <<b, i>> \in Positions /\ IdAt(<<b, i>>) = Id(blocks, b, i)
    <3>1. DOMAIN blocks = 1 .. Len(blocks)
      BY <2>1
    <3>2. QED
      BY <3>1 DEF Positions, IdAt, Id
  <2>3. \A p \in Positions : p[1] \in Int /\ p[2] \in Int /\ p = <<p[1], p[2]>>
    <3>1. SUFFICES ASSUME NEW p \in Positions
                   PROVE  p[1] \in Int /\ p[2] \in Int /\ p = <<p[1], p[2]>>
      OBVIOUS
    <3>2. PICK b \in 1 .. Len(blocks) : \E i \in 0 .. Len(blocks[b].insts) : p = <<b, i>>
      BY <2>2
    <3>3. PICK i \in 0 .. Len(blocks[b].insts) : p = <<b, i>>
      BY <3>2
    <3>4. QED
      BY <3>3
  <2>4. ASSUME NEW p \in Positions, NEW q \in Positions, IdAt(p) >= 0, IdAt(q) >= 0, Before(p, q)
        PROVE  IdAt(p) < IdAt(q)
    <3>1. PICK b \in 1 .. Len(blocks) : \E i \in 0 .. Len(blocks[b].insts) : p = <<b, i>>
      BY <2>2
    <3>2. PICK i \in 0 .. Len(blocks[b].insts) : p = <<b, i>>
      BY <3>1
    <3>3. PICK c \in 1 .. Len(blocks) : \E j \in 0 .. Len(blocks[c].insts) : q = <<c, j>>
      BY <2>2
    <3>4. PICK j \in 0 .. Len(blocks[c].insts) : q = <<c, j>>
      BY <3>3
    <3>5. /\ IdAt(p) = Id(blocks, b, i) /\ IdAt(p) >= 0
          /\ IdAt(q) = Id(blocks, c, j) /\ IdAt(q) >= 0
      BY <2>2, <2>4, <3>2, <3>4
    <3>6. b < c \/ (b = c /\ i < j)
      BY <2>4, <3>2, <3>4 DEF Before
    <3>7. QED
      BY <2>1, <3>5, <3>6 DEF Numbered
  <2>5. ASSUME NEW p \in Positions, IdAt(p) >= 0
        PROVE  IdAt(p) \in NumParams .. tmp_id - 1
    <3>1. PICK b \in 1 .. Len(blocks) : \E i \in 0 .. Len(blocks[b].insts) : p = <<b, i>>
      BY <2>2
    <3>2. PICK i \in 0 .. Len(blocks[b].insts) : p = <<b, i>>
      BY <3>1
    <3>3. IdAt(p) = Id(blocks, b, i)
      BY <2>2, <3>2
    <3>4. QED
      BY <2>1, <2>5, <3>3 DEF Numbered
  <2>6. ASSUME NEW x \in NumParams .. tmp_id - 1
        PROVE  \E q \in Positions : IdAt(q) = x /\ x >= 0
    <3>1. PICK b \in 1 .. Len(blocks) :
            \E i \in 0 .. Len(blocks[b].insts) : Id(blocks, b, i) = x
      BY <2>1 DEF Numbered
    <3>2. PICK i \in 0 .. Len(blocks[b].insts) : Id(blocks, b, i) = x
      BY <3>1
    <3>3. x >= 0
      BY NumParamsAssumption, <2>1, LoopStacks, Basics
    <3>4. QED
      BY <2>2, <3>2, <3>3
  (* Whatever comes before a ruled position is ruled.                      *)
  <2>7. ASSUME NEW p \in Ruled, NEW q \in Positions, IdAt(q) >= 0, IdAt(q) <= IdAt(p)
        PROVE  q \in Ruled
    <3>1. p \in Positions /\ IdAt(p) >= 0
      BY DEF Ruled
    <3>2. IdAt(p) \in Int /\ IdAt(q) \in Int
      BY <2>1, <2>5, <2>7, <3>1, LoopStacks, Basics
    <3>3. ~Before(p, q)
      BY <2>4, <2>7, <3>1, <3>2
    <3>4. q = p \/ Before(q, p)
      BY <2>3, <3>1, <3>3 DEF Before
    <3>5. ASSUME NEW i \in Implicit PROVE Before(q, i)
      <4>1. Before(p, i) /\ i \in Positions
        BY DEF Ruled, Implicit
      <4>2. QED
        BY <2>3, <3>1, <3>4, <4>1 DEF Before
    <3>6. QED
      BY <2>7, <3>5 DEF Ruled
  <2>8. ASSUME NEW p \in Ruled
        PROVE  /\ IdAt(p) >= NumParams
               /\ NumParams .. IdAt(p) \subseteq {IdAt(q) : q \in Ruled}
    <3>1. p \in Positions /\ IdAt(p) >= 0
      BY DEF Ruled
    <3>2. IdAt(p) \in NumParams .. tmp_id - 1
      BY <2>5, <3>1
    <3>3. ASSUME NEW x \in NumParams .. IdAt(p) PROVE \E q \in Ruled : IdAt(q) = x
      <4>1. x \in NumParams .. tmp_id - 1 /\ x <= IdAt(p)
        BY <2>1, <3>2, LoopStacks, Basics, NumParamsAssumption
      <4>2. PICK q \in Positions : IdAt(q) = x /\ x >= 0
        BY <2>6, <4>1
      <4>3. QED
        BY <2>7, <4>1, <4>2
    <3>4. QED
      BY <3>2, <3>3, NumParamsAssumption
  <2>9. ASSUME NEW p \in Ruled, NEW q \in Ruled, Before(p, q) PROVE IdAt(p) < IdAt(q)
    BY <2>4, <2>9 DEF Ruled
  <2>10. QED
    BY <2>8, <2>9 DEF Numbering
<1>2. QED
  BY NumberedInvariance, <1>1, PTL
=============================================================================
