--------------------------- MODULE AstToIRProofs ---------------------------
(* Machine-checked proofs about AstToIR, for every value of its constants. *)
EXTENDS AstToIR, FiniteSetTheorems, WellFoundedInduction, TLAPS

-----------------------------------------------------------------------------
(* Facts about sequences.                                                  *)

LEMMA PrefixLen ==
  ASSUME NEW S, NEW s \in Seq(S), NEW n \in 0 .. Len(s)
  PROVE  Len(SubSeq(s, 1, n)) = n
OBVIOUS

LEMMA FrontIsSeq ==
  ASSUME NEW S, NEW s \in Seq(S), s # <<>>
  PROVE  /\ Front(s) \in Seq(S)
         /\ Len(Front(s)) = Len(s) - 1
         /\ \A i \in 1 .. Len(s) - 1 : Front(s)[i] = s[i]
<1>1. Front(s) \in Seq(S)
  BY DEF Front
<1>2. Len(s) - 1 \in 0 .. Len(s)
  OBVIOUS
<1>3. Len(Front(s)) = Len(s) - 1
  BY <1>2, PrefixLen DEF Front
<1>4. QED
  BY <1>1, <1>3 DEF Front

LEMMA LastIsElement ==
  ASSUME NEW S, NEW s \in Seq(S), s # <<>>
  PROVE  Last(s) \in S /\ Last(s) = s[Len(s)]
BY DEF Last

(* A set of positions has a highest one.                                   *)
LEMMA MaxIsElement ==
  ASSUME NEW n \in Nat, NEW T, T \subseteq 1 .. n, T # {}
  PROVE  Max(T) \in T
<1> DEFINE T2 == {n - k : k \in T}
<1>1. T2 \subseteq Nat /\ T2 # {}
  <2>1. \A k \in T : n - k \in Nat
    OBVIOUS
  <2>2. PICK k \in T : TRUE
    OBVIOUS
  <2>3. n - k \in T2
    OBVIOUS
  <2>4. QED
    BY <2>1, <2>3
<1> DEFINE R == OpToRel(<, Nat)
<1> HIDE DEF T2
<1>2. \E x \in T2 : \A y \in T2 : ~ (<<y, x>> \in R)
  BY <1>1, NatLessThanWellFounded, WFMin
<1>3. PICK x \in T2 : \A y \in T2 : ~ (<<y, x>> \in R)
  BY <1>2
<1>4. \A y \in T2 : ~ (y < x)
  BY <1>1, <1>3 DEF OpToRel
<1>5. PICK k \in T : x = n - k
  BY DEF T2
<1>6. \A j \in T : ~ (n - j < n - k)
  BY <1>4, <1>5 DEF T2
<1>7. \A j \in T : k >= j
  BY <1>6
<1>8. QED
  BY <1>7 DEF Max

LEMMA SetTopIsSeq ==
  ASSUME NEW S, NEW s \in Seq(S), s # <<>>, NEW e \in S
  PROVE  /\ Append(Front(s), e) \in Seq(S)
         /\ Len(Append(Front(s), e)) = Len(s)
         /\ \A i \in 1 .. Len(s) - 1 : Append(Front(s), e)[i] = s[i]
         /\ Append(Front(s), e)[Len(s)] = e
BY FrontIsSeq

-----------------------------------------------------------------------------
(* Instructions and blocks.                                                *)

LEMMA RoleType ==
  /\ NoTarget \in WantSet
  /\ \A n \in Nat, p \in Parts :
       Role(n, p) \in RoleSet /\ To(Role(n, p)) \in WantSet
BY DEF NoTarget, NoRole, Role, To, WantSet, RoleSet, Parts

LEMMA InstType ==
  /\ RetInst \in InstSet /\ StoreInst \in InstSet
  /\ \A id \in Nat : ValInst(id) \in InstSet
  /\ \A r \in RoleSet : OpenJump(r) \in InstSet
  /\ \A l \in LabelSet, w \in WantSet : BrInst(l, w) \in InstSet
  /\ \A t, f \in LabelSet, w \in WantSet : CondBr(t, f, w) \in InstSet
BY RoleType
DEF RetInst, StoreInst, ValInst, OpenJump, BrInst, CondBr, Inst, InstSet,
    LabelSet, To, WantSet

(* The instructions of straight-line code, and of a conversion to i1.      *)
LEMMA StraightType ==
  ASSUME TypeOK, NEW n \in Nat, NEW store \in BOOLEAN
  PROVE  /\ Straight(n, store) \in Seq(InstSet)
         /\ Append(Straight(n, store), RetInst) \in Seq(InstSet)
         /\ IcmpInsts(val) \in Seq(InstSet)
<1>1. [k \in 1 .. n |-> ValInst(tmp_id + k - 1)] \in Seq(InstSet)
  BY InstType DEF TypeOK
<1>2. (IF store THEN <<StoreInst>> ELSE <<>>) \in Seq(InstSet)
  BY InstType
<1>3. Straight(n, store) \in Seq(InstSet)
  BY <1>1, <1>2 DEF Straight
<1>4. QED
  BY <1>3, InstType DEF IcmpInsts, TypeOK

LEMMA BlockType ==
  /\ \A b \in BlockSet : /\ b.label \in LabelSet /\ b.role \in RoleSet
                         /\ b.insts \in Seq(InstSet)
  /\ \A l \in LabelSet, r \in RoleSet, is \in Seq(InstSet) :
       Block(l, r, is) \in BlockSet
  /\ \A b \in BlockSet, is \in Seq(InstSet) :
       WithInsts(b, is) \in BlockSet /\ WithInsts(b, is).insts = is
BY DEF BlockSet, Block, WithInsts

(* bs2 is bs after some code was added: blocks and instructions may have   *)
(* been appended or rewritten, none is gone.                               *)
Grows(bs, bs2) ==
  /\ bs2 \in Seq(BlockSet)
  /\ Len(bs) <= Len(bs2)
  /\ \A b \in 1 .. Len(bs) : Len(bs[b].insts) <= Len(bs2[b].insts)

LEMMA GrowsTransitive ==
  ASSUME NEW b1 \in Seq(BlockSet), NEW b2, NEW b3, Grows(b1, b2), Grows(b2, b3)
  PROVE  Grows(b1, b3)
<1>1. /\ b2 \in Seq(BlockSet) /\ b3 \in Seq(BlockSet)
      /\ Len(b1) <= Len(b3)
  BY DEF Grows
<1>2. ASSUME NEW b \in 1 .. Len(b1)
      PROVE  Len(b1[b].insts) <= Len(b3[b].insts)
  <2>1. b \in 1 .. Len(b2) /\ b \in 1 .. Len(b3)
    BY <1>1 DEF Grows
  <2>2. /\ Len(b1[b].insts) \in Nat /\ Len(b2[b].insts) \in Nat
        /\ Len(b3[b].insts) \in Nat
    BY SMTT(30), <1>1, <2>1, BlockType
  <2>3. QED
    BY <2>1, <2>2 DEF Grows
<1>3. QED
  BY <1>1, <1>2 DEF Grows

LEMMA GrowsReflexive ==
  ASSUME NEW bs \in Seq(BlockSet)
  PROVE  Grows(bs, bs)
BY BlockType DEF Grows

LEMMA AddBlockGrows ==
  ASSUME NEW bs \in Seq(BlockSet), NEW l \in LabelSet, NEW r \in RoleSet
  PROVE  /\ Grows(bs, AddBlock(bs, l, r))
         /\ Len(AddBlock(bs, l, r)) = Len(bs) + 1
<1>1. Block(l, r, <<>>) \in BlockSet
  <2>1. <<>> \in Seq(InstSet)
    OBVIOUS
  <2>2. QED
    BY <2>1, BlockType
<1>2. \A b \in 1 .. Len(bs) : Len(bs[b].insts) \in Nat
  BY BlockType
<1>3. QED
  BY <1>1, <1>2 DEF Grows, AddBlock

LEMMA AddInstsGrows ==
  ASSUME NEW bs \in Seq(BlockSet), NEW b \in 1 .. Len(bs),
         NEW is \in Seq(InstSet)
  PROVE  /\ Grows(bs, AddInsts(bs, b, is))
         /\ Len(AddInsts(bs, b, is)) = Len(bs)
         /\ is # <<>> => AddInsts(bs, b, is)[b].insts # <<>>
<1>1. bs[b] \in BlockSet /\ bs[b].insts \in Seq(InstSet)
  BY BlockType
<1>2. bs[b].insts \o is \in Seq(InstSet)
  BY <1>1
<1>3. /\ WithInsts(bs[b], bs[b].insts \o is) \in BlockSet
      /\ WithInsts(bs[b], bs[b].insts \o is).insts = bs[b].insts \o is
  BY <1>1, <1>2, BlockType
<1>4. /\ Len(bs[b].insts) <= Len(bs[b].insts \o is)
      /\ is # <<>> => bs[b].insts \o is # <<>>
  BY <1>1
<1>5. \A c \in 1 .. Len(bs) : Len(bs[c].insts) \in Nat
  BY BlockType
<1>6. QED
  BY <1>3, <1>4, <1>5 DEF Grows, AddInsts

(* A list of blocks that all hold some code.                               *)
ListOK(bs, l) ==
  l \in Seq(1 .. Len(bs)) /\ \A i \in 1 .. Len(l) : bs[l[i]].insts # <<>>

StackOK(bs, st) ==
  st \in Seq(Seq(Nat)) /\ \A k \in 1 .. Len(st) : ListOK(bs, st[k])

LEMMA ListOKGrows ==
  ASSUME NEW bs \in Seq(BlockSet), NEW bs2, Grows(bs, bs2), NEW l,
         ListOK(bs, l)
  PROVE  ListOK(bs2, l)
<1>1. Len(bs) \in Nat /\ Len(bs2) \in Nat /\ Len(bs) <= Len(bs2)
  BY DEF Grows
<1>2. l \in Seq(1 .. Len(bs2))
  BY <1>1 DEF ListOK
<1>3. ASSUME NEW i \in 1 .. Len(l)
      PROVE  bs2[l[i]].insts # <<>>
  <2>1. l[i] \in 1 .. Len(bs) /\ l[i] \in 1 .. Len(bs2)
    BY <1>1 DEF ListOK
  <2>2. bs[l[i]].insts \in Seq(InstSet) /\ bs2[l[i]].insts \in Seq(InstSet)
    BY <2>1, BlockType DEF Grows
  <2>3. bs[l[i]].insts # <<>> /\ Len(bs[l[i]].insts) <= Len(bs2[l[i]].insts)
    BY <2>1 DEF Grows, ListOK
  <2>4. QED
    BY <2>2, <2>3
<1>4. QED
  BY <1>2, <1>3 DEF ListOK

LEMMA StackOKGrows ==
  ASSUME NEW bs \in Seq(BlockSet), NEW bs2, Grows(bs, bs2), NEW st,
         StackOK(bs, st)
  PROVE  StackOK(bs2, st)
BY ListOKGrows DEF StackOK

LEMMA StackOKPush ==
  ASSUME NEW bs \in Seq(BlockSet), NEW st, StackOK(bs, st)
  PROVE  StackOK(bs, Push(st)) /\ Len(Push(st)) = Len(st) + 1
<1>1. ListOK(bs, <<>>)
  BY DEF ListOK
<1>2. QED
  BY <1>1 DEF StackOK, Push

LEMMA StackOKPop ==
  ASSUME NEW bs \in Seq(BlockSet), NEW st, StackOK(bs, st), st # <<>>
  PROVE  /\ StackOK(bs, Front(st)) /\ Len(Front(st)) = Len(st) - 1
         /\ ListOK(bs, Last(st)) /\ Last(st) \in Seq(Nat)
<1>1. st \in Seq(Seq(Nat)) /\ Len(st) \in 1 .. Len(st)
  BY DEF StackOK
<1>2. /\ Front(st) \in Seq(Seq(Nat)) /\ Len(Front(st)) = Len(st) - 1
      /\ \A i \in 1 .. Len(st) - 1 : Front(st)[i] = st[i]
  BY <1>1, FrontIsSeq
<1>3. Last(st) \in Seq(Nat) /\ Last(st) = st[Len(st)]
  BY <1>1, LastIsElement
<1>4. QED
  BY <1>1, <1>2, <1>3 DEF StackOK

LEMMA ListOKConcat ==
  ASSUME NEW bs \in Seq(BlockSet), NEW l, NEW m, ListOK(bs, l), ListOK(bs, m)
  PROVE  ListOK(bs, l \o m)
<1> DEFINE B == 1 .. Len(bs)
<1>1. l \in Seq(B) /\ m \in Seq(B)
  BY DEF ListOK
<1>2. l \o m \in Seq(B)
  BY <1>1
<1>3. ASSUME NEW i \in 1 .. Len(l \o m)
      PROVE  bs[(l \o m)[i]].insts # <<>>
  <2>1. CASE i <= Len(l)
    <3>1. i \in 1 .. Len(l) /\ (l \o m)[i] = l[i]
      BY <1>1, <2>1
    <3>2. QED
      BY <3>1 DEF ListOK
  <2>2. CASE i > Len(l)
    <3>1. i - Len(l) \in 1 .. Len(m) /\ (l \o m)[i] = m[i - Len(l)]
      BY <1>1, <2>2
    <3>2. QED
      BY <3>1 DEF ListOK
  <2>3. QED
    BY <1>1, <2>1, <2>2
<1>4. QED
  BY <1>2, <1>3 DEF ListOK

LEMMA StackOKAddTop ==
  ASSUME NEW bs \in Seq(BlockSet), NEW st, StackOK(bs, st), st # <<>>,
         NEW l, ListOK(bs, l)
  PROVE  StackOK(bs, AddTop(st, l)) /\ Len(AddTop(st, l)) = Len(st)
<1>1. Len(st) \in 1 .. Len(st) /\ st[Len(st)] \in Seq(Nat) /\ l \in Seq(Nat)
  BY DEF StackOK, ListOK
<1>2. ListOK(bs, st[Len(st)] \o l)
  BY <1>1, ListOKConcat DEF StackOK
<1>3. st[Len(st)] \o l \in Seq(Nat)
  BY <1>1
<1>4. QED
  BY <1>1, <1>2, <1>3 DEF StackOK, AddTop

(* Patching the last instruction of the listed blocks.                     *)
LEMMA MapBackGrows ==
  ASSUME NEW bs \in Seq(BlockSet), NEW l, ListOK(bs, l), NEW t \in LabelSet
  PROVE  /\ Grows(bs, SetTrue(bs, l, t)) /\ Len(SetTrue(bs, l, t)) = Len(bs)
         /\ Grows(bs, SetFalse(bs, l, t)) /\ Len(SetFalse(bs, l, t)) = Len(bs)
         /\ Grows(bs, CloseJumps(bs, l, t)) /\ Len(CloseJumps(bs, l, t)) = Len(bs)
<1> DEFINE back(b)    == Last(bs[b].insts)
           put(b, i)  == WithInsts(bs[b], Append(Front(bs[b].insts), i))
           tr(b)      == Inst(back(b).op, back(b).id, t, back(b).f, back(b).want)
           fa(b)      == Inst(back(b).op, back(b).id, back(b).t, t, back(b).want)
           cl(b)      == BrInst(t, back(b).want)
<1>1. ASSUME NEW b \in ToSet(l)
      PROVE  /\ b \in 1 .. Len(bs) /\ bs[b].insts \in Seq(InstSet)
             /\ bs[b].insts # <<>> /\ back(b) \in InstSet
  <2>1. PICK i \in 1 .. Len(l) : b = l[i]
    BY DEF ToSet, ListOK
  <2>2. b \in 1 .. Len(bs) /\ bs[b].insts # <<>>
    BY <2>1 DEF ListOK
  <2>3. bs[b].insts \in Seq(InstSet)
    BY <2>2, BlockType
  <2>4. QED
    BY <2>2, <2>3, LastIsElement
<1>2. ASSUME NEW b \in ToSet(l)
      PROVE  tr(b) \in InstSet /\ fa(b) \in InstSet /\ cl(b) \in InstSet
  <2>1. back(b) \in InstSet
    BY <1>1
  <2>2. /\ back(b).op \in {"val", "store", "ret", "br", "cbr"}
        /\ back(b).id \in LabelSet /\ back(b).t \in LabelSet
        /\ back(b).f \in LabelSet /\ back(b).want \in WantSet
    BY <2>1 DEF InstSet
  <2>3. QED
    BY <2>2, InstType DEF Inst, InstSet
<1>3. ASSUME NEW b \in ToSet(l), NEW i \in InstSet
      PROVE  /\ put(b, i) \in BlockSet
             /\ Len(put(b, i).insts) = Len(bs[b].insts)
  <2>1. /\ Append(Front(bs[b].insts), i) \in Seq(InstSet)
        /\ Len(Append(Front(bs[b].insts), i)) = Len(bs[b].insts)
    BY <1>1, SetTopIsSeq
  <2>2. bs[b] \in BlockSet
    BY <1>1
  <2>3. QED
    BY <2>1, <2>2, BlockType
<1>4. /\ SetTrue(bs, l, t) = [b \in DOMAIN bs |-> IF b \in ToSet(l) THEN put(b, tr(b)) ELSE bs[b]]
      /\ SetFalse(bs, l, t) = [b \in DOMAIN bs |-> IF b \in ToSet(l) THEN put(b, fa(b)) ELSE bs[b]]
      /\ CloseJumps(bs, l, t) = [b \in DOMAIN bs |-> IF b \in ToSet(l) THEN put(b, cl(b)) ELSE bs[b]]
  BY DEF SetTrue, SetFalse, CloseJumps, MapBack
<1>5. ASSUME NEW g, DOMAIN g = DOMAIN bs, g = [b \in DOMAIN bs |-> g[b]],
             \A b \in DOMAIN bs : /\ g[b] \in BlockSet
                                  /\ Len(g[b].insts) = Len(bs[b].insts)
      PROVE  Grows(bs, g) /\ Len(g) = Len(bs)
  <2>1. g \in Seq(BlockSet) /\ Len(g) = Len(bs)
    BY <1>5
  <2>2. \A b \in 1 .. Len(bs) : Len(bs[b].insts) \in Nat
    BY BlockType
  <2>3. QED
    BY <1>5, <2>1, <2>2 DEF Grows
<1>6. \A b \in DOMAIN bs : bs[b] \in BlockSet
  OBVIOUS
<1> HIDE DEF put, tr, fa, cl, back
<1>7. Grows(bs, SetTrue(bs, l, t)) /\ Len(SetTrue(bs, l, t)) = Len(bs)
  BY <1>2, <1>3, <1>4, <1>5, <1>6
<1>8. Grows(bs, SetFalse(bs, l, t)) /\ Len(SetFalse(bs, l, t)) = Len(bs)
  BY <1>2, <1>3, <1>4, <1>5, <1>6
<1>9. Grows(bs, CloseJumps(bs, l, t)) /\ Len(CloseJumps(bs, l, t)) = Len(bs)
  <2> DEFINE g == [b \in DOMAIN bs |-> IF b \in ToSet(l) THEN put(b, cl(b)) ELSE bs[b]]
  <2>1. \A b \in DOMAIN bs : /\ g[b] \in BlockSet
                             /\ Len(g[b].insts) = Len(bs[b].insts)
    BY <1>2, <1>3, <1>6
  <2>2. DOMAIN g = DOMAIN bs /\ g = [b \in DOMAIN bs |-> g[b]]
    OBVIOUS
  <2> HIDE DEF g
  <2>3. Grows(bs, g) /\ Len(g) = Len(bs)
    BY <1>5, <2>1, <2>2
  <2>4. QED
    BY <1>4, <2>3 DEF g
<1>10. QED
  BY <1>7, <1>8, <1>9

-----------------------------------------------------------------------------
(* The recursion: frames, and how many of them own a list on a stack.      *)

(* A frame whose call of TranslateExpr has not returned.                   *)
Awaits(f) == f.kind = "cond" \/ (f.kind \in {"if", "while"} /\ f.phase = "cond")

(* A frame refers to blocks that exist, as soon as its phase created them. *)
FrameOK(f, bs) ==
  /\ f.kind = "if" =>
       /\ f.bb \in 1 .. Len(bs)
       /\ f.phase # "cond" => f.then \in 1 .. Len(bs)
       /\ f.phase = "else" => f.thenEnd \in 1 .. Len(bs) /\ f.else \in 1 .. Len(bs)
  /\ f.kind = "while" =>
       /\ f.check \in 1 .. Len(bs)
       /\ f.phase = "body" => f.body \in 1 .. Len(bs)
  /\ f.kind = "cond" =>
       /\ f.bb \in 1 .. Len(bs) /\ f.lhs \in 1 .. Len(bs)
       /\ f.phase = "rhs" => f.rhs \in 1 .. Len(bs)
       /\ ListOK(bs, f.lhs_true) /\ ListOK(bs, f.lhs_false)

(* An operator is called only by a frame that awaits an expression.        *)
FramesOK(bs, fr) ==
  /\ fr \in Seq(FrameSet)
  /\ \A k \in 1 .. Len(fr) : FrameOK(fr[k], bs)
  /\ \A k \in 1 .. Len(fr) :
       fr[k].kind = "cond" => k > 1 /\ Awaits(fr[k - 1])

DepthOf(fr, kinds) == Cardinality({k \in DOMAIN fr : fr[k].kind \in kinds})

LEMMA FrameOKGrows ==
  ASSUME NEW bs \in Seq(BlockSet), NEW bs2, Grows(bs, bs2), NEW f,
         FrameOK(f, bs)
  PROVE  FrameOK(f, bs2)
<1>1. Len(bs) \in Nat /\ Len(bs2) \in Nat /\ Len(bs) <= Len(bs2)
  BY DEF Grows
<1>2. f.kind = "cond" => ListOK(bs2, f.lhs_true) /\ ListOK(bs2, f.lhs_false)
  BY ListOKGrows DEF FrameOK
<1>3. QED
  BY <1>1, <1>2 DEF FrameOK

LEMMA FramesOKGrows ==
  ASSUME NEW bs \in Seq(BlockSet), NEW bs2, Grows(bs, bs2), NEW fr,
         FramesOK(bs, fr)
  PROVE  FramesOK(bs2, fr)
BY FrameOKGrows DEF FramesOK

LEMMA DepthPush ==
  ASSUME NEW fr \in Seq(FrameSet), NEW f \in FrameSet, NEW K
  PROVE  /\ DepthOf(fr, K) \in Nat
         /\ DepthOf(Append(fr, f), K) =
              DepthOf(fr, K) + (IF f.kind \in K THEN 1 ELSE 0)
<1> DEFINE n == Len(fr)
           s == Append(fr, f)
           A == {k \in 1 .. n : fr[k].kind \in K}
           B == {k \in 1 .. n + 1 : s[k].kind \in K}
<1>1. n \in Nat /\ Len(s) = n + 1 /\ s[n + 1] = f /\ \A k \in 1 .. n : s[k] = fr[k]
  OBVIOUS
<1>2. IsFiniteSet(A) /\ A \subseteq 1 .. n
  <2>1. IsFiniteSet(1 .. n)
    BY <1>1, FS_Interval
  <2>2. A \subseteq 1 .. n
    OBVIOUS
  <2> HIDE DEF A
  <2>3. QED
    BY <2>1, <2>2, FS_Subset
<1>3. Cardinality(A) \in Nat
  BY <1>2, FS_CardinalityType
<1>4. n + 1 \notin A
  BY <1>1
<1> HIDE DEF n, s, A, B
<1>5. DepthOf(fr, K) = Cardinality(A) /\ DepthOf(s, K) = Cardinality(B)
  <2>1. DOMAIN fr = 1 .. n /\ DOMAIN s = 1 .. n + 1
    BY DEF n, s
  <2>2. QED
    BY <2>1 DEF DepthOf, A, B
<1>6. f.kind \in K => B = A \cup {n + 1}
  BY <1>1 DEF A, B
<1>7. f.kind \notin K => B = A
  BY <1>1 DEF A, B
<1>8. Cardinality(A \cup {n + 1}) = Cardinality(A) + 1
  BY <1>2, <1>4, FS_AddElement
<1>9. CASE f.kind \in K
  <2>1. Cardinality(B) = Cardinality(A) + 1
    BY <1>6, <1>8, <1>9
  <2>2. QED
    BY <1>3, <1>5, <1>9, <2>1 DEF s
<1>10. CASE f.kind \notin K
  <2>1. Cardinality(B) = Cardinality(A) + 0
    BY <1>3, <1>7, <1>10
  <2>2. QED
    BY <1>3, <1>5, <1>10, <2>1 DEF s
<1>11. QED
  BY <1>9, <1>10

LEMMA DepthPop ==
  ASSUME NEW fr \in Seq(FrameSet), fr # <<>>, NEW K
  PROVE  /\ DepthOf(Front(fr), K) \in Nat
         /\ DepthOf(fr, K) =
              DepthOf(Front(fr), K) + (IF Last(fr).kind \in K THEN 1 ELSE 0)
<1>1. Front(fr) \in Seq(FrameSet) /\ Last(fr) \in FrameSet
  BY FrontIsSeq, LastIsElement
<1>2. fr = Append(Front(fr), Last(fr))
  <2>1. /\ Len(fr) \in 1 .. Len(fr) /\ Last(fr) = fr[Len(fr)]
        /\ Len(Front(fr)) = Len(fr) - 1
        /\ \A i \in 1 .. Len(fr) - 1 : Front(fr)[i] = fr[i]
    BY FrontIsSeq, LastIsElement
  <2> DEFINE g == Append(Front(fr), Last(fr))
  <2>2. g \in Seq(FrameSet) /\ Len(g) = Len(fr)
    BY <1>1, <2>1
  <2>3. \A i \in 1 .. Len(fr) : g[i] = fr[i]
    BY <1>1, <2>1
  <2>4. QED
    BY <2>2, <2>3
<1>3. /\ DepthOf(Front(fr), K) \in Nat
      /\ DepthOf(Append(Front(fr), Last(fr)), K) =
           DepthOf(Front(fr), K) + (IF Last(fr).kind \in K THEN 1 ELSE 0)
  BY <1>1, DepthPush
<1>4. QED
  BY <1>2, <1>3, Zenon

(* Calling, returning, and moving on to the next phase of the same call.   *)
LEMMA FramesOKPush ==
  ASSUME NEW bs \in Seq(BlockSet), NEW fr, FramesOK(bs, fr),
         NEW f \in FrameSet, FrameOK(f, bs),
         f.kind = "cond" => fr # <<>> /\ Awaits(Last(fr))
  PROVE  /\ FramesOK(bs, Append(fr, f))
         /\ Last(Append(fr, f)) = f /\ Append(fr, f) # <<>>
         /\ \A K : DepthOf(Append(fr, f), K) =
                     DepthOf(fr, K) + (IF f.kind \in K THEN 1 ELSE 0)
<1>1. fr \in Seq(FrameSet) /\ Len(fr) \in Nat
  BY DEF FramesOK
<1>2. fr # <<>> => Last(fr) = fr[Len(fr)]
  BY DEF Last
<1>3. Last(Append(fr, f)) = f
  BY <1>1 DEF Last
<1>4. \A K : DepthOf(Append(fr, f), K) =
               DepthOf(fr, K) + (IF f.kind \in K THEN 1 ELSE 0)
  BY <1>1, DepthPush
<1> DEFINE s == Append(fr, f)
<1>5. /\ s \in Seq(FrameSet) /\ Len(s) = Len(fr) + 1 /\ s # <<>>
      /\ s[Len(fr) + 1] = f /\ \A k \in 1 .. Len(fr) : s[k] = fr[k]
  BY <1>1
<1> HIDE DEF s
<1>6. \A k \in 1 .. Len(s) : FrameOK(s[k], bs)
  BY <1>1, <1>5 DEF FramesOK
<1>7. ASSUME NEW k \in 1 .. Len(s), s[k].kind = "cond"
      PROVE  k > 1 /\ Awaits(s[k - 1])
  <2>1. CASE k \in 1 .. Len(fr)
    <3>1. fr[k].kind = "cond"
      BY <1>5, <1>7, <2>1
    <3>2. k > 1 /\ Awaits(fr[k - 1])
      BY <2>1, <3>1 DEF FramesOK
    <3>3. k - 1 \in 1 .. Len(fr)
      BY <1>1, <2>1, <3>2
    <3>4. QED
      BY <1>5, <3>2, <3>3
  <2>2. CASE k = Len(fr) + 1
    <3>1. fr # <<>> /\ Awaits(fr[Len(fr)])
      BY <1>2, <1>5, <1>7, <2>2
    <3>2. Len(fr) \in 1 .. Len(fr)
      BY <1>1, <3>1
    <3>3. QED
      BY <1>5, <2>2, <3>1, <3>2
  <2>3. QED
    BY <1>1, <1>5, <2>1, <2>2
<1>8. FramesOK(bs, s)
  BY <1>5, <1>6, <1>7 DEF FramesOK
<1>9. QED
  BY <1>3, <1>4, <1>5, <1>8 DEF s

LEMMA FramesOKPop ==
  ASSUME NEW bs \in Seq(BlockSet), NEW fr, FramesOK(bs, fr), fr # <<>>
  PROVE  /\ FramesOK(bs, Front(fr))
         /\ Last(fr) \in FrameSet /\ FrameOK(Last(fr), bs)
         /\ Last(fr).kind = "cond" => Front(fr) # <<>> /\ Awaits(Last(Front(fr)))
         /\ \A K : /\ DepthOf(Front(fr), K) \in Nat
                   /\ DepthOf(fr, K) =
                        DepthOf(Front(fr), K) + (IF Last(fr).kind \in K THEN 1 ELSE 0)
<1>1. fr \in Seq(FrameSet) /\ Len(fr) \in 1 .. Len(fr)
  BY DEF FramesOK
<1>2. /\ Front(fr) \in Seq(FrameSet) /\ Len(Front(fr)) = Len(fr) - 1
      /\ \A i \in 1 .. Len(fr) - 1 : Front(fr)[i] = fr[i]
  BY <1>1, FrontIsSeq
<1>3. Last(fr) \in FrameSet /\ Last(fr) = fr[Len(fr)]
  BY <1>1, LastIsElement
<1>4. FramesOK(bs, Front(fr))
  BY <1>1, <1>2 DEF FramesOK
<1>5. FrameOK(Last(fr), bs)
  BY <1>1, <1>3 DEF FramesOK
<1>6. Last(fr).kind = "cond" => Front(fr) # <<>> /\ Awaits(Last(Front(fr)))
  BY <1>1, <1>2, <1>3 DEF FramesOK, Last
<1>7. QED
  BY <1>1, <1>3, <1>4, <1>5, <1>6, DepthPop

LEMMA FramesOKSetTop ==
  ASSUME NEW bs \in Seq(BlockSet), NEW fr, FramesOK(bs, fr), fr # <<>>,
         NEW f \in FrameSet, FrameOK(f, bs), f.kind = Last(fr).kind
  PROVE  /\ FramesOK(bs, Append(Front(fr), f))
         /\ Last(Append(Front(fr), f)) = f /\ Append(Front(fr), f) # <<>>
         /\ \A K : DepthOf(Append(Front(fr), f), K) = DepthOf(fr, K)
<1>1. FramesOK(bs, Front(fr))
  BY FramesOKPop
<1>2. /\ f.kind = "cond" => Front(fr) # <<>> /\ Awaits(Last(Front(fr)))
      /\ \A K : DepthOf(fr, K) =
                  DepthOf(Front(fr), K) + (IF Last(fr).kind \in K THEN 1 ELSE 0)
  BY FramesOKPop
<1>3. QED
  BY <1>1, <1>2, FramesOKPush

-----------------------------------------------------------------------------
(* The recursion and the stacks together.                                  *)

LoopKinds == {"while"}
ListKinds == {"if", "while", "cond"}

Mirrors(bs, fr, bk, co, tr, fa) ==
  /\ bs \in Seq(BlockSet)
  /\ FramesOK(bs, fr)
  /\ StackOK(bs, bk) /\ StackOK(bs, co) /\ StackOK(bs, tr) /\ StackOK(bs, fa)
  /\ Len(bk) = DepthOf(fr, LoopKinds) /\ Len(co) = DepthOf(fr, LoopKinds)
  /\ Len(tr) = DepthOf(fr, ListKinds) /\ Len(fa) = DepthOf(fr, ListKinds)

LEMMA MirrorsGrows ==
  ASSUME NEW bs, NEW fr, NEW bk, NEW co, NEW tr, NEW fa,
         Mirrors(bs, fr, bk, co, tr, fa), NEW bs2, Grows(bs, bs2)
  PROVE  Mirrors(bs2, fr, bk, co, tr, fa)
<1>1. bs \in Seq(BlockSet) /\ bs2 \in Seq(BlockSet)
  BY DEF Mirrors, Grows
<1>2. FramesOK(bs2, fr)
  BY <1>1, FramesOKGrows DEF Mirrors
<1>3. StackOK(bs2, bk) /\ StackOK(bs2, co) /\ StackOK(bs2, tr) /\ StackOK(bs2, fa)
  BY <1>1, StackOKGrows DEF Mirrors
<1>4. QED
  BY <1>1, <1>2, <1>3 DEF Mirrors

(* A call: a block statement, an if or an operator, a loop.                *)
LEMMA MirrorsCall ==
  ASSUME NEW bs, NEW fr, NEW bk, NEW co, NEW tr, NEW fa,
         Mirrors(bs, fr, bk, co, tr, fa),
         NEW f \in FrameSet, FrameOK(f, bs),
         f.kind = "cond" => fr # <<>> /\ Awaits(Last(fr))
  PROVE  /\ f.kind = "seq" => Mirrors(bs, Append(fr, f), bk, co, tr, fa)
         /\ f.kind \in {"if", "cond"} =>
              Mirrors(bs, Append(fr, f), bk, co, Push(tr), Push(fa))
         /\ f.kind = "while" =>
              Mirrors(bs, Append(fr, f), Push(bk), Push(co), Push(tr), Push(fa))
         /\ Last(Append(fr, f)) = f /\ Append(fr, f) # <<>>
<1>1. bs \in Seq(BlockSet) /\ FramesOK(bs, fr) /\ fr \in Seq(FrameSet)
  BY DEF Mirrors, FramesOK
<1>2. /\ FramesOK(bs, Append(fr, f))
      /\ Last(Append(fr, f)) = f /\ Append(fr, f) # <<>>
      /\ \A K : DepthOf(Append(fr, f), K) =
                  DepthOf(fr, K) + (IF f.kind \in K THEN 1 ELSE 0)
  BY <1>1, FramesOKPush
<1>3. /\ DepthOf(fr, LoopKinds) \in Nat /\ DepthOf(fr, ListKinds) \in Nat
  BY <1>1, DepthPush
<1>4. /\ f.kind # "while" => DepthOf(Append(fr, f), LoopKinds) = DepthOf(fr, LoopKinds)
      /\ f.kind = "while" => DepthOf(Append(fr, f), LoopKinds) = DepthOf(fr, LoopKinds) + 1
  <2>1. f.kind \in LoopKinds <=> f.kind = "while"
    BY DEF LoopKinds
  <2>2. DepthOf(Append(fr, f), LoopKinds) =
          DepthOf(fr, LoopKinds) + (IF f.kind \in LoopKinds THEN 1 ELSE 0)
    BY <1>2
  <2>3. QED
    BY <1>3, <2>1, <2>2
<1>5. /\ f.kind = "seq" => DepthOf(Append(fr, f), ListKinds) = DepthOf(fr, ListKinds)
      /\ f.kind \in ListKinds => DepthOf(Append(fr, f), ListKinds) = DepthOf(fr, ListKinds) + 1
  <2>1. f.kind = "seq" => f.kind \notin ListKinds
    BY DEF ListKinds
  <2>2. DepthOf(Append(fr, f), ListKinds) =
          DepthOf(fr, ListKinds) + (IF f.kind \in ListKinds THEN 1 ELSE 0)
    BY <1>2
  <2>3. QED
    BY <1>3, <2>1, <2>2
<1>6. \A st : StackOK(bs, st) =>
        StackOK(bs, Push(st)) /\ Len(Push(st)) = Len(st) + 1
  BY <1>1, StackOKPush
<1>7. CASE f.kind = "seq"
  BY <1>1, <1>2, <1>4, <1>5, <1>7 DEF Mirrors
<1>8. CASE f.kind \in {"if", "cond"}
  BY <1>1, <1>2, <1>4, <1>5, <1>6, <1>8 DEF Mirrors, ListKinds
<1>9. CASE f.kind = "while"
  BY <1>1, <1>2, <1>4, <1>5, <1>6, <1>9 DEF Mirrors, ListKinds
<1>10. QED
  BY <1>2, <1>7, <1>8, <1>9

(* A return.  The lists of the frame that returns are there to be popped,  *)
(* and under those of an operator there are those of its caller.           *)
LEMMA MirrorsReturn ==
  ASSUME NEW bs, NEW fr, NEW bk, NEW co, NEW tr, NEW fa,
         Mirrors(bs, fr, bk, co, tr, fa), fr # <<>>
  PROVE  /\ Last(fr).kind = "seq" => Mirrors(bs, Front(fr), bk, co, tr, fa)
         /\ Last(fr).kind \in ListKinds =>
              /\ tr # <<>> /\ fa # <<>>
              /\ ListOK(bs, Last(tr)) /\ ListOK(bs, Last(fa))
         /\ Last(fr).kind \in {"if", "cond"} =>
              Mirrors(bs, Front(fr), bk, co, Front(tr), Front(fa))
         /\ Last(fr).kind = "cond" => Front(tr) # <<>> /\ Front(fa) # <<>>
         /\ Last(fr).kind = "while" =>
              /\ bk # <<>> /\ co # <<>>
              /\ ListOK(bs, Last(bk)) /\ ListOK(bs, Last(co))
              /\ Mirrors(bs, Front(fr), Front(bk), Front(co), Front(tr), Front(fa))
<1>1. bs \in Seq(BlockSet) /\ FramesOK(bs, fr) /\ fr \in Seq(FrameSet)
  BY DEF Mirrors, FramesOK
<1> DEFINE f == Last(fr)
<1>2. /\ FramesOK(bs, Front(fr)) /\ f \in FrameSet
      /\ f.kind = "cond" => Front(fr) # <<>> /\ Awaits(Last(Front(fr)))
      /\ \A K : /\ DepthOf(Front(fr), K) \in Nat
                /\ DepthOf(fr, K) =
                     DepthOf(Front(fr), K) + (IF f.kind \in K THEN 1 ELSE 0)
  BY <1>1, FramesOKPop
<1> HIDE DEF f
<1>3. /\ DepthOf(Front(fr), LoopKinds) \in Nat /\ DepthOf(Front(fr), ListKinds) \in Nat
  BY <1>2
<1>4. /\ f.kind # "while" => DepthOf(fr, LoopKinds) = DepthOf(Front(fr), LoopKinds)
      /\ f.kind = "while" => DepthOf(fr, LoopKinds) = DepthOf(Front(fr), LoopKinds) + 1
  <2>1. f.kind \in LoopKinds <=> f.kind = "while"
    BY DEF LoopKinds
  <2>2. DepthOf(fr, LoopKinds) =
          DepthOf(Front(fr), LoopKinds) + (IF f.kind \in LoopKinds THEN 1 ELSE 0)
    BY <1>2
  <2>3. QED
    BY <1>3, <2>1, <2>2
<1>5. /\ f.kind = "seq" => DepthOf(fr, ListKinds) = DepthOf(Front(fr), ListKinds)
      /\ f.kind \in ListKinds => DepthOf(fr, ListKinds) = DepthOf(Front(fr), ListKinds) + 1
  <2>1. f.kind = "seq" => f.kind \notin ListKinds
    BY DEF ListKinds
  <2>2. DepthOf(fr, ListKinds) =
          DepthOf(Front(fr), ListKinds) + (IF f.kind \in ListKinds THEN 1 ELSE 0)
    BY <1>2
  <2>3. QED
    BY <1>3, <2>1, <2>2
<1>6. \A st : StackOK(bs, st) /\ st # <<>> =>
        /\ StackOK(bs, Front(st)) /\ Len(Front(st)) = Len(st) - 1
        /\ ListOK(bs, Last(st))
  BY <1>1, StackOKPop
<1>7. \A st : StackOK(bs, st) => (st = <<>> <=> Len(st) = 0) /\ Len(st) \in Nat
  BY DEF StackOK
<1>8. CASE f.kind = "seq"
  BY <1>1, <1>2, <1>4, <1>5, <1>8 DEF Mirrors, f, ListKinds
<1>9. CASE f.kind \in ListKinds
  <2>1. tr # <<>> /\ fa # <<>>
    BY <1>3, <1>5, <1>7, <1>9 DEF Mirrors
  <2>2. /\ StackOK(bs, Front(tr)) /\ Len(Front(tr)) = DepthOf(Front(fr), ListKinds)
        /\ StackOK(bs, Front(fa)) /\ Len(Front(fa)) = DepthOf(Front(fr), ListKinds)
        /\ ListOK(bs, Last(tr)) /\ ListOK(bs, Last(fa))
    BY <1>3, <1>5, <1>6, <1>9, <2>1 DEF Mirrors
  <2>3. CASE f.kind \in {"if", "cond"}
    <3>1. f.kind # "while"
      BY <2>3
    <3>2. Mirrors(bs, Front(fr), bk, co, Front(tr), Front(fa))
      BY <1>1, <1>2, <1>4, <2>2, <3>1 DEF Mirrors
    <3>3. ASSUME f.kind = "cond" PROVE Front(tr) # <<>> /\ Front(fa) # <<>>
      <4>1. Front(fr) # <<>> /\ Awaits(Last(Front(fr)))
        BY <1>2, <3>3
      <4>2. Last(Front(fr)).kind \in ListKinds
        BY <4>1 DEF Awaits, ListKinds
      <4>3. Front(fr) \in Seq(FrameSet)
        BY <1>2 DEF FramesOK
      <4>4. /\ DepthOf(Front(Front(fr)), ListKinds) \in Nat
            /\ DepthOf(Front(fr), ListKinds) =
                 DepthOf(Front(Front(fr)), ListKinds)
                   + (IF Last(Front(fr)).kind \in ListKinds THEN 1 ELSE 0)
        BY <4>1, <4>3, DepthPop
      <4>5. DepthOf(Front(fr), ListKinds) # 0
        BY <4>2, <4>4
      <4>6. QED
        BY <1>7, <2>2, <4>5
    <3>4. QED
      BY <1>9, <2>1, <2>2, <2>3, <3>1, <3>2, <3>3 DEF f, ListKinds
  <2>4. CASE f.kind = "while"
    <3>1. bk # <<>> /\ co # <<>>
      BY <1>3, <1>4, <1>7, <2>4 DEF Mirrors
    <3>2. /\ StackOK(bs, Front(bk)) /\ Len(Front(bk)) = DepthOf(Front(fr), LoopKinds)
          /\ StackOK(bs, Front(co)) /\ Len(Front(co)) = DepthOf(Front(fr), LoopKinds)
          /\ ListOK(bs, Last(bk)) /\ ListOK(bs, Last(co))
      BY <1>3, <1>4, <1>6, <2>4, <3>1 DEF Mirrors
    <3>3. Mirrors(bs, Front(fr), Front(bk), Front(co), Front(tr), Front(fa))
      BY <1>1, <1>2, <2>2, <3>2 DEF Mirrors
    <3>4. QED
      BY <1>9, <2>1, <2>2, <2>4, <3>1, <3>2, <3>3 DEF f, ListKinds
  <2>5. QED
    BY <1>9, <2>3, <2>4 DEF ListKinds
<1>10. QED
  BY <1>2, <1>8, <1>9 DEF f, ListKinds, FrameSet

LEMMA MirrorsNextPhase ==
  ASSUME NEW bs, NEW fr, NEW bk, NEW co, NEW tr, NEW fa,
         Mirrors(bs, fr, bk, co, tr, fa), fr # <<>>,
         NEW f \in FrameSet, FrameOK(f, bs), f.kind = Last(fr).kind
  PROVE  /\ Mirrors(bs, Append(Front(fr), f), bk, co, tr, fa)
         /\ Last(Append(Front(fr), f)) = f /\ Append(Front(fr), f) # <<>>
<1>1. bs \in Seq(BlockSet) /\ FramesOK(bs, fr)
  BY DEF Mirrors
<1>2. /\ FramesOK(bs, Append(Front(fr), f))
      /\ Last(Append(Front(fr), f)) = f /\ Append(Front(fr), f) # <<>>
      /\ \A K : DepthOf(Append(Front(fr), f), K) = DepthOf(fr, K)
  BY <1>1, FramesOKSetTop
<1>3. QED
  BY <1>1, <1>2 DEF Mirrors

-----------------------------------------------------------------------------
(* The inductive invariant: types, the recursion and the stacks, and that  *)
(* an expression is translated only for a frame that awaits one.           *)

ExprCalls == pc \in {"expr", "exprret"} => frames # <<>> /\ Awaits(Top)

IInv ==
  /\ TypeOK
  /\ Mirrors(blocks, frames, break_stack, continue_stack, true_stack, false_stack)
  /\ ExprCalls

LEMMA MirrorsType ==
  ASSUME NEW bs, NEW fr, NEW bk, NEW co, NEW tr, NEW fa,
         Mirrors(bs, fr, bk, co, tr, fa)
  PROVE  /\ bs \in Seq(BlockSet) /\ fr \in Seq(FrameSet)
         /\ bk \in Seq(Seq(Nat)) /\ co \in Seq(Seq(Nat))
         /\ tr \in Seq(Seq(Nat)) /\ fa \in Seq(Seq(Nat))
BY DEF Mirrors, FramesOK, StackOK

LEMMA FrameType ==
  /\ SeqFrame \in FrameSet /\ SeqFrame.kind = "seq"
  /\ \A phase \in {"cond", "then", "else"}, n, bb, th, te, el \in Nat,
        he \in BOOLEAN, c \in CondVals :
       IfFrame(phase, n, bb, he, c, th, te, el) \in FrameSet
  /\ \A phase \in {"cond", "body"}, n, ch, bo \in Nat, co \in BOOLEAN,
        c \in CondVals :
       WhileFrame(phase, n, ch, co, c, bo) \in FrameSet
  /\ \A op \in {"and", "or"}, phase \in {"lhs", "rhs"}, n, bb, l, r \in Nat,
        c \in CondVals, w \in WantSet, lt, lf \in Seq(Nat) :
       CondFrame(op, phase, n, bb, l, r, c, w, lt, lf) \in FrameSet
BY DEF SeqFrame, IfFrame, WhileFrame, CondFrame, FrameSet

LEMMA FrameFields ==
  \A f \in FrameSet :
    /\ f.kind \in {"seq", "if", "while", "cond"}
    /\ f.kind = "if" =>
         /\ f.node \in Nat /\ f.bb \in Nat /\ f.hasElse \in BOOLEAN
         /\ f.cond \in CondVals /\ f.then \in Nat /\ f.thenEnd \in Nat
         /\ f.else \in Nat /\ f.phase \in {"cond", "then", "else"}
    /\ f.kind = "while" =>
         /\ f.node \in Nat /\ f.check \in Nat /\ f.const \in BOOLEAN
         /\ f.cond \in CondVals /\ f.body \in Nat /\ f.phase \in {"cond", "body"}
    /\ f.kind = "cond" =>
         /\ f.node \in Nat /\ f.bb \in Nat /\ f.lhs \in Nat /\ f.rhs \in Nat
         /\ f.cond \in CondVals /\ f.want \in WantSet /\ f.op \in {"and", "or"}
         /\ f.phase \in {"lhs", "rhs"}
         /\ f.lhs_true \in Seq(Nat) /\ f.lhs_false \in Seq(Nat)
BY DEF FrameSet

LEMMA TopType ==
  ASSUME IInv, frames # <<>>
  PROVE  /\ Top \in FrameSet /\ FrameOK(Top, blocks)
         /\ Top.kind # "seq" => Want \in WantSet
<1>1. blocks \in Seq(BlockSet) /\ FramesOK(blocks, frames)
  BY DEF IInv, Mirrors
<1>2. Top \in FrameSet /\ FrameOK(Top, blocks)
  BY <1>1, FramesOKPop DEF Top
<1>3. /\ Top.kind \in {"seq", "if", "while", "cond"}
      /\ Top.kind # "seq" => Top.node \in Nat
      /\ Top.kind = "cond" => Top.want \in WantSet /\ Top.phase \in {"lhs", "rhs"}
                              /\ Top.op \in {"and", "or"}
  BY <1>2, FrameFields
<1>4. \A n \in Nat : \A p \in Parts : Role(n, p) \in RoleSet
  BY RoleType
<1>5. /\ {"then", "else", "end", "body", "rhs"} \subseteq Parts
      /\ \A w \in WantSet : w.t \in RoleSet /\ w.f \in RoleSet
      /\ \A t, f \in RoleSet : [t |-> t, f |-> f] \in WantSet
  BY DEF Parts, WantSet
<1>6. ASSUME Top.kind = "if" PROVE Want \in WantSet
  <2>1. Want = [t |-> Role(Top.node, "then"),
                f |-> Role(Top.node, IF Top.hasElse THEN "else" ELSE "end")]
    BY <1>6 DEF Want
  <2>2. Role(Top.node, "then") \in RoleSet
    BY <1>3, <1>4, <1>5, <1>6
  <2>3. Role(Top.node, IF Top.hasElse THEN "else" ELSE "end") \in RoleSet
    BY <1>3, <1>4, <1>5, <1>6
  <2>4. QED
    BY <1>5, <2>1, <2>2, <2>3
<1>7. ASSUME Top.kind = "while" PROVE Want \in WantSet
  <2>1. Want = [t |-> Role(Top.node, "body"), f |-> Role(Top.node, "end")]
    BY <1>7 DEF Want
  <2>2. Role(Top.node, "body") \in RoleSet /\ Role(Top.node, "end") \in RoleSet
    BY <1>3, <1>4, <1>5, <1>7
  <2>3. QED
    BY <1>5, <2>1, <2>2
<1>8. ASSUME Top.kind = "cond" PROVE Want \in WantSet
  <2>1. Role(Top.node, "rhs") \in RoleSet
    BY <1>3, <1>4, <1>5, <1>8
  <2>2. Top.want \in WantSet /\ Top.want.t \in RoleSet /\ Top.want.f \in RoleSet
    BY <1>3, <1>5, <1>8
  <2>3. \/ Want = [t |-> Role(Top.node, "rhs"), f |-> Top.want.f]
        \/ Want = [t |-> Top.want.t, f |-> Role(Top.node, "rhs")]
        \/ Want = Top.want
    BY <1>3, <1>8 DEF Want
  <2>4. QED
    BY <1>5, <2>1, <2>2, <2>3
<1>9. QED
  BY <1>2, <1>3, <1>6, <1>7, <1>8

(* Conversions to i1.                                                      *)
LEMMA ToBoolType ==
  ASSUME TypeOK
  PROVE  /\ ToBool(val) \in CondVals /\ AfterIcmp(val) \in Nat
         /\ IcmpInsts(val) \in Seq(InstSet)
<1>1. IcmpInsts(val) \in Seq(InstSet)
  <2>1. ValInst(tmp_id) \in InstSet
    BY InstType DEF TypeOK
  <2>2. QED
    BY <2>1 DEF IcmpInsts
<1>2. ToBool(val) \in CondVals /\ AfterIcmp(val) \in Nat
  BY DEF TypeOK, ToBool, CondVals, AfterIcmp
<1>3. QED
  BY <1>1, <1>2

(* One more block after the conversion of a condition found in block b.    *)
LEMMA NextBlock ==
  ASSUME TypeOK, NEW b \in 1 .. Len(blocks), NEW n \in Nat, NEW p \in Parts
  PROVE  LET bs == AddBlock(AddInsts(blocks, b, IcmpInsts(val)),
                            AfterIcmp(val), Role(n, p))
         IN Grows(blocks, bs) /\ Len(bs) = New
<1> DEFINE bs1 == AddInsts(blocks, b, IcmpInsts(val))
           bs2 == AddBlock(bs1, AfterIcmp(val), Role(n, p))
<1>1. /\ blocks \in Seq(BlockSet) /\ IcmpInsts(val) \in Seq(InstSet)
      /\ AfterIcmp(val) \in LabelSet /\ Role(n, p) \in RoleSet
  BY ToBoolType, RoleType DEF TypeOK, LabelSet
<1>2. Grows(blocks, bs1) /\ Len(bs1) = Len(blocks)
  BY <1>1, AddInstsGrows
<1>3. bs1 \in Seq(BlockSet)
  BY <1>2 DEF Grows
<1> HIDE DEF bs1
<1>4. Grows(bs1, bs2) /\ Len(bs2) = Len(bs1) + 1
  BY <1>1, <1>3, AddBlockGrows
<1> HIDE DEF bs2
<1>5. Grows(blocks, bs2) /\ Len(bs2) = New
  BY <1>1, <1>2, <1>4, GrowsTransitive DEF New
<1>6. QED
  BY <1>5 DEF bs1, bs2

LEMMA InitIInv == Init => IInv
<1> SUFFICES ASSUME Init PROVE IInv
  OBVIOUS
<1> USE NumParamsAssumption
<1>1. ParamSpills \in Seq(InstSet)
  <2>1. \A k \in 1 .. 2 * NumParams : NumParams + k \div 2 \in Nat
    OBVIOUS
  <2>2. \A k \in 1 .. 2 * NumParams :
          (IF k % 2 = 1 THEN ValInst(NumParams + k \div 2) ELSE StoreInst) \in InstSet
    BY <2>1, InstType
  <2>3. 2 * NumParams \in Nat
    OBVIOUS
  <2>4. QED
    BY <2>2, <2>3 DEF ParamSpills
<1>2. Block(EntryLabel, Role(0, "entry"), ParamSpills) \in BlockSet
  BY <1>1, BlockType, RoleType DEF EntryLabel, LabelSet, Parts
<1>3. blocks = <<Block(EntryLabel, Role(0, "entry"), ParamSpills)>>
  BY DEF Init
<1>4. blocks \in Seq(BlockSet) /\ Len(blocks) = 1
  BY <1>2, <1>3
<1>5. /\ frames = <<SeqFrame>> /\ frames \in Seq(FrameSet) /\ Len(frames) = 1
      /\ frames[1].kind = "seq"
  BY FrameType DEF Init
<1>6. TypeOK
  BY <1>4, <1>5 DEF Init, TypeOK
<1>7. FramesOK(blocks, frames)
  BY <1>5 DEF FramesOK, FrameOK
<1>8. /\ DepthOf(frames, LoopKinds) = 0 /\ DepthOf(frames, ListKinds) = 0
  <2>1. /\ {k \in DOMAIN frames : frames[k].kind \in LoopKinds} = {}
        /\ {k \in DOMAIN frames : frames[k].kind \in ListKinds} = {}
    BY <1>5 DEF LoopKinds, ListKinds
  <2>2. QED
    BY <2>1, FS_EmptySet DEF DepthOf
<1>9. Mirrors(blocks, frames, break_stack, continue_stack, true_stack, false_stack)
  BY <1>4, <1>7, <1>8 DEF Init, Mirrors, StackOK
<1>10. QED
  BY <1>6, <1>9 DEF Init, IInv, ExprCalls

-----------------------------------------------------------------------------
(* Statements that call no other statement.                                *)

(* Code added to the current block by a statement that then returns.       *)
LEMMA EmitKeeps ==
  ASSUME IInv, NEW is \in Seq(InstSet),
         blocks' = AddInsts(blocks, cur, is), tmp_id' \in Nat,
         pc' = "stmtret",
         UNCHANGED <<stacks, cur, val, frames, nodes>>
  PROVE  IInv'
<1>1. blocks \in Seq(BlockSet) /\ cur \in 1 .. Len(blocks)
  BY DEF IInv, TypeOK
<1>2. Grows(blocks, blocks') /\ Len(blocks') = Len(blocks)
  BY <1>1, AddInstsGrows
<1>3. Mirrors(blocks', frames', break_stack', continue_stack', true_stack', false_stack')
  BY <1>2, MirrorsGrows DEF IInv, stacks
<1>4. cur' \in DOMAIN blocks'
  BY <1>1, <1>2 DEF Grows
<1>5. TypeOK'
  BY <1>3, <1>4, MirrorsType DEF IInv, TypeOK
<1>6. QED
  BY <1>3, <1>5 DEF IInv, ExprCalls

LEMMA StraightStep ==
  ASSUME IInv, NEW n \in Nat, NEW store \in BOOLEAN, EmitStraight(n, store)
  PROVE  IInv'
<1>1. TypeOK /\ tmp_id + n \in Nat
  BY DEF IInv, TypeOK
<1>2. Straight(n, store) \in Seq(InstSet)
  BY <1>1, StraightType
<1>3. QED
  BY <1>1, <1>2, EmitKeeps DEF EmitStraight

LEMMA ReturnStep ==
  ASSUME IInv, NEW n \in Nat, ReturnStmt(n)
  PROVE  IInv'
<1>1. TypeOK /\ tmp_id + n \in Nat
  BY DEF IInv, TypeOK
<1>2. Append(Straight(n, FALSE), RetInst) \in Seq(InstSet)
  BY <1>1, StraightType
<1>3. QED
  BY <1>1, <1>2, EmitKeeps DEF ReturnStmt

(* The ids of the nodes, and of the loop a break or continue belongs to.   *)
LEMMA LoopType ==
  ASSUME IInv, Loops # {}
  PROVE  /\ Loop \in Nat
         /\ break_stack # <<>> /\ continue_stack # <<>>
<1>1. frames \in Seq(FrameSet)
  BY DEF IInv, TypeOK
<1>2. Loops \subseteq 1 .. Len(frames) /\ Loops = {k \in DOMAIN frames : frames[k].kind \in LoopKinds}
  BY <1>1 DEF Loops, LoopKinds
<1>3. IsFiniteSet(Loops)
  <2>1. IsFiniteSet(1 .. Len(frames))
    BY <1>1, FS_Interval
  <2>2. QED
    BY <1>2, <2>1, FS_Subset
<1>4. DepthOf(frames, LoopKinds) = Cardinality(Loops)
  BY <1>2 DEF DepthOf
<1>5. Cardinality(Loops) # 0
  BY <1>3, FS_EmptySet
<1>6. break_stack # <<>> /\ continue_stack # <<>>
  BY <1>4, <1>5 DEF IInv, Mirrors
<1>7. Max(Loops) \in Loops
  <2>1. Len(frames) \in Nat
    BY <1>1
  <2>2. QED
    BY <1>2, <2>1, MaxIsElement
<1>8. QED
  BY <1>2, <1>6, <1>7, FrameFields DEF Loop, Loops, IInv, TypeOK

(* What is left to show once the stacks and the frames are dealt with.     *)
LEMMA Conclude ==
  ASSUME Mirrors(blocks', frames', break_stack', continue_stack', true_stack', false_stack'),
         tmp_id' \in Nat, nodes' \in Nat, cur' \in 1 .. Len(blocks'),
         pc' \in {"stmt", "stmtret", "expr", "exprret", "done"},
         val' \in {"none", "i1", "i32"}, ExprCalls'
  PROVE  IInv'
<1>1. /\ blocks' \in Seq(BlockSet) /\ frames' \in Seq(FrameSet)
      /\ break_stack' \in Seq(Seq(Nat)) /\ continue_stack' \in Seq(Seq(Nat))
      /\ true_stack' \in Seq(Seq(Nat)) /\ false_stack' \in Seq(Seq(Nat))
  BY MirrorsType
<1>2. TypeOK'
  BY <1>1 DEF TypeOK
<1>3. QED
  BY <1>2 DEF IInv

LEMMA AddTopMirrors ==
  ASSUME NEW bs, NEW fr, NEW bk, NEW co, NEW tr, NEW fa,
         Mirrors(bs, fr, bk, co, tr, fa), NEW b \in 1 .. Len(bs),
         bs[b].insts # <<>>
  PROVE  /\ bk # <<>> => Mirrors(bs, fr, AddTop(bk, <<b>>), co, tr, fa)
         /\ co # <<>> => Mirrors(bs, fr, bk, AddTop(co, <<b>>), tr, fa)
<1>1. ListOK(bs, <<b>>) /\ bs \in Seq(BlockSet)
  BY DEF ListOK, Mirrors
<1>2. \A st : StackOK(bs, st) /\ st # <<>> =>
        /\ StackOK(bs, AddTop(st, <<b>>)) /\ Len(AddTop(st, <<b>>)) = Len(st)
  BY <1>1, StackOKAddTop
<1>3. QED
  BY <1>2 DEF Mirrors

LEMMA JumpStep ==
  ASSUME IInv, BreakStmt \/ ContinueStmt
  PROVE  IInv'
<1>1. /\ blocks \in Seq(BlockSet) /\ cur \in 1 .. Len(blocks)
      /\ tmp_id \in Nat /\ nodes \in Nat /\ val \in {"none", "i1", "i32"}
  BY DEF IInv, TypeOK
<1>2. /\ Loop \in Nat /\ break_stack # <<>> /\ continue_stack # <<>>
  BY LoopType DEF BreakStmt, ContinueStmt
<1>3. PICK r \in RoleSet : blocks' = AddInsts(blocks, cur, <<OpenJump(r)>>)
  <2>1. Role(Loop, "end") \in RoleSet /\ Role(Loop, "check") \in RoleSet
    BY <1>2, RoleType DEF Parts
  <2>2. QED
    BY <2>1 DEF BreakStmt, ContinueStmt
<1>4. <<OpenJump(r)>> \in Seq(InstSet) /\ <<OpenJump(r)>> # <<>>
  BY InstType
<1>5. /\ Grows(blocks, blocks') /\ Len(blocks') = Len(blocks)
      /\ blocks'[cur].insts # <<>>
  BY <1>1, <1>3, <1>4, AddInstsGrows
<1>6. /\ Mirrors(blocks', frames, break_stack, continue_stack, true_stack, false_stack)
      /\ cur \in 1 .. Len(blocks')
  BY <1>1, <1>5, MirrorsGrows DEF IInv
<1>7. /\ Mirrors(blocks', frames, AddTop(break_stack, <<cur>>), continue_stack, true_stack, false_stack)
      /\ Mirrors(blocks', frames, break_stack, AddTop(continue_stack, <<cur>>), true_stack, false_stack)
  BY <1>2, <1>5, <1>6, AddTopMirrors
<1>8. Mirrors(blocks', frames', break_stack', continue_stack', true_stack', false_stack')
  BY <1>7 DEF BreakStmt, ContinueStmt
<1>9. QED
  BY <1>1, <1>6, <1>8, Conclude DEF BreakStmt, ContinueStmt, ExprCalls

LEMMA SameBlocksStep ==
  ASSUME IInv,
         \/ NullStmt \/ NextStmt \/ (\E absent \in BOOLEAN : IfConst(absent))
         \/ WhileFalse \/ CondDecided \/ CondNeutral
  PROVE  IInv'
<1>1. /\ cur \in 1 .. Len(blocks) /\ tmp_id \in Nat /\ nodes \in Nat
      /\ nodes + 1 \in Nat
      /\ val \in {"none", "i1", "i32"}
      /\ pc \in {"stmt", "stmtret", "expr", "exprret", "done"}
  BY DEF IInv, TypeOK
<1>2. /\ UNCHANGED <<blocks, frames, stacks, tmp_id, cur>>
      /\ nodes' \in {nodes, nodes + 1}
      /\ val' \in {val, "i1"}
      /\ \/ pc' \in {"stmt", "stmtret"}
         \/ pc = "expr" /\ pc' \in {"expr", "exprret"}
  BY DEF NullStmt, NextStmt, IfConst, WhileFalse, CondDecided, CondNeutral,
         Node, Expr, stacks
<1>3. Mirrors(blocks', frames', break_stack', continue_stack', true_stack', false_stack')
  BY <1>2 DEF IInv, stacks
<1>4. ExprCalls'
  <2>1. CASE pc' \in {"stmt", "stmtret"}
    BY <2>1 DEF ExprCalls
  <2>2. CASE pc = "expr"
    BY <1>2, <2>2 DEF IInv, ExprCalls, Top, Awaits
  <2>3. QED
    BY <1>2, <2>1, <2>2
<1>5. QED
  BY <1>1, <1>2, <1>3, <1>4, Conclude

LEMMA CompoundStep ==
  ASSUME IInv, CompoundStmt
  PROVE  IInv'
<1>1. /\ cur \in 1 .. Len(blocks) /\ tmp_id \in Nat /\ nodes + 1 \in Nat
      /\ val \in {"none", "i1", "i32"}
  BY DEF IInv, TypeOK
<1>2. SeqFrame \in FrameSet /\ SeqFrame.kind = "seq" /\ FrameOK(SeqFrame, blocks)
  BY FrameType DEF FrameOK
<1>3. Mirrors(blocks, Append(frames, SeqFrame), break_stack, continue_stack, true_stack, false_stack)
  BY <1>2, MirrorsCall DEF IInv
<1>4. QED
  BY <1>1, <1>3, Conclude DEF CompoundStmt, Node, stacks, ExprCalls

LEMMA CompoundEndStep ==
  ASSUME IInv, CompoundEnd
  PROVE  IInv'
<1>1. /\ cur \in 1 .. Len(blocks) /\ tmp_id \in Nat /\ nodes \in Nat
      /\ val \in {"none", "i1", "i32"}
  BY DEF IInv, TypeOK
<1>2. frames # <<>> /\ Last(frames).kind = "seq"
  BY DEF CompoundEnd, TopIsSeq, Top
<1>3. Mirrors(blocks, Front(frames), break_stack, continue_stack, true_stack, false_stack)
  BY <1>2, MirrorsReturn DEF IInv
<1>4. QED
  BY <1>1, <1>3, Conclude DEF CompoundEnd, stacks, ExprCalls

-----------------------------------------------------------------------------
(* The if statement.                                                       *)

LEMMA IfStmtStep ==
  ASSUME IInv, NEW hasElse \in BOOLEAN, IfStmt(hasElse)
  PROVE  IInv'
<1> DEFINE f == IfFrame("cond", nodes + 1, cur, hasElse, "none", 0, 0, 0)
<1>1. /\ cur \in 1 .. Len(blocks) /\ tmp_id \in Nat /\ nodes + 1 \in Nat
      /\ val \in {"none", "i1", "i32"} /\ cur \in Nat
  BY DEF IInv, TypeOK
<1>2. f \in FrameSet /\ f.kind = "if" /\ f.phase = "cond" /\ f.bb = cur
  <2>1. f \in FrameSet
    BY <1>1, FrameType DEF CondVals
  <2>2. QED
    BY <2>1 DEF IfFrame
<1> HIDE DEF f
<1>3. FrameOK(f, blocks)
  BY <1>1, <1>2 DEF FrameOK
<1>4. /\ Mirrors(blocks, Append(frames, f), break_stack, continue_stack,
                 Push(true_stack), Push(false_stack))
      /\ Last(Append(frames, f)) = f /\ Append(frames, f) # <<>>
  BY <1>2, <1>3, MirrorsCall DEF IInv
<1>5. /\ frames' = Append(frames, f) /\ pc' = "expr" /\ nodes' = nodes + 1
      /\ true_stack' = Push(true_stack) /\ false_stack' = Push(false_stack)
      /\ UNCHANGED <<blocks, tmp_id, break_stack, continue_stack, cur, val>>
  BY DEF IfStmt, Node, f
<1>6. ExprCalls'
  BY <1>2, <1>4, <1>5 DEF ExprCalls, Top, Awaits
<1>7. QED
  BY <1>1, <1>4, <1>5, <1>6, Conclude

(* The block of the next phase of a frame: it was just added, to be cur.   *)
LEMMA PhaseStep ==
  ASSUME IInv, frames # <<>>, Grows(blocks, blocks'), Len(blocks') = New,
         NEW f \in FrameSet, FrameOK(f, blocks'), f.kind = Top.kind,
         frames' = SetTop(f),
         UNCHANGED stacks, cur' = New, tmp_id' \in Nat, nodes' = nodes,
         pc' \in {"stmt", "expr"}, pc' = "expr" => Awaits(f),
         val' \in {"none", val}
  PROVE  IInv'
<1>1. /\ nodes \in Nat /\ val \in {"none", "i1", "i32"}
      /\ cur' \in 1 .. Len(blocks')
  BY DEF IInv, TypeOK, New
<1>2. Mirrors(blocks', frames, break_stack, continue_stack, true_stack, false_stack)
  BY MirrorsGrows DEF IInv
<1>3. /\ Mirrors(blocks', Append(Front(frames), f), break_stack, continue_stack,
                 true_stack, false_stack)
      /\ Last(Append(Front(frames), f)) = f /\ Append(Front(frames), f) # <<>>
  BY <1>2, MirrorsNextPhase DEF Top
<1>4. Mirrors(blocks', frames', break_stack', continue_stack', true_stack', false_stack')
  BY <1>3 DEF SetTop, stacks
<1>5. ExprCalls'
  BY <1>3 DEF ExprCalls, Top, SetTop
<1>6. QED
  BY <1>1, <1>4, <1>5, Conclude

LEMMA IfThenStep ==
  ASSUME IInv, IfThen
  PROVE  IInv'
<1> DEFINE f == IfFrame("then", Top.node, Top.bb, Top.hasElse, ToBool(val), New, 0, 0)
<1>1. /\ frames # <<>> /\ Top.kind = "if" /\ TypeOK
  BY DEF IInv, IfThen, At
<1>2. /\ Top.bb \in 1 .. Len(blocks) /\ Top.bb \in Nat /\ Top.node \in Nat
      /\ Top.hasElse \in BOOLEAN
  <2>1. Top \in FrameSet /\ FrameOK(Top, blocks)
    BY <1>1, TopType
  <2>2. QED
    BY <1>1, <2>1, FrameFields DEF FrameOK
<1>3. Grows(blocks, blocks') /\ Len(blocks') = New
  <2>1. "then" \in Parts
    BY DEF Parts
  <2>2. QED
    BY <1>1, <1>2, <2>1, NextBlock DEF IfThen
<1>4. New \in Nat /\ New \in 1 .. Len(blocks') /\ Len(blocks) <= Len(blocks')
  BY <1>1, <1>3 DEF TypeOK, New
<1>5. ToBool(val) \in CondVals /\ AfterIcmp(val) + 1 \in Nat
  BY <1>1, ToBoolType
<1>6. f \in FrameSet /\ f.kind = "if" /\ f.phase = "then" /\ f.bb = Top.bb /\ f.then = New
  <2>1. f \in FrameSet
    BY <1>2, <1>4, <1>5, FrameType
  <2>2. QED
    BY <2>1 DEF IfFrame
<1> HIDE DEF f
<1>7. FrameOK(f, blocks')
  BY <1>2, <1>4, <1>6 DEF FrameOK
<1>8. /\ frames' = SetTop(f) /\ UNCHANGED <<stacks, nodes>> /\ cur' = New
      /\ tmp_id' = AfterIcmp(val) + 1 /\ pc' = "stmt" /\ val' = "none"
  BY DEF IfThen, f
<1>9. QED
  BY <1>1, <1>3, <1>5, <1>6, <1>7, <1>8, PhaseStep

LEMMA IfElseStep ==
  ASSUME IInv, IfElse
  PROVE  IInv'
<1> DEFINE f == IfFrame("else", Top.node, Top.bb, Top.hasElse, Top.cond,
                        Top.then, cur, New)
<1>1. /\ frames # <<>> /\ Top.kind = "if" /\ Top.phase = "then" /\ TypeOK
      /\ cur \in 1 .. Len(blocks) /\ cur \in Nat
  BY DEF IInv, IfElse, At, TypeOK
<1>2. /\ Top.bb \in 1 .. Len(blocks) /\ Top.bb \in Nat /\ Top.node \in Nat
      /\ Top.then \in 1 .. Len(blocks) /\ Top.then \in Nat
      /\ Top.hasElse \in BOOLEAN /\ Top.cond \in CondVals
  <2>1. Top \in FrameSet /\ FrameOK(Top, blocks)
    BY <1>1, TopType
  <2>2. QED
    BY <1>1, <2>1, FrameFields DEF FrameOK
<1>3. Grows(blocks, blocks') /\ Len(blocks') = New
  <2>1. Role(Top.node, "else") \in RoleSet /\ tmp_id \in LabelSet
    BY <1>1, <1>2, RoleType DEF Parts, TypeOK, LabelSet
  <2>2. QED
    BY <1>1, <2>1, AddBlockGrows DEF IfElse, New, TypeOK
<1>4. New \in Nat /\ New \in 1 .. Len(blocks') /\ Len(blocks) <= Len(blocks')
  BY <1>1, <1>3 DEF TypeOK, New
<1>5. /\ f \in FrameSet /\ f.kind = "if" /\ f.phase = "else" /\ f.bb = Top.bb
      /\ f.then = Top.then /\ f.thenEnd = cur /\ f.else = New
  <2>1. f \in FrameSet
    BY <1>1, <1>2, <1>4, FrameType
  <2>2. QED
    BY <2>1 DEF IfFrame
<1> HIDE DEF f
<1>6. FrameOK(f, blocks')
  BY <1>1, <1>2, <1>4, <1>5 DEF FrameOK
<1>7. /\ frames' = SetTop(f) /\ UNCHANGED <<stacks, nodes, val>> /\ cur' = New
      /\ tmp_id' = tmp_id + 1 /\ pc' = "stmt"
  BY DEF IfElse, f
<1>8. tmp_id + 1 \in Nat
  BY <1>1 DEF TypeOK
<1>9. QED
  BY <1>1, <1>3, <1>5, <1>6, <1>7, <1>8, PhaseStep

LEMMA JumpUnlessRetGrows ==
  ASSUME NEW bs \in Seq(BlockSet), NEW b \in 1 .. Len(bs), NEW l \in LabelSet,
         NEW r, To(r) \in WantSet
  PROVE  /\ Grows(bs, JumpUnlessRet(bs, b, l, r))
         /\ Len(JumpUnlessRet(bs, b, l, r)) = Len(bs)
<1>1. <<BrInst(l, To(r))>> \in Seq(InstSet)
  BY InstType
<1>2. QED
  BY <1>1, AddInstsGrows, GrowsReflexive DEF JumpUnlessRet

LEMMA IfEndStep ==
  ASSUME IInv, IfEnd
  PROVE  IInv'
<1> DEFINE f       == Top
           end     == Role(f.node, "end")
           thenEnd == IF f.hasElse THEN f.thenEnd ELSE cur
           onTrue  == blocks[f.then].label
           onFalse == IF f.hasElse THEN blocks[f.else].label ELSE tmp_id
           added   == AddBlock(blocks, tmp_id, end)
           joined  == JumpUnlessRet(added, thenEnd, tmp_id, end)
           joined2 == IF f.hasElse THEN JumpUnlessRet(joined, cur, tmp_id, end)
                                   ELSE joined
           tested  == IF f.cond = "none" THEN joined2
                      ELSE AddInsts(joined2, f.bb, <<CondBr(onTrue, onFalse, Want)>>)
           true    == SetTrue(tested, Last(true_stack), onTrue)
           patched == SetFalse(true, Last(false_stack), onFalse)
<1>1. /\ frames # <<>> /\ f.kind = "if" /\ blocks \in Seq(BlockSet)
      /\ tmp_id \in Nat /\ nodes \in Nat /\ val \in {"none", "i1", "i32"}
      /\ cur \in 1 .. Len(blocks) /\ pc = "stmtret"
      /\ f.phase = "else" \/ (f.phase = "then" /\ ~f.hasElse)
  BY SMTT(30) DEF IInv, IfEnd, At, TypeOK
<1>2. /\ f.bb \in 1 .. Len(blocks) /\ f.then \in 1 .. Len(blocks)
      /\ f.hasElse => f.thenEnd \in 1 .. Len(blocks) /\ f.else \in 1 .. Len(blocks)
      /\ f.node \in Nat /\ Want \in WantSet
  <2>1. Top \in FrameSet /\ FrameOK(Top, blocks) /\ Want \in WantSet
    BY <1>1, TopType
  <2>2. QED
    BY <1>1, <2>1, FrameFields DEF FrameOK
<1>3. /\ end \in RoleSet /\ To(end) \in WantSet
      /\ onTrue \in LabelSet /\ onFalse \in LabelSet /\ tmp_id \in LabelSet
      /\ thenEnd \in 1 .. Len(blocks)
  <2>1. end \in RoleSet /\ To(end) \in WantSet
    BY <1>2, RoleType DEF Parts
  <2>2. tmp_id \in LabelSet /\ onTrue \in LabelSet
    BY <1>1, <1>2, BlockType DEF LabelSet
  <2>3. onFalse \in LabelSet
    BY <1>1, <1>2, <2>2, BlockType
  <2>4. QED
    BY <1>1, <1>2, <2>1, <2>2, <2>3
<1> HIDE DEF end, thenEnd, onTrue, onFalse
<1>4. Grows(blocks, added) /\ Len(added) = New
  BY <1>1, <1>3, AddBlockGrows DEF New
<1>5. New = Len(blocks) + 1 /\ New \in Nat
  BY <1>1 DEF New
<1> HIDE DEF added
<1>6. Grows(added, joined) /\ Len(joined) = New
  <2>1. added \in Seq(BlockSet) /\ thenEnd \in 1 .. Len(added)
    BY <1>3, <1>4, <1>5 DEF Grows
  <2>2. QED
    BY <1>3, <1>4, <2>1, JumpUnlessRetGrows
<1> HIDE DEF joined
<1>7. Grows(joined, joined2) /\ Len(joined2) = New
  <2>1. joined \in Seq(BlockSet) /\ cur \in 1 .. Len(joined)
    BY <1>1, <1>5, <1>6 DEF Grows
  <2>2. /\ Grows(joined, JumpUnlessRet(joined, cur, tmp_id, end))
        /\ Len(JumpUnlessRet(joined, cur, tmp_id, end)) = New
    BY <1>3, <1>6, <2>1, JumpUnlessRetGrows
  <2>3. Grows(joined, joined)
    BY <2>1, GrowsReflexive
  <2>4. QED
    BY <1>6, <2>2, <2>3
<1> HIDE DEF joined2
<1>8. Grows(joined2, tested) /\ Len(tested) = New
  <2>1. joined2 \in Seq(BlockSet) /\ f.bb \in 1 .. Len(joined2)
    BY <1>2, <1>5, <1>7 DEF Grows
  <2>2. <<CondBr(onTrue, onFalse, Want)>> \in Seq(InstSet)
    BY <1>2, <1>3, InstType
  <2>3. QED
    BY <1>7, <2>1, <2>2, AddInstsGrows, GrowsReflexive
<1> HIDE DEF tested
<1>9. Grows(blocks, tested) /\ tested \in Seq(BlockSet)
  <2>1. added \in Seq(BlockSet) /\ joined \in Seq(BlockSet) /\ joined2 \in Seq(BlockSet)
    BY <1>4, <1>6, <1>7 DEF Grows
  <2>2. Grows(blocks, joined)
    BY <1>1, <1>4, <1>6, GrowsTransitive
  <2>3. Grows(blocks, joined2)
    BY <1>1, <1>7, <2>2, GrowsTransitive
  <2>4. QED
    BY <1>1, <1>8, <2>3, GrowsTransitive DEF Grows
<1>10. Mirrors(tested, frames, break_stack, continue_stack, true_stack, false_stack)
  BY <1>9, MirrorsGrows DEF IInv
<1>11. /\ ListOK(tested, Last(true_stack)) /\ ListOK(tested, Last(false_stack))
  BY <1>1, <1>10, MirrorsReturn DEF ListKinds, Top
<1>12. Grows(tested, true) /\ Len(true) = New
  BY <1>3, <1>8, <1>9, <1>11, MapBackGrows
<1> HIDE DEF true
<1>13. ListOK(true, Last(false_stack)) /\ true \in Seq(BlockSet)
  BY <1>9, <1>11, <1>12, ListOKGrows DEF Grows
<1>14. Grows(true, patched) /\ Len(patched) = New
  BY <1>3, <1>12, <1>13, MapBackGrows
<1> HIDE DEF patched
<1>15. Grows(tested, patched)
  BY <1>9, <1>12, <1>14, GrowsTransitive
<1>16. blocks' = IF f.hasElse /\ f.cond # "none" THEN tested ELSE patched
  BY DEF IfEnd, patched, true, tested, joined2, joined, added, onTrue, onFalse, thenEnd, end
<1>17. Grows(tested, blocks') /\ Len(blocks') = New
  BY <1>8, <1>9, <1>14, <1>15, <1>16, GrowsReflexive
<1>18. Mirrors(blocks', frames, break_stack, continue_stack, true_stack, false_stack)
  BY <1>10, <1>17, MirrorsGrows
<1>19. Mirrors(blocks', Front(frames), break_stack, continue_stack,
               Front(true_stack), Front(false_stack))
  BY <1>1, <1>18, MirrorsReturn DEF Top
<1>20. Mirrors(blocks', frames', break_stack', continue_stack', true_stack', false_stack')
  BY <1>19 DEF IfEnd, PopIf
<1>21. cur' \in 1 .. Len(blocks') /\ tmp_id' \in Nat
  BY <1>1, <1>5, <1>17 DEF IfEnd
<1>22. QED
  BY <1>1, <1>20, <1>21, Conclude DEF IfEnd, ExprCalls

-----------------------------------------------------------------------------
(* The while statement.                                                    *)

(* The jump to the check block, and the check block.                       *)
LEMMA CheckGrows ==
  ASSUME TypeOK, NEW n \in Nat
  PROVE  LET bs == AddInsts(AddBlock(blocks, tmp_id, Role(n, "check")),
                            cur, <<BrInst(tmp_id, To(Role(n, "check")))>>)
         IN Grows(blocks, bs) /\ Len(bs) = New
<1> DEFINE bs1 == AddBlock(blocks, tmp_id, Role(n, "check"))
           bs2 == AddInsts(bs1, cur, <<BrInst(tmp_id, To(Role(n, "check")))>>)
<1>1. /\ blocks \in Seq(BlockSet) /\ tmp_id \in LabelSet /\ cur \in 1 .. Len(blocks)
      /\ Role(n, "check") \in RoleSet /\ To(Role(n, "check")) \in WantSet
  BY RoleType DEF TypeOK, LabelSet, Parts
<1>2. Grows(blocks, bs1) /\ Len(bs1) = New /\ cur \in 1 .. Len(bs1)
  BY <1>1, AddBlockGrows DEF New
<1>3. bs1 \in Seq(BlockSet) /\ <<BrInst(tmp_id, To(Role(n, "check")))>> \in Seq(InstSet)
  BY <1>1, <1>2, InstType DEF Grows
<1> HIDE DEF bs1
<1>4. Grows(bs1, bs2) /\ Len(bs2) = New
  BY <1>2, <1>3, AddInstsGrows
<1> HIDE DEF bs2
<1>5. Grows(blocks, bs2) /\ Len(bs2) = New
  BY <1>1, <1>2, <1>4, GrowsTransitive
<1>6. QED
  BY <1>5 DEF bs1, bs2

(* Entering a loop, whatever its condition is.                             *)
LEMMA LoopCall ==
  ASSUME IInv, Grows(blocks, blocks'), NEW f \in FrameSet, f.kind = "while",
         FrameOK(f, blocks'), frames' = Append(frames, f),
         break_stack' = Push(break_stack), continue_stack' = Push(continue_stack),
         true_stack' = Push(true_stack), false_stack' = Push(false_stack),
         cur' \in 1 .. Len(blocks'), tmp_id' \in Nat, nodes' = nodes + 1,
         pc' \in {"stmt", "expr"}, pc' = "expr" => Awaits(f), val' = val
  PROVE  IInv'
<1>1. nodes + 1 \in Nat /\ val \in {"none", "i1", "i32"}
  BY DEF IInv, TypeOK
<1>2. Mirrors(blocks', frames, break_stack, continue_stack, true_stack, false_stack)
  BY MirrorsGrows DEF IInv
<1>3. /\ Mirrors(blocks', frames', break_stack', continue_stack', true_stack', false_stack')
      /\ Last(frames') = f /\ frames' # <<>>
  BY <1>2, MirrorsCall
<1>4. ExprCalls'
  BY <1>3 DEF ExprCalls, Top
<1>5. QED
  BY <1>1, <1>3, <1>4, Conclude

LEMMA WhileTrueStep ==
  ASSUME IInv, WhileTrue
  PROVE  IInv'
<1> DEFINE n   == nodes + 1
           bs1 == AddBlock(blocks, tmp_id, Role(n, "check"))
           bs2 == AddInsts(bs1, cur, <<BrInst(tmp_id, To(Role(n, "check")))>>)
           bs3 == AddBlock(bs2, tmp_id + 1, Role(n, "body"))
           f   == WhileFrame("body", n, New, TRUE, "none", New + 1)
<1>1. /\ TypeOK /\ n \in Nat /\ New \in Nat /\ New + 1 \in Nat /\ New >= 1
      /\ tmp_id + 1 \in Nat /\ tmp_id + 2 \in Nat /\ blocks \in Seq(BlockSet)
  BY DEF IInv, TypeOK, New
<1>2. Grows(blocks, bs2) /\ Len(bs2) = New
  BY <1>1, CheckGrows
<1>3. bs2 \in Seq(BlockSet) /\ Role(n, "body") \in RoleSet /\ tmp_id + 1 \in LabelSet
  BY <1>1, <1>2, RoleType DEF Grows, Parts, LabelSet
<1> HIDE DEF bs1, bs2
<1>4. Grows(bs2, bs3) /\ Len(bs3) = New + 1
  BY <1>2, <1>3, AddBlockGrows
<1>5. Grows(blocks, bs3)
  BY <1>1, <1>2, <1>4, GrowsTransitive
<1> HIDE DEF bs3
<1>6. f \in FrameSet /\ f.kind = "while" /\ f.check = New /\ f.body = New + 1
  <2>1. f \in FrameSet
    BY <1>1, FrameType DEF CondVals
  <2>2. QED
    BY <2>1 DEF WhileFrame
<1> HIDE DEF f
<1>7. FrameOK(f, bs3)
  BY <1>1, <1>4, <1>6 DEF FrameOK
<1>8. /\ blocks' = bs3 /\ frames' = Append(frames, f) /\ nodes' = nodes + 1
      /\ cur' = New + 1 /\ tmp_id' = tmp_id + 2 /\ pc' = "stmt" /\ val' = val
      /\ break_stack' = Push(break_stack) /\ continue_stack' = Push(continue_stack)
      /\ true_stack' = Push(true_stack) /\ false_stack' = Push(false_stack)
  BY DEF WhileTrue, Emit, Stmt, Node, bs1, bs2, bs3, f
<1>9. QED
  BY <1>1, <1>4, <1>5, <1>6, <1>7, <1>8, LoopCall

LEMMA WhileStmtStep ==
  ASSUME IInv, WhileStmt
  PROVE  IInv'
<1> DEFINE n  == nodes + 1
           bs == AddInsts(AddBlock(blocks, tmp_id, Role(n, "check")),
                          cur, <<BrInst(tmp_id, To(Role(n, "check")))>>)
           f  == WhileFrame("cond", n, New, FALSE, "none", 0)
<1>1. /\ TypeOK /\ n \in Nat /\ New \in Nat /\ New >= 1 /\ tmp_id + 1 \in Nat
  BY DEF IInv, TypeOK, New
<1>2. Grows(blocks, bs) /\ Len(bs) = New
  BY <1>1, CheckGrows
<1> HIDE DEF bs
<1>3. f \in FrameSet /\ f.kind = "while" /\ f.phase = "cond" /\ f.check = New
  <2>1. f \in FrameSet
    BY <1>1, FrameType DEF CondVals
  <2>2. QED
    BY <2>1 DEF WhileFrame
<1> HIDE DEF f
<1>4. FrameOK(f, bs)
  BY <1>1, <1>2, <1>3 DEF FrameOK
<1>5. /\ blocks' = bs /\ frames' = Append(frames, f) /\ nodes' = nodes + 1
      /\ cur' = New /\ tmp_id' = tmp_id + 1 /\ pc' = "expr" /\ val' = val
      /\ break_stack' = Push(break_stack) /\ continue_stack' = Push(continue_stack)
      /\ true_stack' = Push(true_stack) /\ false_stack' = Push(false_stack)
  BY DEF WhileStmt, Node, bs, f
<1>6. QED
  BY <1>1, <1>2, <1>3, <1>4, <1>5, LoopCall DEF Awaits

LEMMA WhileBodyStep ==
  ASSUME IInv, WhileBody
  PROVE  IInv'
<1> DEFINE f == WhileFrame("body", Top.node, Top.check, Top.const, ToBool(val), New)
<1>1. /\ frames # <<>> /\ Top.kind = "while" /\ TypeOK
  BY DEF IInv, WhileBody, At
<1>2. /\ Top.check \in 1 .. Len(blocks) /\ Top.check \in Nat /\ Top.node \in Nat
      /\ Top.const \in BOOLEAN
  <2>1. Top \in FrameSet /\ FrameOK(Top, blocks)
    BY <1>1, TopType
  <2>2. QED
    BY <1>1, <2>1, FrameFields DEF FrameOK
<1>3. Grows(blocks, blocks') /\ Len(blocks') = New
  <2>1. "body" \in Parts
    BY DEF Parts
  <2>2. QED
    BY <1>1, <1>2, <2>1, NextBlock DEF WhileBody
<1>4. New \in Nat /\ New \in 1 .. Len(blocks') /\ Len(blocks) <= Len(blocks')
  BY <1>1, <1>3 DEF TypeOK, New
<1>5. ToBool(val) \in CondVals /\ AfterIcmp(val) + 1 \in Nat
  BY <1>1, ToBoolType
<1>6. f \in FrameSet /\ f.kind = "while" /\ f.check = Top.check /\ f.body = New
  <2>1. f \in FrameSet
    BY <1>2, <1>4, <1>5, FrameType
  <2>2. QED
    BY <2>1 DEF WhileFrame
<1> HIDE DEF f
<1>7. FrameOK(f, blocks')
  BY <1>2, <1>4, <1>6 DEF FrameOK
<1>8. /\ frames' = SetTop(f) /\ UNCHANGED <<stacks, nodes>> /\ cur' = New
      /\ tmp_id' = AfterIcmp(val) + 1 /\ pc' = "stmt" /\ val' = "none"
  BY DEF WhileBody, f
<1>9. QED
  BY <1>1, <1>3, <1>5, <1>6, <1>7, <1>8, PhaseStep

LEMMA WhileEndStep ==
  ASSUME IInv, WhileEnd
  PROVE  IInv'
<1> DEFINE f      == Top
           check  == blocks[f.check].label
           body   == blocks[f.body].label
           looped == JumpUnlessRet(blocks, cur, check, Role(f.node, "check"))
           added  == AddBlock(looped, tmp_id, Role(f.node, "end"))
           tested ==
             CASE f.const ->
                    AddInsts(added, f.check, <<BrInst(body, To(Role(f.node, "body")))>>)
               [] ~f.const /\ f.cond # "none" ->
                    AddInsts(added, f.check, <<CondBr(body, tmp_id, Want)>>)
               [] OTHER -> added
           broken    == CloseJumps(tested, Last(break_stack), tmp_id)
           continued == CloseJumps(broken, Last(continue_stack), check)
           true      == SetTrue(continued, Last(true_stack), body)
           false     == SetFalse(true, Last(false_stack), tmp_id)
<1>1. /\ frames # <<>> /\ f.kind = "while" /\ f.phase = "body" /\ blocks \in Seq(BlockSet)
      /\ tmp_id \in Nat /\ nodes \in Nat /\ val \in {"none", "i1", "i32"}
      /\ cur \in 1 .. Len(blocks) /\ pc = "stmtret"
  BY DEF IInv, WhileEnd, At, TypeOK
<1>2. /\ f.check \in 1 .. Len(blocks) /\ f.body \in 1 .. Len(blocks)
      /\ f.node \in Nat /\ Want \in WantSet
  <2>1. Top \in FrameSet /\ FrameOK(Top, blocks) /\ Want \in WantSet
    BY <1>1, TopType
  <2>2. QED
    BY <1>1, <2>1, FrameFields DEF FrameOK
<1>3. /\ \A p \in {"check", "body", "end"} :
           Role(f.node, p) \in RoleSet /\ To(Role(f.node, p)) \in WantSet
      /\ check \in LabelSet /\ body \in LabelSet /\ tmp_id \in LabelSet
  <2>1. {"check", "body", "end"} \subseteq Parts
    BY DEF Parts
  <2>2. \A p \in {"check", "body", "end"} :
           Role(f.node, p) \in RoleSet /\ To(Role(f.node, p)) \in WantSet
    BY <1>2, <2>1, RoleType
  <2>3. tmp_id \in LabelSet /\ check \in LabelSet /\ body \in LabelSet
    BY <1>1, <1>2, BlockType DEF LabelSet
  <2>4. QED
    BY <2>2, <2>3
<1> HIDE DEF check, body
<1>4. Grows(blocks, looped) /\ Len(looped) = Len(blocks)
  BY <1>1, <1>3, JumpUnlessRetGrows
<1>5. looped \in Seq(BlockSet)
  BY <1>4 DEF Grows
<1> HIDE DEF looped
<1>6. Grows(looped, added) /\ Len(added) = New
  BY <1>3, <1>4, <1>5, AddBlockGrows DEF New
<1>7. New = Len(blocks) + 1 /\ New \in Nat /\ added \in Seq(BlockSet)
  BY <1>1, <1>6 DEF New, Grows
<1> HIDE DEF added
<1>8. Grows(added, tested) /\ Len(tested) = New
  <2>1. f.check \in 1 .. Len(added)
    BY <1>2, <1>6, <1>7
  <2>2. /\ <<BrInst(body, To(Role(f.node, "body")))>> \in Seq(InstSet)
        /\ <<CondBr(body, tmp_id, Want)>> \in Seq(InstSet)
    BY <1>2, <1>3, InstType
  <2> DEFINE always == AddInsts(added, f.check, <<BrInst(body, To(Role(f.node, "body")))>>)
             test   == AddInsts(added, f.check, <<CondBr(body, tmp_id, Want)>>)
  <2>3. /\ Grows(added, always) /\ Len(always) = Len(added)
        /\ Grows(added, test) /\ Len(test) = Len(added)
    BY <1>7, <2>1, <2>2, AddInstsGrows
  <2>4. Grows(added, added)
    BY <1>7, GrowsReflexive
  <2>5. tested = always \/ tested = test \/ tested = added
    BY Zenon
  <2> HIDE DEF tested, always, test
  <2>6. QED
    BY <1>6, <2>3, <2>4, <2>5
<1> HIDE DEF tested
<1>9. Grows(blocks, tested) /\ tested \in Seq(BlockSet)
  <2>1. Grows(blocks, added)
    BY <1>1, <1>4, <1>6, GrowsTransitive
  <2>2. QED
    BY <1>1, <1>8, <2>1, GrowsTransitive DEF Grows
<1>10. Mirrors(tested, frames, break_stack, continue_stack, true_stack, false_stack)
  BY <1>9, MirrorsGrows DEF IInv
<1>11. /\ ListOK(tested, Last(true_stack)) /\ ListOK(tested, Last(false_stack))
       /\ ListOK(tested, Last(break_stack)) /\ ListOK(tested, Last(continue_stack))
  BY <1>1, <1>10, MirrorsReturn DEF ListKinds, Top
<1>12. Grows(tested, broken) /\ Len(broken) = New
  BY <1>3, <1>8, <1>9, <1>11, MapBackGrows
<1> HIDE DEF broken
<1>13. /\ ListOK(broken, Last(continue_stack)) /\ broken \in Seq(BlockSet)
       /\ ListOK(broken, Last(true_stack)) /\ ListOK(broken, Last(false_stack))
  BY <1>9, <1>11, <1>12, ListOKGrows DEF Grows
<1>14. Grows(broken, continued) /\ Len(continued) = New
  BY <1>3, <1>12, <1>13, MapBackGrows
<1> HIDE DEF continued
<1>15. /\ continued \in Seq(BlockSet)
       /\ ListOK(continued, Last(true_stack)) /\ ListOK(continued, Last(false_stack))
  BY <1>13, <1>14, ListOKGrows DEF Grows
<1>16. Grows(continued, true) /\ Len(true) = New
  BY <1>3, <1>14, <1>15, MapBackGrows
<1> HIDE DEF true
<1>17. true \in Seq(BlockSet) /\ ListOK(true, Last(false_stack))
  BY <1>15, <1>16, ListOKGrows DEF Grows
<1>18. Grows(true, false) /\ Len(false) = New
  BY <1>3, <1>16, <1>17, MapBackGrows
<1> HIDE DEF false
<1>19. Grows(tested, false)
  <2>1. Grows(tested, continued)
    BY <1>9, <1>12, <1>14, GrowsTransitive
  <2>2. Grows(tested, true)
    BY <1>9, <1>16, <2>1, GrowsTransitive
  <2>3. QED
    BY <1>9, <1>18, <2>2, GrowsTransitive
<1>20. blocks' = false
  BY Zenon DEF WhileEnd, false, true, continued, broken, tested, added, looped, check, body
<1>21. Mirrors(blocks', frames, break_stack, continue_stack, true_stack, false_stack)
  BY <1>10, <1>19, <1>20, MirrorsGrows
<1>22. Mirrors(blocks', Front(frames), Front(break_stack), Front(continue_stack),
               Front(true_stack), Front(false_stack))
  BY <1>1, <1>21, MirrorsReturn DEF Top
<1>23. /\ Mirrors(blocks', frames', break_stack', continue_stack', true_stack', false_stack')
       /\ cur' = New /\ tmp_id' = tmp_id + 1 /\ UNCHANGED <<pc, val, nodes>>
  BY <1>22, Zenon DEF WhileEnd
<1>24. cur' \in 1 .. Len(blocks') /\ tmp_id' \in Nat
  BY <1>1, <1>7, <1>18, <1>20, <1>23
<1>25. ExprCalls'
  BY <1>1, <1>23 DEF ExprCalls
<1>26. QED
  BY <1>1, <1>23, <1>24, <1>25, Conclude

-----------------------------------------------------------------------------
(* Expressions.                                                            *)

LEMMA PlainExprStep ==
  ASSUME IInv, NEW type \in {"i1", "i32"}, PlainExpr(type)
  PROVE  IInv'
<1>1. /\ blocks \in Seq(BlockSet) /\ cur \in 1 .. Len(blocks)
      /\ tmp_id \in Nat /\ tmp_id + 1 \in Nat /\ nodes \in Nat
  BY DEF IInv, TypeOK
<1>2. <<ValInst(tmp_id)>> \in Seq(InstSet)
  BY <1>1, InstType
<1>3. Grows(blocks, blocks') /\ Len(blocks') = Len(blocks)
  BY <1>1, <1>2, AddInstsGrows DEF PlainExpr
<1>4. Mirrors(blocks', frames', break_stack', continue_stack', true_stack', false_stack')
  BY <1>3, MirrorsGrows DEF IInv, PlainExpr, stacks
<1>5. ExprCalls'
  BY DEF PlainExpr, Expr, IInv, ExprCalls, Top, Awaits
<1>6. cur' \in 1 .. Len(blocks') /\ tmp_id' \in Nat /\ nodes' \in Nat
  BY <1>1, <1>3 DEF PlainExpr
<1>7. pc' = "exprret" /\ val' \in {"none", "i1", "i32"}
  BY DEF PlainExpr
<1>8. QED
  BY <1>4, <1>5, <1>6, <1>7, Conclude

LEMMA CondOperatorStep ==
  ASSUME IInv, NEW op \in {"and", "or"}, CondOperator(op)
  PROVE  IInv'
<1> DEFINE n  == nodes + 1
           bs == AddBlock(blocks, tmp_id, Role(n, "lhs"))
           f  == CondFrame(op, "lhs", n, cur, New, 0, "none", Want, <<>>, <<>>)
<1>1. /\ blocks \in Seq(BlockSet) /\ cur \in 1 .. Len(blocks) /\ cur \in Nat
      /\ tmp_id \in LabelSet /\ tmp_id + 1 \in Nat /\ n \in Nat
      /\ val \in {"none", "i1", "i32"} /\ New = Len(blocks) + 1 /\ New \in Nat
  BY DEF IInv, TypeOK, LabelSet, New
<1>2. frames # <<>> /\ Awaits(Top)
  BY DEF IInv, ExprCalls, CondOperator, Expr
<1>3. Want \in WantSet
  BY <1>2, TopType DEF Awaits
<1>4. Role(n, "lhs") \in RoleSet
  BY <1>1, RoleType DEF Parts
<1>5. Grows(blocks, bs) /\ Len(bs) = New
  BY <1>1, <1>4, AddBlockGrows
<1> HIDE DEF bs
<1>6. /\ f \in FrameSet /\ f.kind = "cond" /\ f.phase = "lhs" /\ f.bb = cur
      /\ f.lhs = New /\ f.lhs_true = <<>> /\ f.lhs_false = <<>>
  <2>1. <<>> \in Seq(Nat) /\ "none" \in CondVals
    BY DEF CondVals
  <2>2. f \in FrameSet
    BY <1>1, <1>3, <2>1, FrameType
  <2>3. QED
    BY <2>2 DEF CondFrame
<1> HIDE DEF f
<1>7. FrameOK(f, bs)
  BY <1>1, <1>5, <1>6 DEF FrameOK, ListOK
<1>8. Mirrors(bs, frames, break_stack, continue_stack, true_stack, false_stack)
  BY <1>5, MirrorsGrows DEF IInv
<1>9. /\ Mirrors(bs, Append(frames, f), break_stack, continue_stack,
                 Push(true_stack), Push(false_stack))
      /\ Last(Append(frames, f)) = f /\ Append(frames, f) # <<>>
  BY <1>2, <1>6, <1>7, <1>8, MirrorsCall DEF Top
<1>10. /\ blocks' = bs /\ frames' = Append(frames, f) /\ nodes' = n
       /\ true_stack' = Push(true_stack) /\ false_stack' = Push(false_stack)
       /\ cur' = New /\ tmp_id' = tmp_id + 1
       /\ pc = "expr" /\ UNCHANGED <<break_stack, continue_stack, pc, val>>
  BY DEF CondOperator, Expr, Node, bs, f
<1>11. ExprCalls'
  BY <1>6, <1>9, <1>10 DEF ExprCalls, Top, Awaits
<1>12. cur' \in 1 .. Len(blocks')
  BY <1>1, <1>5, <1>10
<1>13. QED
  BY <1>1, <1>9, <1>10, <1>11, <1>12, Conclude

LEMMA CondRhsStep ==
  ASSUME IInv, CondRhs
  PROVE  IInv'
<1> DEFINE f == CondFrame(Top.op, "rhs", Top.node, Top.bb, Top.lhs, New,
                          ToBool(val), Top.want, Last(true_stack), Last(false_stack))
<1>1. /\ frames # <<>> /\ Top.kind = "cond" /\ TypeOK /\ nodes \in Nat
  BY DEF IInv, CondRhs, At, TypeOK
<1>2. /\ Top.lhs \in 1 .. Len(blocks) /\ Top.lhs \in Nat /\ Top.node \in Nat
      /\ Top.bb \in 1 .. Len(blocks) /\ Top.bb \in Nat
      /\ Top.op \in {"and", "or"} /\ Top.want \in WantSet
  <2>1. Top \in FrameSet /\ FrameOK(Top, blocks)
    BY <1>1, TopType
  <2>2. QED
    BY <1>1, <2>1, FrameFields DEF FrameOK
<1>3. Grows(blocks, blocks') /\ Len(blocks') = New
  <2>1. "rhs" \in Parts
    BY DEF Parts
  <2>2. QED
    BY <1>1, <1>2, <2>1, NextBlock DEF CondRhs
<1>4. /\ New \in Nat /\ New \in 1 .. Len(blocks') /\ Len(blocks) <= Len(blocks')
      /\ blocks' \in Seq(BlockSet)
  BY <1>1, <1>3 DEF TypeOK, New, Grows
<1>5. ToBool(val) \in CondVals /\ AfterIcmp(val) + 1 \in Nat
  BY <1>1, ToBoolType
<1>6. Mirrors(blocks', frames, break_stack, continue_stack, true_stack, false_stack)
  BY <1>3, MirrorsGrows DEF IInv
<1>7. /\ ListOK(blocks', Last(true_stack)) /\ ListOK(blocks', Last(false_stack))
      /\ Mirrors(blocks', Front(frames), break_stack, continue_stack,
                 Front(true_stack), Front(false_stack))
  BY <1>1, <1>6, MirrorsReturn DEF Top, ListKinds
<1>8. Last(true_stack) \in Seq(Nat) /\ Last(false_stack) \in Seq(Nat)
  BY <1>4, <1>7 DEF ListOK
<1>9. Front(frames) # <<>> /\ Awaits(Last(Front(frames)))
  BY <1>1, <1>4, <1>6, FramesOKPop DEF Top, Mirrors
<1>10. /\ f \in FrameSet /\ f.kind = "cond" /\ f.bb = Top.bb /\ f.lhs = Top.lhs
       /\ f.rhs = New
       /\ f.lhs_true = Last(true_stack) /\ f.lhs_false = Last(false_stack)
  <2>1. f \in FrameSet
    BY <1>2, <1>4, <1>5, <1>8, FrameType
  <2>2. QED
    BY <2>1 DEF CondFrame
<1> HIDE DEF f
<1>11. FrameOK(f, blocks')
  BY <1>2, <1>4, <1>7, <1>10 DEF FrameOK
<1>12. /\ Mirrors(blocks', Append(Front(frames), f), break_stack, continue_stack,
                  Push(Front(true_stack)), Push(Front(false_stack)))
       /\ Last(Append(Front(frames), f)) = f /\ Append(Front(frames), f) # <<>>
  BY <1>7, <1>9, <1>10, <1>11, MirrorsCall
<1>13. /\ frames' = Append(Front(frames), f) /\ cur' = New
       /\ true_stack' = Push(Front(true_stack)) /\ false_stack' = Push(Front(false_stack))
       /\ UNCHANGED <<break_stack, continue_stack, nodes>>
       /\ tmp_id' = AfterIcmp(val) + 1 /\ pc' = "expr" /\ val' = "none"
  BY DEF CondRhs, SetTop, f
<1>14. ExprCalls'
  BY <1>10, <1>12, <1>13 DEF ExprCalls, Top, Awaits
<1>15. QED
  BY <1>1, <1>4, <1>5, <1>12, <1>13, <1>14, Conclude

(* The two patches of an operator, and the lists of jumps that leave it.   *)
LEMMA LinkGrows ==
  ASSUME NEW bs \in Seq(BlockSet), NEW f \in FrameSet, f.kind = "cond",
         f.phase = "rhs", FrameOK(f, bs), NEW l \in LabelSet,
         NEW v \in {"none", "i1", "i32"}
  PROVE  LET bs1 == LinkLhs(bs, f, l)
             bs2 == LinkRhs(bs1, f, v, l)
         IN /\ Grows(bs, bs2) /\ Len(bs2) = Len(bs)
            /\ f.cond # "none" => bs2[f.lhs].insts # <<>>
            /\ v # "none" => bs2[f.rhs].insts # <<>>
<1> DEFINE bs1  == LinkLhs(bs, f, l)
           bs2  == LinkRhs(bs1, f, v, l)
           is   == <<CondBr(l, l, LhsWant(f))>>
           is2  == <<CondBr(l, l, f.want)>>
<1>1. /\ f.lhs \in 1 .. Len(bs) /\ f.rhs \in 1 .. Len(bs)
      /\ ListOK(bs, f.lhs_true) /\ ListOK(bs, f.lhs_false)
      /\ f.want \in WantSet /\ f.node \in Nat
  BY FrameFields DEF FrameOK
<1>2. LhsWant(f) \in WantSet
  <2>1. Role(f.node, "rhs") \in RoleSet
    BY <1>1, RoleType DEF Parts
  <2>2. f.want.t \in RoleSet /\ f.want.f \in RoleSet
    BY <1>1 DEF WantSet
  <2>3. QED
    BY <2>1, <2>2 DEF LhsWant, WantSet
<1>3. /\ is \in Seq(InstSet) /\ is # <<>> /\ is2 \in Seq(InstSet) /\ is2 # <<>>
  <2>1. CondBr(l, l, LhsWant(f)) \in InstSet /\ CondBr(l, l, f.want) \in InstSet
    BY <1>1, <1>2, InstType
  <2>2. QED
    BY <2>1
<1> DEFINE tested == AddInsts(bs, f.lhs, is)
<1> HIDE DEF is, is2
<1>4. /\ Grows(bs, tested) /\ Len(tested) = Len(bs) /\ tested[f.lhs].insts # <<>>
  BY <1>1, <1>3, AddInstsGrows
<1>5. /\ Grows(bs, SetTrue(bs, f.lhs_true, l)) /\ Len(SetTrue(bs, f.lhs_true, l)) = Len(bs)
      /\ Grows(bs, SetFalse(bs, f.lhs_false, l)) /\ Len(SetFalse(bs, f.lhs_false, l)) = Len(bs)
  BY <1>1, MapBackGrows
<1>6. /\ f.cond # "none" => bs1 = tested
      /\ \/ bs1 = tested
         \/ bs1 = SetTrue(bs, f.lhs_true, l)
         \/ bs1 = SetFalse(bs, f.lhs_false, l)
  BY Zenon DEF LinkLhs, is
<1> HIDE DEF bs1, tested
<1>7. /\ Grows(bs, bs1) /\ Len(bs1) = Len(bs) /\ bs1 \in Seq(BlockSet)
      /\ f.cond # "none" => bs1[f.lhs].insts # <<>>
  BY <1>4, <1>5, <1>6 DEF Grows
<1>8. /\ Grows(bs1, bs2) /\ Len(bs2) = Len(bs)
      /\ v # "none" => bs2[f.rhs].insts # <<>>
  <2> DEFINE test == AddInsts(bs1, f.rhs, is2)
  <2>1. /\ Grows(bs1, test) /\ Len(test) = Len(bs1) /\ test[f.rhs].insts # <<>>
    BY <1>1, <1>3, <1>7, AddInstsGrows
  <2>2. Grows(bs1, bs1)
    BY <1>7, GrowsReflexive
  <2>3. bs2 = IF v = "none" THEN bs1 ELSE test
    BY DEF LinkRhs, is2
  <2> HIDE DEF test, bs2
  <2>4. QED
    BY <1>7, <2>1, <2>2, <2>3
<1> HIDE DEF bs2
<1>9. Grows(bs, bs2)
  BY <1>7, <1>8, GrowsTransitive
<1>10. f.cond # "none" => bs2[f.lhs].insts # <<>>
  <2>1. bs1[f.lhs].insts \in Seq(InstSet) /\ bs2[f.lhs].insts \in Seq(InstSet)
    BY <1>1, <1>7, <1>8, BlockType DEF Grows
  <2>2. Len(bs1[f.lhs].insts) <= Len(bs2[f.lhs].insts)
    BY <1>1, <1>7, <1>8 DEF Grows
  <2>3. QED
    BY <1>7, <2>1, <2>2
<1>11. QED
  BY <1>8, <1>9, <1>10 DEF bs1, bs2

LEMMA LeavingListsOK ==
  ASSUME NEW bs \in Seq(BlockSet), NEW f \in FrameSet, f.kind = "cond",
         f.phase = "rhs", FrameOK(f, bs), NEW v,
         f.cond # "none" => bs[f.lhs].insts # <<>>,
         v # "none" => bs[f.rhs].insts # <<>>,
         NEW l, ListOK(bs, l)
  PROVE  /\ ListOK(bs, LhsTrueLeaving(f) \o RhsLeaving(f, v, l))
         /\ ListOK(bs, LhsFalseLeaving(f) \o RhsLeaving(f, v, l))
<1>1. /\ f.lhs \in 1 .. Len(bs) /\ f.rhs \in 1 .. Len(bs)
      /\ ListOK(bs, f.lhs_true) /\ ListOK(bs, f.lhs_false)
      /\ f.op \in {"and", "or"}
  BY FrameFields DEF FrameOK
<1>2. /\ ListOK(bs, <<>>)
      /\ f.cond # "none" => ListOK(bs, <<f.lhs>>)
      /\ v # "none" => ListOK(bs, <<f.rhs>>)
  BY <1>1 DEF ListOK
<1>3. ListOK(bs, RhsLeaving(f, v, l))
  BY <1>2 DEF RhsLeaving
<1>4. \/ LhsTrueLeaving(f) = <<>>
      \/ LhsTrueLeaving(f) = f.lhs_true
      \/ f.cond # "none" /\ LhsTrueLeaving(f) = <<f.lhs>>
  BY <1>1, Zenon DEF LhsTrueLeaving
<1>5. \/ LhsFalseLeaving(f) = <<>>
      \/ LhsFalseLeaving(f) = f.lhs_false
      \/ f.cond # "none" /\ LhsFalseLeaving(f) = <<f.lhs>>
  BY <1>1, Zenon DEF LhsFalseLeaving
<1>6. ListOK(bs, LhsTrueLeaving(f)) /\ ListOK(bs, LhsFalseLeaving(f))
  BY <1>1, <1>2, <1>4, <1>5
<1>7. QED
  BY <1>3, <1>6, ListOKConcat

LEMMA CondEndStep ==
  ASSUME IInv, CondEnd
  PROVE  IInv'
<1> DEFINE f     == Top
           l     == blocks[f.rhs].label
           icmp  == AddInsts(blocks, f.rhs, IcmpInsts(val))
           enter == AddInsts(icmp, f.bb, <<BrInst(blocks[f.lhs].label,
                                                  To(Role(f.node, "lhs")))>>)
           linked == LinkRhs(LinkLhs(enter, f, l), f, val, l)
<1>1. /\ frames # <<>> /\ f.kind = "cond" /\ f.phase = "rhs" /\ TypeOK
      /\ blocks \in Seq(BlockSet) /\ cur \in 1 .. Len(blocks) /\ nodes \in Nat
      /\ val \in {"none", "i1", "i32"} /\ pc = "exprret"
  BY DEF IInv, CondEnd, At, TypeOK
<1>2. f \in FrameSet /\ FrameOK(f, blocks)
  BY <1>1, TopType
<1>3. /\ f.rhs \in 1 .. Len(blocks) /\ f.lhs \in 1 .. Len(blocks)
      /\ f.bb \in 1 .. Len(blocks) /\ f.node \in Nat
  BY <1>1, <1>2, FrameFields DEF FrameOK
<1>4. /\ IcmpInsts(val) \in Seq(InstSet) /\ AfterIcmp(val) \in Nat
      /\ l \in LabelSet /\ blocks[f.lhs].label \in LabelSet
  BY <1>1, <1>3, ToBoolType, BlockType
<1>5. <<BrInst(blocks[f.lhs].label, To(Role(f.node, "lhs")))>> \in Seq(InstSet)
  <2>1. To(Role(f.node, "lhs")) \in WantSet
    BY <1>3, RoleType DEF Parts
  <2>2. QED
    BY <1>4, <2>1, InstType
<1>6. Grows(blocks, icmp) /\ Len(icmp) = Len(blocks)
  BY <1>1, <1>3, <1>4, AddInstsGrows
<1>7. icmp \in Seq(BlockSet) /\ f.bb \in 1 .. Len(icmp)
  BY <1>3, <1>6 DEF Grows
<1> HIDE DEF icmp
<1>8. Grows(icmp, enter) /\ Len(enter) = Len(blocks)
  BY <1>5, <1>6, <1>7, AddInstsGrows
<1>9. enter \in Seq(BlockSet) /\ Grows(blocks, enter)
  BY <1>1, <1>6, <1>8, GrowsTransitive DEF Grows
<1> HIDE DEF enter
<1>10. FrameOK(f, enter)
  BY <1>1, <1>2, <1>9, FrameOKGrows
<1> HIDE DEF f, l
<1>11. /\ Grows(enter, linked) /\ Len(linked) = Len(blocks)
       /\ f.cond # "none" => linked[f.lhs].insts # <<>>
       /\ val # "none" => linked[f.rhs].insts # <<>>
  BY <1>1, <1>2, <1>4, <1>8, <1>9, <1>10, LinkGrows
<1> HIDE DEF linked
<1>12. Grows(blocks, linked) /\ linked \in Seq(BlockSet)
  BY <1>1, <1>9, <1>11, GrowsTransitive DEF Grows
<1>13. Mirrors(linked, frames, break_stack, continue_stack, true_stack, false_stack)
  BY <1>12, MirrorsGrows DEF IInv
<1>14. /\ ListOK(linked, Last(true_stack)) /\ ListOK(linked, Last(false_stack))
       /\ Mirrors(linked, Front(frames), break_stack, continue_stack,
                  Front(true_stack), Front(false_stack))
       /\ Front(true_stack) # <<>> /\ Front(false_stack) # <<>>
  BY <1>1, <1>13, MirrorsReturn DEF Top, ListKinds, f
<1> DEFINE lt == LhsTrueLeaving(f) \o RhsLeaving(f, val, Last(true_stack))
           lf == LhsFalseLeaving(f) \o RhsLeaving(f, val, Last(false_stack))
<1>15. ListOK(linked, lt) /\ ListOK(linked, lf)
  <2>1. FrameOK(f, linked)
    BY <1>1, <1>2, <1>12, FrameOKGrows
  <2>2. QED
    BY <1>1, <1>2, <1>11, <1>12, <1>14, <2>1, LeavingListsOK
<1> HIDE DEF lt, lf
<1>16. Mirrors(linked, Front(frames), break_stack, continue_stack,
               AddTop(Front(true_stack), lt), AddTop(Front(false_stack), lf))
  <2>1. /\ StackOK(linked, AddTop(Front(true_stack), lt))
        /\ Len(AddTop(Front(true_stack), lt)) = Len(Front(true_stack))
        /\ StackOK(linked, AddTop(Front(false_stack), lf))
        /\ Len(AddTop(Front(false_stack), lf)) = Len(Front(false_stack))
    BY <1>12, <1>14, <1>15, StackOKAddTop DEF Mirrors
  <2>2. QED
    BY <1>14, <2>1 DEF Mirrors
<1>17. /\ blocks' = linked /\ frames' = Front(frames) /\ val' = "none"
       /\ true_stack' = AddTop(Front(true_stack), lt)
       /\ false_stack' = AddTop(Front(false_stack), lf)
       /\ tmp_id' = AfterIcmp(val)
       /\ UNCHANGED <<break_stack, continue_stack, pc, cur, nodes>>
  BY Zenon DEF CondEnd, linked, enter, icmp, l, f, lt, lf
<1>18. ExprCalls'
  <2>1. Front(frames) # <<>> /\ Awaits(Last(Front(frames)))
    BY <1>1, <1>12, <1>13, FramesOKPop DEF Top, Mirrors, f
  <2>2. QED
    BY <1>17, <2>1 DEF ExprCalls, Top
<1>19. cur' \in 1 .. Len(blocks')
  BY <1>1, <1>11, <1>17
<1>20. QED
  BY <1>1, <1>4, <1>16, <1>17, <1>18, <1>19, Conclude

LEMMA FunctionEndStep ==
  ASSUME IInv, FunctionEnd
  PROVE  IInv'
<1>1. /\ blocks \in Seq(BlockSet) /\ cur \in 1 .. Len(blocks)
      /\ tmp_id \in Nat /\ nodes \in Nat /\ val \in {"none", "i1", "i32"}
  BY DEF IInv, TypeOK
<1>2. <<RetInst>> \in Seq(InstSet)
  BY InstType
<1>3. Grows(blocks, blocks') /\ Len(blocks') = Len(blocks)
  BY <1>1, <1>2, AddInstsGrows, GrowsReflexive DEF FunctionEnd
<1>4. Mirrors(blocks', frames', break_stack', continue_stack', true_stack', false_stack')
  BY <1>3, MirrorsGrows DEF IInv, FunctionEnd, stacks
<1>5. QED
  BY <1>1, <1>3, <1>4, Conclude DEF FunctionEnd, ExprCalls

-----------------------------------------------------------------------------
(* Every action of Next preserves the invariant.                           *)
LEMMA NextIInv == IInv /\ [Next]_vars => IInv'
<1> SUFFICES ASSUME IInv, [Next]_vars PROVE IInv'
  OBVIOUS
<1> USE StmtValsAssumption
<1>1. CASE NullStmt \/ NextStmt \/ (\E absent \in BOOLEAN : IfConst(absent))
           \/ WhileFalse \/ CondDecided \/ CondNeutral
  BY <1>1, SameBlocksStep
<1>2. CASE \E n \in StmtVals, init \in BOOLEAN : DeclStmt(n, init)
  <2>1. PICK n \in StmtVals, init \in BOOLEAN : DeclStmt(n, init)
    BY <1>2
  <2>2. n \in Nat /\ n + 1 \in Nat
    OBVIOUS
  <2>3. EmitStraight(n + 1, init) \/ EmitStraight(1, init)
    BY <2>1 DEF DeclStmt
  <2>4. QED
    BY <2>2, <2>3, StraightStep
<1>3. CASE \E n \in StmtVals : AssignStmt(n)
  BY <1>3, StraightStep DEF AssignStmt
<1>4. CASE \E n \in StmtVals, int \in BOOLEAN : CallStmt(n, int)
  <2>1. PICK n \in StmtVals, int \in BOOLEAN : CallStmt(n, int)
    BY <1>4
  <2>2. n \in Nat /\ n + 1 \in Nat /\ (~int) \in BOOLEAN
    OBVIOUS
  <2>3. EmitStraight(n + 1, ~int) \/ EmitStraight(n, ~int)
    BY <2>1 DEF CallStmt
  <2>4. QED
    BY <2>2, <2>3, StraightStep
<1>5. CASE \E n \in StmtVals : ReturnStmt(n)
  BY <1>5, ReturnStep
<1>6. CASE BreakStmt \/ ContinueStmt
  BY <1>6, JumpStep
<1>7. CASE CompoundStmt
  BY <1>7, CompoundStep
<1>8. CASE CompoundEnd
  BY <1>8, CompoundEndStep
<1>9. CASE \E hasElse \in BOOLEAN : IfStmt(hasElse)
  BY <1>9, IfStmtStep
<1>10. CASE IfThen
  BY <1>10, IfThenStep
<1>11. CASE IfElse
  BY <1>11, IfElseStep
<1>12. CASE IfEnd
  BY <1>12, IfEndStep
<1>13. CASE WhileTrue
  BY <1>13, WhileTrueStep
<1>14. CASE WhileStmt
  BY <1>14, WhileStmtStep
<1>15. CASE WhileBody
  BY <1>15, WhileBodyStep
<1>16. CASE WhileEnd
  BY <1>16, WhileEndStep
<1>17. CASE \E type \in {"i1", "i32"} : PlainExpr(type)
  BY <1>17, PlainExprStep
<1>18. CASE \E op \in {"and", "or"} : CondOperator(op)
  BY <1>18, CondOperatorStep
<1>19. CASE CondRhs
  BY <1>19, CondRhsStep
<1>20. CASE CondEnd
  BY <1>20, CondEndStep
<1>21. CASE FunctionEnd
  BY <1>21, FunctionEndStep
<1>22. CASE Finished \/ UNCHANGED vars
  <2>1. UNCHANGED vars
    BY <1>22 DEF Finished
  <2>2. /\ UNCHANGED <<blocks, tmp_id, pc, cur, val, frames, nodes>>
        /\ UNCHANGED <<break_stack, continue_stack, true_stack, false_stack>>
    BY <2>1 DEF vars, stacks
  <2>3. TypeOK' /\ ExprCalls'
    BY <2>2 DEF IInv, TypeOK, ExprCalls, Top
  <2>4. QED
    BY <2>2, <2>3 DEF IInv
<1>23. QED
  BY <1>1, <1>2, <1>3, <1>4, <1>5, <1>6, <1>7, <1>8, <1>9, <1>10, <1>11, <1>12,
     <1>13, <1>14, <1>15, <1>16, <1>17, <1>18, <1>19, <1>20, <1>21, <1>22
  DEF Next

LEMMA Invariance == Spec => []IInv
BY InitIInv, NextIInv, PTL DEF Spec

-----------------------------------------------------------------------------
(* The results.                                                            *)

(* Whatever the program, its depth and its length, every variable of the   *)
(* translator keeps its type and the current block is one that exists.     *)
THEOREM TypeCorrect == Spec => []TypeOK
<1>1. IInv => TypeOK
  BY DEF IInv
<1>2. QED
  BY Invariance, <1>1, PTL

(* Whatever the program, the four static stacks mirror the recursion after *)
(* every step, whichever way each Translate function returned.             *)
THEOREM StacksMirrorRecursion == Spec => []StackDiscipline
<1>1. IInv => StackDiscipline
  BY DEF IInv, Mirrors, StackDiscipline, Depth, DepthOf, LoopKinds, ListKinds
<1>2. QED
  BY Invariance, <1>1, PTL
=============================================================================
