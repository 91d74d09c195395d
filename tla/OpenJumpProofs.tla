--------------------------- MODULE OpenJumpProofs ---------------------------
(***************************************************************************)
(* Machine-checked proofs about the jumps that ast_to_ir.cc leaves open    *)
(* and patches later, for programs in which no statement follows a jump in *)
(* the same block: none is lost, none is patched for the wrong construct,  *)
(* and none is left behind.                                                *)
(***************************************************************************)
EXTENDS BackpatchingProofs

-----------------------------------------------------------------------------
(* Frames.                                                                 *)

(* Want, for any frame.                                                    *)
WantOf(f) ==
  CASE f.kind = "if" ->
         [t |-> Role(f.node, "then"),
          f |-> Role(f.node, IF f.hasElse THEN "else" ELSE "end")]
    [] f.kind = "while" -> [t |-> Role(f.node, "body"), f |-> Role(f.node, "end")]
    [] f.kind = "cond" /\ f.phase = "lhs" -> LhsWant(f)
    [] OTHER -> f.want

(* The blocks a frame waits for that are behind the current one: all but   *)
(* that in which the operand it asked for is being translated.             *)
Behind(f) == IF Awaits(f) THEN Waits(f) \ {Asked(f)} ELSE Waits(f)

(* Those of them that the frame will close itself, and nothing before it.  *)
Pending(f) ==
  CASE f.kind = "if" /\ f.phase # "cond" /\ f.cond # "none" -> {f.bb}
    [] f.kind = "while" /\ f.phase = "body" /\ (f.const \/ f.cond # "none") -> {f.check}
    [] f.kind = "cond" ->
         IF f.phase = "rhs" /\ f.cond # "none" THEN {f.bb, f.lhs} ELSE {f.bb}
    [] OTHER -> {}

(* A block that a branch leaves: it falls through, returns, or breaks.     *)
Leaves(bs, b) == ~Closed(bs, b) \/ EndsInRet(bs, b)

FrameShape(f, bs) ==
  /\ f.kind # "seq" => f.node > 0
  /\ f.kind = "if" =>
       /\ f.phase # "cond" => bs[f.then].role = Role(f.node, "then")
       /\ f.phase = "else" =>
            /\ f.hasElse /\ f.bb < f.thenEnd /\ Leaves(bs, f.thenEnd)
            /\ bs[f.else].role = Role(f.node, "else")
  /\ f.kind = "while" =>
       /\ bs[f.check].role = Role(f.node, "check")
       /\ IF f.phase = "body" THEN bs[f.body].role = Role(f.node, "body") ELSE ~f.const
  /\ f.kind = "cond" =>
       /\ f.bb < f.lhs /\ bs[f.lhs].role = Role(f.node, "lhs")
       /\ f.phase = "rhs" => f.lhs < f.rhs /\ bs[f.rhs].role = Role(f.node, "rhs")
       /\ f.want.t[1] < f.node /\ f.want.f[1] < f.node
  /\ \A b \in Pending(f) : ~Closed(bs, b)

(* A frame above another stands for a later node and waits for later       *)
(* blocks; an operator wants what its caller wants.                        *)
FramesShape(fr, bs, n) ==
  /\ \A k \in 1 .. Len(fr) : FrameShape(fr[k], bs)
  /\ \A k \in 1 .. Len(fr) : \A b \in Behind(fr[k]) : b < Len(bs)
  /\ \A k \in 1 .. Len(fr) : fr[k].kind # "seq" => fr[k].node <= n
  /\ \A k \in 2 .. Len(fr) : fr[k].kind = "cond" => fr[k].want = WantOf(fr[k - 1])
  /\ \A j, k \in 1 .. Len(fr) : j < k =>
       /\ \A b \in Behind(fr[j]), c \in Waits(fr[k]) : b < c
       /\ fr[j].kind # "seq" /\ fr[k].kind # "seq" => fr[j].node < fr[k].node

-----------------------------------------------------------------------------
(* The open jumps: pairs of the role a jump waits for and its block.       *)

(* Each frame of the kinds K with its list in the stack.                   *)
Rows(fr, st, K) ==
  {<<fr[k], st[Level(fr, k, K)]>> : k \in {j \in 1 .. Len(fr) : fr[j].kind \in K}}

Pairs(r, l) == {<<r, b>> : b \in ToSet(l)}

TrueOf(f, l) ==
  Pairs(WantOf(f).t, l)
    \cup (IF f.kind = "cond" THEN Pairs(LhsWant(f).t, f.lhs_true) ELSE {})
FalseOf(f, l) ==
  Pairs(WantOf(f).f, l)
    \cup (IF f.kind = "cond" THEN Pairs(LhsWant(f).f, f.lhs_false) ELSE {})

TrueOpen(fr, st)  == UNION {TrueOf(r[1], r[2]) : r \in Rows(fr, st, ListKinds)}
FalseOpen(fr, st) == UNION {FalseOf(r[1], r[2]) : r \in Rows(fr, st, ListKinds)}
LoopOf(fr, st, p) ==
  UNION {Pairs(Role(r[1].node, p), r[2]) : r \in Rows(fr, st, LoopKinds)}
LoopOpen(fr, bk, co) == LoopOf(fr, bk, "end") \cup LoopOf(fr, co, "check")

(* A condition that left a value left no jump open.                        *)
Settled(f, l) ==
  /\ f.kind \in {"if", "while"} /\ f.phase # "cond" /\ f.cond # "none" => l = <<>>
  /\ f.kind = "cond" /\ (f.phase = "lhs" \/ f.cond # "none") =>
       f.lhs_true = <<>> /\ f.lhs_false = <<>>

AllSettled(fr, st) == \A r \in Rows(fr, st, ListKinds) : Settled(r[1], r[2])

-----------------------------------------------------------------------------
(* The blocks and their jumps.                                             *)

HasRoleIn(bs, l, r)  == \E b \in 1 .. Len(bs) : bs[b].label = l /\ bs[b].role = r
Unresolved(bs, l, r) == \E b \in 1 .. Len(bs) : bs[b].label = l /\ bs[b].role # r

WaitsTrue(bs, b, r) ==
  /\ b \in 1 .. Len(bs) /\ bs[b].insts # <<>>
  /\ Back(bs, b).op = "cbr" /\ Back(bs, b).want.t = r
  /\ Unresolved(bs, Back(bs, b).t, r)
WaitsFalse(bs, b, r) ==
  /\ b \in 1 .. Len(bs) /\ bs[b].insts # <<>>
  /\ Back(bs, b).op = "cbr" /\ Back(bs, b).want.f = r
  /\ Unresolved(bs, Back(bs, b).f, r)
WaitsLoop(bs, b, r) ==
  /\ b \in 1 .. Len(bs) /\ bs[b].insts # <<>>
  /\ Back(bs, b).op = "ret" /\ Back(bs, b).want = To(r)

OneTerminator(bs) ==
  \A b \in 1 .. Len(bs) : \A i \in 1 .. Len(bs[b].insts) - 1 :
    ~IsTerminateInst(bs[b].insts[i])

LabelsApart(bs, n) ==
  /\ \A b \in 1 .. Len(bs) : bs[b].label < n
  /\ \A b, c \in 1 .. Len(bs) : bs[b].label = bs[c].label => b = c

(* The jump that ends block b is right, or waits in a list.                *)
JumpKept(bs, b, T, F, L) ==
  /\ IsBr(Back(bs, b)) =>
       /\ HasRoleIn(bs, Back(bs, b).t, Back(bs, b).want.t)
            \/ <<Back(bs, b).want.t, b>> \in T
       /\ HasRoleIn(bs, Back(bs, b).f, Back(bs, b).want.f)
            \/ <<Back(bs, b).want.f, b>> \in F
  /\ Back(bs, b).op = "ret" /\ Back(bs, b).want # NoTarget =>
       <<Back(bs, b).want.t, b>> \in L

Graph(bs, n, T, F, L) ==
  /\ bs \in Seq(BlockSet)
  /\ LabelsApart(bs, n)
  /\ OneTerminator(bs)
  /\ \A p \in T : WaitsTrue(bs, p[2], p[1])
  /\ \A p \in F : WaitsFalse(bs, p[2], p[1])
  /\ \A p \in L : WaitsLoop(bs, p[2], p[1])
  /\ \A b \in 1 .. Len(bs) : Closed(bs, b) => JumpKept(bs, b, T, F, L)

-----------------------------------------------------------------------------
(* The invariant.                                                          *)

HasValue == pc = "expr" \/ (pc = "exprret" /\ val # "none")

CurOpen ==
  /\ HasValue => ~Closed(blocks, cur)
  /\ pc \in {"stmt", "stmtret"} => Leaves(blocks, cur)

Kept ==
  /\ Graph(blocks, tmp_id, TrueOpen(frames, true_stack), FalseOpen(frames, false_stack),
           LoopOpen(frames, break_stack, continue_stack))
  /\ FramesShape(frames, blocks, nodes)
  /\ HasValue => Last(true_stack) = <<>> /\ Last(false_stack) = <<>>
  /\ AllSettled(frames, true_stack) /\ AllSettled(frames, false_stack)
  /\ CurOpen

-----------------------------------------------------------------------------
(* Levels and rows.                                                        *)

LEMMA LevelStrict ==
  ASSUME NEW fr \in Seq(FrameSet), NEW K, NEW k \in 1 .. Len(fr), fr[k].kind \in K,
         NEW j \in 1 .. Len(fr), j < k
  PROVE  Level(fr, j, K) < Level(fr, k, K)
<1> DEFINE A == {i \in 1 .. j : fr[i].kind \in K}
           B == {i \in 1 .. k : fr[i].kind \in K}
<1>1. A \subseteq B /\ B \subseteq 1 .. k /\ k \in B \ A
  OBVIOUS
<1>2. Level(fr, j, K) = Cardinality(A) /\ Level(fr, k, K) = Cardinality(B)
  BY DEF Level
<1> HIDE DEF A, B
<1>3. IsFiniteSet(B)
  <2>1. IsFiniteSet(1 .. k)
    BY FS_Interval
  <2>2. QED
    BY <1>1, <2>1, FS_Subset
<1>4. /\ IsFiniteSet(A) /\ Cardinality(A) \in Nat /\ Cardinality(B) \in Nat
      /\ Cardinality(A) <= Cardinality(B)
      /\ Cardinality(A) = Cardinality(B) => A = B
  BY <1>1, <1>3, FS_CardinalityType, FS_Subset
<1>5. QED
  BY <1>1, <1>2, <1>4

(* What Max returns of a nonempty set of numbers: a member, and no member  *)
(* is above it.                                                            *)
LEMMA MaxIsGreatest ==
  ASSUME NEW n \in Nat, NEW T, T \subseteq 1 .. n, T # {}
  PROVE  Max(T) \in T /\ \A k \in T : ~ (Max(T) < k)
<1> DEFINE T2 == {n - k : k \in T}
           R  == OpToRel(<, Nat)
<1>1. T2 \subseteq Nat /\ T2 # {}
  <2>1. \A k \in T : n - k \in Nat
    OBVIOUS
  <2>2. PICK k \in T : TRUE
    OBVIOUS
  <2>3. n - k \in T2
    OBVIOUS
  <2>4. QED
    BY <2>1, <2>3
<1> HIDE DEF T2
<1>2. PICK x \in T2 : \A y \in T2 : ~ (<<y, x>> \in R)
  BY <1>1, NatLessThanWellFounded, WFMin
<1>3. PICK m \in T : x = n - m
  BY DEF T2
<1>4. \A y \in T2 : ~ (y < x)
  BY <1>1, <1>2 DEF OpToRel
<1>5. \A j \in T : m >= j
  BY <1>3, <1>4 DEF T2
<1>6. Max(T) \in T /\ \A j \in T : Max(T) >= j
  BY <1>5 DEF Max
<1> HIDE DEF R
<1> DEFINE top == Max(T)
<1>7. top \in T /\ \A j \in T : top >= j
  BY <1>6
<1> HIDE DEF top
<1>8. \A j \in T : ~ (top < j)
  BY <1>7
<1>9. QED
  BY <1>7, <1>8 DEF top

(* Every list of a stack is the list of a frame.                           *)
LEMMA LevelOnto ==
  ASSUME NEW fr \in Seq(FrameSet), NEW K, NEW l \in 1 .. DepthOf(fr, K)
  PROVE  \E k \in 1 .. Len(fr) : fr[k].kind \in K /\ Level(fr, k, K) = l
<1> DEFINE n == Len(fr)
           Lv == [k \in 0 .. n |-> Level(fr, k, K)]
           T == {k \in 1 .. n + 1 : Lv[k - 1] < l}
<1>1. n \in Nat /\ DepthOf(fr, K) \in Nat /\ l \in Nat /\ 1 <= l /\ l <= DepthOf(fr, K)
  BY DepthPush, FrameType
<1>2. Lv[0] = 0
  <2>1. {j \in 1 .. 0 : fr[j].kind \in K} = {}
    OBVIOUS
  <2>2. QED
    BY <2>1, FS_EmptySet DEF Level
<1>3. Lv[n] = DepthOf(fr, K)
  BY LevelTop
<1>4. ASSUME NEW k \in 1 .. n
      PROVE  /\ Lv[k] \in Nat /\ Lv[k - 1] \in Nat
             /\ Lv[k] = Lv[k - 1] + (IF fr[k].kind \in K THEN 1 ELSE 0)
  <2> DEFINE A == {i \in 1 .. k - 1 : fr[i].kind \in K}
             B == {i \in 1 .. k : fr[i].kind \in K}
  <2>1. Lv[k - 1] = Cardinality(A) /\ Lv[k] = Cardinality(B)
    BY DEF Level
  <2>2. /\ A \subseteq 1 .. k /\ k \notin A
        /\ fr[k].kind \in K => B = A \cup {k}
        /\ fr[k].kind \notin K => B = A
    OBVIOUS
  <2> HIDE DEF A, B, Lv
  <2>3. IsFiniteSet(A) /\ Cardinality(A) \in Nat
    <3>1. IsFiniteSet(1 .. k)
      BY FS_Interval
    <3>2. QED
      BY <2>2, <3>1, FS_Subset, FS_CardinalityType
  <2>4. Cardinality(A \cup {k}) = Cardinality(A) + 1
    BY <2>2, <2>3, FS_AddElement
  <2>5. Cardinality(B) = Cardinality(A) + (IF fr[k].kind \in K THEN 1 ELSE 0)
    <3>1. CASE fr[k].kind \in K
      BY <2>2, <2>4, <3>1
    <3>2. CASE fr[k].kind \notin K
      BY <2>2, <2>3, <3>2
    <3>3. QED
      BY <3>1, <3>2
  <2>6. Cardinality(B) \in Nat
    BY <2>3, <2>5
  <2>7. QED
    BY <2>1, <2>3, <2>5, <2>6
<1> HIDE DEF Lv
<1>5. T \subseteq 1 .. n + 1 /\ T # {} /\ n + 1 \in Nat
  <2>1. 1 \in T
    BY <1>1, <1>2
  <2>2. QED
    BY <1>1, <2>1
<1>6. Max(T) \in T /\ \A k \in T : ~ (Max(T) < k)
  <2> HIDE DEF T
  <2>1. QED
    BY <1>5, MaxIsGreatest
<1>7. Max(T) \in 1 .. n
  BY <1>1, <1>3, <1>6
<1>8. ~ (Lv[Max(T)] < l)
  <2>1. ASSUME Lv[Max(T)] < l PROVE FALSE
    <3>1. Max(T) + 1 \in 1 .. n + 1 /\ (Max(T) + 1) - 1 = Max(T)
      BY <1>1, <1>7
    <3>2. Max(T) + 1 \in T
      <4>1. Lv[(Max(T) + 1) - 1] < l
        BY <2>1, <3>1, Zenon
      <4>2. \A k \in 1 .. n + 1 : Lv[k - 1] < l => k \in T
        OBVIOUS
      <4> HIDE DEF T
      <4> HIDE DEF T
      <4>3. QED
        BY <3>1, <4>1, <4>2, Zenon
    <3>3. QED
      BY <1>6, <1>7, <3>2
  <2>2. QED
    BY <2>1
<1>9. Lv[Max(T) - 1] < l
  BY <1>6
<1> DEFINE m == Max(T)
<1> HIDE DEF T, m
<1>10. m \in 1 .. n /\ ~ (Lv[m] < l) /\ Lv[m - 1] < l
  BY <1>7, <1>8, <1>9 DEF m
<1>11. fr[m].kind \in K /\ Lv[m] = l
  BY <1>1, <1>4, <1>10
<1>12. QED
  BY <1>10, <1>11 DEF Lv

(* A stack with one list for each frame of the kinds K.                    *)
Stacked(fr, st, K) ==
  fr \in Seq(FrameSet) /\ st \in Seq(Seq(Nat)) /\ Len(st) = DepthOf(fr, K)

(* Pushing a frame together with its list adds one row; pushing a frame of *)
(* another kind adds none.                                                 *)
LEMMA RowsPush ==
  ASSUME NEW fr, NEW st, NEW K, Stacked(fr, st, K), NEW f \in FrameSet,
         NEW l \in Seq(Nat)
  PROVE  /\ f.kind \in K =>
              /\ Stacked(Append(fr, f), Append(st, l), K)
              /\ Rows(Append(fr, f), Append(st, l), K) = Rows(fr, st, K) \cup {<<f, l>>}
         /\ f.kind \notin K =>
              /\ Stacked(Append(fr, f), st, K)
              /\ Rows(Append(fr, f), st, K) = Rows(fr, st, K)
<1> DEFINE s == Append(fr, f)
           t == Append(st, l)
<1>1. /\ s \in Seq(FrameSet) /\ Len(s) = Len(fr) + 1 /\ Len(fr) \in Nat
      /\ s[Len(fr) + 1] = f /\ \A k \in 1 .. Len(fr) : s[k] = fr[k]
      /\ fr \in Seq(FrameSet)
  BY DEF Stacked
<1>2. /\ t \in Seq(Seq(Nat)) /\ Len(t) = Len(st) + 1 /\ Len(st) \in Nat
      /\ t[Len(st) + 1] = l /\ \A k \in 1 .. Len(st) : t[k] = st[k]
  BY DEF Stacked
<1>3. DepthOf(s, K) = DepthOf(fr, K) + (IF f.kind \in K THEN 1 ELSE 0)
  BY <1>1, DepthPush
<1>4. Len(st) = DepthOf(fr, K) /\ st \in Seq(Seq(Nat))
  BY DEF Stacked
<1> HIDE DEF s, t
<1>5. ASSUME NEW k \in 1 .. Len(fr)
      PROVE  /\ Level(s, k, K) = Level(fr, k, K)
             /\ fr[k].kind \in K => Level(fr, k, K) \in 1 .. Len(st)
  <2>1. k \in Nat /\ \A j \in 1 .. k : s[j].kind = fr[j].kind
    BY <1>1
  <2>2. Level(s, k, K) = Level(fr, k, K)
    BY <2>1, LevelSame
  <2>3. fr[k].kind \in K => Level(fr, k, K) \in 1 .. Len(st)
    BY <1>1, <1>4, LevelType
  <2>4. QED
    BY <2>2, <2>3
<1>6. Level(s, Len(fr) + 1, K) = DepthOf(s, K)
  BY <1>1, LevelTop
<1>7. CASE f.kind \in K
  <2>1. Len(t) = DepthOf(s, K) /\ DepthOf(s, K) = Len(st) + 1
    BY <1>2, <1>3, <1>4, <1>7
  <2>2. ASSUME NEW k \in 1 .. Len(fr), fr[k].kind \in K
        PROVE  t[Level(s, k, K)] = st[Level(fr, k, K)]
    BY <1>2, <1>5, <2>2
  <2>3. t[Level(s, Len(fr) + 1, K)] = l
    BY <1>2, <1>6, <2>1
  <2>4. Rows(s, t, K) = Rows(fr, st, K) \cup {<<f, l>>}
    <3>1. ASSUME NEW r \in Rows(s, t, K)
          PROVE  r \in Rows(fr, st, K) \cup {<<f, l>>}
      <4>1. PICK k \in 1 .. Len(s) : s[k].kind \in K /\ r = <<s[k], t[Level(s, k, K)]>>
        BY DEF Rows
      <4>2. CASE k = Len(fr) + 1
        BY <1>1, <2>3, <4>1, <4>2
      <4>3. CASE k # Len(fr) + 1
        <5>1. k \in 1 .. Len(fr) /\ s[k] = fr[k]
          BY <1>1, <4>3
        <5>2. r = <<fr[k], st[Level(fr, k, K)]>> /\ fr[k].kind \in K
          BY <2>2, <4>1, <5>1
        <5>3. QED
          BY <5>1, <5>2 DEF Rows
      <4>4. QED
        BY <4>2, <4>3
    <3>2. <<f, l>> \in Rows(s, t, K)
      <4>1. Len(fr) + 1 \in 1 .. Len(s)
        BY <1>1
      <4>2. s[Len(fr) + 1].kind \in K
        BY <1>1, <1>7
      <4>3. <<f, l>> = <<s[Len(fr) + 1], t[Level(s, Len(fr) + 1, K)]>>
        BY <1>1, <2>3
      <4>4. QED
        BY <4>1, <4>2, <4>3, Zenon DEF Rows
    <3>3. ASSUME NEW r \in Rows(fr, st, K)
          PROVE  r \in Rows(s, t, K)
      <4>1. PICK k \in 1 .. Len(fr) : fr[k].kind \in K /\ r = <<fr[k], st[Level(fr, k, K)]>>
        BY DEF Rows
      <4>2. k \in 1 .. Len(s) /\ s[k] = fr[k]
        BY <1>1
      <4>3. r = <<s[k], t[Level(s, k, K)]>> /\ s[k].kind \in K
        BY <2>2, <4>1, <4>2
      <4>4. QED
        BY <4>2, <4>3 DEF Rows
    <3>4. QED
      BY <3>1, <3>2, <3>3
  <2>5. Stacked(s, t, K)
    BY <1>1, <1>2, <2>1 DEF Stacked
  <2>6. QED
    BY <1>7, <2>4, <2>5 DEF s, t
<1>8. CASE f.kind \notin K
  <2>1. Stacked(s, st, K)
    <3>1. DepthOf(s, K) = DepthOf(fr, K)
      BY <1>3, <1>4, <1>8
    <3>2. QED
      BY <1>1, <1>4, <3>1 DEF Stacked
  <2>2. Rows(s, st, K) = Rows(fr, st, K)
    <3>1. ASSUME NEW r \in Rows(s, st, K)
          PROVE  r \in Rows(fr, st, K)
      <4>1. PICK k \in 1 .. Len(s) : s[k].kind \in K /\ r = <<s[k], st[Level(s, k, K)]>>
        BY DEF Rows
      <4>2. k \in 1 .. Len(fr) /\ s[k] = fr[k]
        BY <1>1, <1>8, <4>1
      <4>3. r = <<fr[k], st[Level(fr, k, K)]>> /\ fr[k].kind \in K
        BY <1>5, <4>1, <4>2
      <4>4. QED
        BY <4>2, <4>3 DEF Rows
    <3>2. ASSUME NEW r \in Rows(fr, st, K)
          PROVE  r \in Rows(s, st, K)
      <4>1. PICK k \in 1 .. Len(fr) : fr[k].kind \in K /\ r = <<fr[k], st[Level(fr, k, K)]>>
        BY DEF Rows
      <4>2. k \in 1 .. Len(s) /\ s[k] = fr[k]
        BY <1>1
      <4>3. r = <<s[k], st[Level(s, k, K)]>> /\ s[k].kind \in K
        BY <1>5, <4>1, <4>2
      <4>4. QED
        BY <4>2, <4>3 DEF Rows
    <3>3. QED
      BY <3>1, <3>2
  <2>3. QED
    BY <1>8, <2>1, <2>2 DEF s
<1>9. QED
  BY <1>7, <1>8

(* A nonempty sequence is its front and its last element.                  *)
LEMMA AppendFront ==
  ASSUME NEW S, NEW s \in Seq(S), s # <<>>
  PROVE  s = Append(Front(s), Last(s))
<1> DEFINE t == Append(Front(s), Last(s))
<1>1. /\ Front(s) \in Seq(S) /\ Len(Front(s)) = Len(s) - 1
      /\ \A i \in 1 .. Len(s) - 1 : Front(s)[i] = s[i]
      /\ Last(s) \in S /\ Last(s) = s[Len(s)] /\ Len(s) \in Nat \ {0}
  BY FrontIsSeq, LastIsElement
<1>2. t \in Seq(S) /\ Len(t) = Len(s) /\ \A i \in 1 .. Len(s) : t[i] = s[i]
  BY <1>1
<1> HIDE DEF t
<1>3. t = s
  BY <1>2
<1>4. QED
  BY <1>3 DEF t

(* The frame and the list on top, and the rest.                            *)
LEMMA RowsTop ==
  ASSUME NEW fr, NEW st, NEW K, Stacked(fr, st, K), fr # <<>>
  PROVE  /\ Last(fr) \in FrameSet /\ Front(fr) \in Seq(FrameSet)
         /\ Last(fr).kind \in K =>
              /\ st # <<>> /\ Last(st) \in Seq(Nat)
              /\ Stacked(Front(fr), Front(st), K)
              /\ Rows(fr, st, K) = Rows(Front(fr), Front(st), K) \cup {<<Last(fr), Last(st)>>}
         /\ Last(fr).kind \notin K =>
              /\ Stacked(Front(fr), st, K)
              /\ Rows(fr, st, K) = Rows(Front(fr), st, K)
<1>1. fr \in Seq(FrameSet) /\ st \in Seq(Seq(Nat)) /\ Len(st) = DepthOf(fr, K)
  BY DEF Stacked
<1>2. Front(fr) \in Seq(FrameSet) /\ Last(fr) \in FrameSet
  BY <1>1, FrontIsSeq, LastIsElement
<1>3. fr = Append(Front(fr), Last(fr))
  BY <1>1, AppendFront
<1>4. DepthOf(Front(fr), K) \in Nat
  BY <1>2, DepthPush
<1>5. DepthOf(fr, K) = DepthOf(Front(fr), K) + (IF Last(fr).kind \in K THEN 1 ELSE 0)
  BY <1>1, DepthPop
<1>6. CASE Last(fr).kind \in K
  <2>1. Len(st) = DepthOf(Front(fr), K) + 1
    BY <1>1, <1>5, <1>6
  <2>2. st # <<>>
    BY <1>1, <1>4, <2>1
  <2>3. /\ Front(st) \in Seq(Seq(Nat)) /\ Len(Front(st)) = Len(st) - 1
        /\ Last(st) \in Seq(Nat)
    BY <1>1, <2>2, FrontIsSeq, LastIsElement
  <2>4. st = Append(Front(st), Last(st))
    BY <1>1, <2>2, AppendFront
  <2>5. Stacked(Front(fr), Front(st), K)
    BY <1>1, <1>2, <1>4, <2>1, <2>3 DEF Stacked
  <2>6. Rows(Append(Front(fr), Last(fr)), Append(Front(st), Last(st)), K)
          = Rows(Front(fr), Front(st), K) \cup {<<Last(fr), Last(st)>>}
    BY <1>2, <1>6, <2>3, <2>5, RowsPush
  <2>7. QED
    BY <1>2, <1>3, <1>6, <2>2, <2>3, <2>4, <2>5, <2>6
<1>7. CASE Last(fr).kind \notin K
  <2>1. Stacked(Front(fr), st, K)
    BY <1>1, <1>2, <1>4, <1>5, <1>7 DEF Stacked
  <2>2. Rows(Append(Front(fr), Last(fr)), st, K) = Rows(Front(fr), st, K)
    <3> DEFINE F == Front(fr)
               f == Last(fr)
    <3>1. <<>> \in Seq(Nat) /\ f \in FrameSet /\ f.kind \notin K /\ Stacked(F, st, K)
      BY <1>2, <1>7, <2>1
    <3> HIDE DEF F, f
    <3>2. \A l \in Seq(Nat) : f.kind \notin K =>
            Rows(Append(F, f), st, K) = Rows(F, st, K)
      BY <3>1, RowsPush
    <3>3. Rows(Append(F, f), st, K) = Rows(F, st, K)
      BY <3>1, <3>2
    <3>4. QED
      BY <3>3 DEF F, f
  <2>3. QED
    BY <1>2, <1>3, <1>7, <2>1, <2>2
<1>8. QED
  BY <1>6, <1>7

(* The elements of a concatenation.                                        *)
LEMMA ToSetConcat ==
  ASSUME NEW S, NEW s \in Seq(S), NEW t \in Seq(S)
  PROVE  /\ ToSet(s \o t) = ToSet(s) \cup ToSet(t)
         /\ \A x \in S : ToSet(s \o <<x>>) = ToSet(s) \cup {x}
<1>1. ASSUME NEW u \in Seq(S)
      PROVE  ToSet(s \o u) = ToSet(s) \cup ToSet(u)
  <2>1. /\ Len(s \o u) = Len(s) + Len(u) /\ Len(s) \in Nat /\ Len(u) \in Nat
        /\ \A i \in 1 .. Len(s) : (s \o u)[i] = s[i]
        /\ \A i \in 1 .. Len(u) : (s \o u)[Len(s) + i] = u[i]
    OBVIOUS
  <2> DEFINE v == s \o u
  <2>2. v \in Seq(S)
    OBVIOUS
  <2> HIDE DEF v
  <2>3. /\ ToSet(v) = {v[i] : i \in 1 .. Len(v)} /\ ToSet(s) = {s[i] : i \in 1 .. Len(s)}
        /\ ToSet(u) = {u[i] : i \in 1 .. Len(u)}
    BY <2>2 DEF ToSet
  <2>4. ASSUME NEW i \in 1 .. Len(v)
        PROVE  v[i] \in ToSet(s) \cup ToSet(u)
    <3>1. CASE i <= Len(s)
      BY <2>1, <2>3, <3>1 DEF v
    <3>2. CASE i > Len(s)
      <4>1. i - Len(s) \in 1 .. Len(u) /\ i = Len(s) + (i - Len(s))
        BY <2>1, <3>2 DEF v
      <4>2. v[i] = u[i - Len(s)]
        BY <2>1, <4>1 DEF v
      <4>3. QED
        BY <2>3, <4>1, <4>2
    <3>3. QED
      BY <2>1, <3>1, <3>2
  <2>5. /\ \A i \in 1 .. Len(s) : i \in 1 .. Len(v) /\ v[i] = s[i]
        /\ \A i \in 1 .. Len(u) : Len(s) + i \in 1 .. Len(v) /\ v[Len(s) + i] = u[i]
    BY <2>1 DEF v
  <2>6. ToSet(v) = ToSet(s) \cup ToSet(u)
    BY <2>3, <2>4, <2>5
  <2>7. QED
    BY <2>6 DEF v
<1>2. \A x \in S : <<x>> \in Seq(S) /\ ToSet(<<x>>) = {x}
  BY DEF ToSet
<1>3. QED
  BY <1>1, <1>2

(* One more frame with a list, or one more without.                        *)
LEMMA OpenPush ==
  ASSUME NEW fr, NEW st, Stacked(fr, st, ListKinds), NEW f \in FrameSet, NEW l \in Seq(Nat)
  PROVE  /\ f.kind \in ListKinds =>
              /\ Stacked(Append(fr, f), Append(st, l), ListKinds)
              /\ TrueOpen(Append(fr, f), Append(st, l)) = TrueOpen(fr, st) \cup TrueOf(f, l)
              /\ FalseOpen(Append(fr, f), Append(st, l)) = FalseOpen(fr, st) \cup FalseOf(f, l)
              /\ AllSettled(Append(fr, f), Append(st, l)) <=>
                   AllSettled(fr, st) /\ Settled(f, l)
         /\ f.kind \notin ListKinds =>
              /\ Stacked(Append(fr, f), st, ListKinds)
              /\ TrueOpen(Append(fr, f), st) = TrueOpen(fr, st)
              /\ FalseOpen(Append(fr, f), st) = FalseOpen(fr, st)
              /\ AllSettled(Append(fr, f), st) <=> AllSettled(fr, st)
<1>1. CASE f.kind \in ListKinds
  <2>1. /\ Stacked(Append(fr, f), Append(st, l), ListKinds)
        /\ Rows(Append(fr, f), Append(st, l), ListKinds)
             = Rows(fr, st, ListKinds) \cup {<<f, l>>}
    BY <1>1, RowsPush
  <2> DEFINE R  == Rows(fr, st, ListKinds)
             R2 == Rows(Append(fr, f), Append(st, l), ListKinds)
  <2>2. R2 = R \cup {<<f, l>>}
    BY <2>1
  <2>3. <<f, l>>[1] = f /\ <<f, l>>[2] = l
    OBVIOUS
  <2> HIDE DEF R, R2
  <2>4. /\ UNION {TrueOf(r[1], r[2]) : r \in R2}
             = (UNION {TrueOf(r[1], r[2]) : r \in R}) \cup TrueOf(f, l)
        /\ UNION {FalseOf(r[1], r[2]) : r \in R2}
             = (UNION {FalseOf(r[1], r[2]) : r \in R}) \cup FalseOf(f, l)
        /\ (\A r \in R2 : Settled(r[1], r[2])) <=>
             (\A r \in R : Settled(r[1], r[2])) /\ Settled(f, l)
    BY <2>2, <2>3
  <2>5. QED
    BY <1>1, <2>1, <2>4 DEF TrueOpen, FalseOpen, AllSettled, R, R2
<1>2. CASE f.kind \notin ListKinds
  <2>1. /\ Stacked(Append(fr, f), st, ListKinds)
        /\ Rows(Append(fr, f), st, ListKinds) = Rows(fr, st, ListKinds)
    BY <1>2, RowsPush
  <2>2. QED
    BY <1>2, <2>1 DEF TrueOpen, FalseOpen, AllSettled
<1>3. QED
  BY <1>1, <1>2

(* What the top frame and its list contribute to the open jumps, and what  *)
(* is left below them.                                                     *)
LEMMA OpenTop ==
  ASSUME NEW fr, NEW st, Stacked(fr, st, ListKinds), fr # <<>>
  PROVE  /\ Last(fr).kind \in ListKinds =>
              /\ st # <<>> /\ Last(st) \in Seq(Nat)
              /\ Stacked(Front(fr), Front(st), ListKinds)
              /\ TrueOpen(fr, st) = TrueOpen(Front(fr), Front(st)) \cup TrueOf(Last(fr), Last(st))
              /\ FalseOpen(fr, st) = FalseOpen(Front(fr), Front(st)) \cup FalseOf(Last(fr), Last(st))
              /\ AllSettled(fr, st) <=>
                   AllSettled(Front(fr), Front(st)) /\ Settled(Last(fr), Last(st))
         /\ Last(fr).kind \notin ListKinds =>
              /\ Stacked(Front(fr), st, ListKinds)
              /\ TrueOpen(fr, st) = TrueOpen(Front(fr), st)
              /\ FalseOpen(fr, st) = FalseOpen(Front(fr), st)
              /\ AllSettled(fr, st) <=> AllSettled(Front(fr), st)
<1> DEFINE F == Front(fr)
           f == Last(fr)
           S == Front(st)
           l == Last(st)
<1>1. /\ f \in FrameSet
      /\ f.kind \in ListKinds =>
           /\ st # <<>> /\ l \in Seq(Nat) /\ Stacked(F, S, ListKinds)
      /\ f.kind \notin ListKinds => Stacked(F, st, ListKinds)
  BY RowsTop
<1>2. fr = Append(F, f)
  BY AppendFront DEF Stacked
<1>3. f.kind \in ListKinds => st = Append(S, l)
  BY <1>1, AppendFront DEF Stacked
<1>4. <<>> \in Seq(Nat)
  OBVIOUS
<1> HIDE DEF F, f, S, l
<1>5. CASE f.kind \in ListKinds
  <2>1. /\ TrueOpen(Append(F, f), Append(S, l)) = TrueOpen(F, S) \cup TrueOf(f, l)
        /\ FalseOpen(Append(F, f), Append(S, l)) = FalseOpen(F, S) \cup FalseOf(f, l)
        /\ AllSettled(Append(F, f), Append(S, l)) <=> AllSettled(F, S) /\ Settled(f, l)
    BY <1>1, <1>5, OpenPush
  <2>2. QED
    BY <1>1, <1>2, <1>3, <1>5, <2>1 DEF F, f, S, l
<1>6. CASE f.kind \notin ListKinds
  <2>1. \A x \in Seq(Nat) :
          /\ TrueOpen(Append(F, f), st) = TrueOpen(F, st)
          /\ FalseOpen(Append(F, f), st) = FalseOpen(F, st)
          /\ AllSettled(Append(F, f), st) <=> AllSettled(F, st)
    BY <1>1, <1>6, OpenPush
  <2>2. QED
    BY <1>1, <1>2, <1>4, <1>6, <2>1 DEF F, f
<1>7. QED
  BY <1>5, <1>6

(* The jumps out of the loops.                                             *)
LEMMA LoopOfPush ==
  ASSUME NEW fr, NEW st, Stacked(fr, st, LoopKinds), NEW f \in FrameSet, NEW l \in Seq(Nat),
         NEW p
  PROVE  /\ f.kind = "while" =>
              /\ Stacked(Append(fr, f), Append(st, l), LoopKinds)
              /\ LoopOf(Append(fr, f), Append(st, l), p)
                   = LoopOf(fr, st, p) \cup Pairs(Role(f.node, p), l)
         /\ f.kind # "while" =>
              /\ Stacked(Append(fr, f), st, LoopKinds)
              /\ LoopOf(Append(fr, f), st, p) = LoopOf(fr, st, p)
<1>1. f.kind \in LoopKinds <=> f.kind = "while"
  BY DEF LoopKinds
<1>2. CASE f.kind = "while"
  <2>1. /\ Stacked(Append(fr, f), Append(st, l), LoopKinds)
        /\ Rows(Append(fr, f), Append(st, l), LoopKinds)
             = Rows(fr, st, LoopKinds) \cup {<<f, l>>}
    BY <1>1, <1>2, RowsPush
  <2> DEFINE R  == Rows(fr, st, LoopKinds)
             R2 == Rows(Append(fr, f), Append(st, l), LoopKinds)
  <2>2. R2 = R \cup {<<f, l>>}
    BY <2>1
  <2>3. <<f, l>>[1] = f /\ <<f, l>>[2] = l
    OBVIOUS
  <2> HIDE DEF R, R2
  <2>4. UNION {Pairs(Role(r[1].node, p), r[2]) : r \in R2}
          = (UNION {Pairs(Role(r[1].node, p), r[2]) : r \in R}) \cup Pairs(Role(f.node, p), l)
    BY <2>2, <2>3
  <2>5. QED
    BY <1>2, <2>1, <2>4 DEF LoopOf, R, R2
<1>3. CASE f.kind # "while"
  <2>1. /\ Stacked(Append(fr, f), st, LoopKinds)
        /\ Rows(Append(fr, f), st, LoopKinds) = Rows(fr, st, LoopKinds)
    BY <1>1, <1>3, RowsPush
  <2>2. QED
    BY <1>3, <2>1 DEF LoopOf
<1>4. QED
  BY <1>2, <1>3

(* The same for the lists of breaks and continues.                         *)
LEMMA LoopOfTop ==
  ASSUME NEW fr, NEW st, Stacked(fr, st, LoopKinds), fr # <<>>, NEW p
  PROVE  /\ Last(fr).kind = "while" =>
              /\ st # <<>> /\ Last(st) \in Seq(Nat)
              /\ Stacked(Front(fr), Front(st), LoopKinds)
              /\ LoopOf(fr, st, p)
                   = LoopOf(Front(fr), Front(st), p) \cup Pairs(Role(Last(fr).node, p), Last(st))
         /\ Last(fr).kind # "while" =>
              /\ Stacked(Front(fr), st, LoopKinds)
              /\ LoopOf(fr, st, p) = LoopOf(Front(fr), st, p)
<1> DEFINE F == Front(fr)
           f == Last(fr)
           S == Front(st)
           l == Last(st)
<1>1. /\ f \in FrameSet
      /\ f.kind \in LoopKinds =>
           /\ st # <<>> /\ l \in Seq(Nat) /\ Stacked(F, S, LoopKinds)
      /\ f.kind \notin LoopKinds => Stacked(F, st, LoopKinds)
  BY RowsTop
<1>2. fr = Append(F, f)
  BY AppendFront DEF Stacked
<1>3. f.kind \in LoopKinds => st = Append(S, l)
  BY <1>1, AppendFront DEF Stacked
<1>4. <<>> \in Seq(Nat) /\ (f.kind \in LoopKinds <=> f.kind = "while")
  BY DEF LoopKinds
<1> HIDE DEF F, f, S, l
<1>5. CASE f.kind = "while"
  <2>1. LoopOf(Append(F, f), Append(S, l), p) = LoopOf(F, S, p) \cup Pairs(Role(f.node, p), l)
    BY <1>1, <1>4, <1>5, LoopOfPush
  <2>2. QED
    BY <1>1, <1>2, <1>3, <1>4, <1>5, <2>1 DEF F, f, S, l
<1>6. CASE f.kind # "while"
  <2>1. \A x \in Seq(Nat) : LoopOf(Append(F, f), st, p) = LoopOf(F, st, p)
    BY <1>1, <1>4, <1>6, LoopOfPush
  <2>2. QED
    BY <1>1, <1>2, <1>4, <1>6, <2>1 DEF F, f
<1>7. QED
  BY <1>5, <1>6

(* Popping a frame that is no loop leaves the jumps out of loops open.     *)
LEMMA LoopOfBelow ==
  ASSUME NEW fr, NEW st, Stacked(fr, st, LoopKinds), fr # <<>>, Last(fr).kind # "while", NEW p
  PROVE  LoopOf(fr, st, p) = LoopOf(Front(fr), st, p)
<1> DEFINE F == Front(fr)
           f == Last(fr)
<1>1. f \in FrameSet /\ (f.kind \notin LoopKinds => Stacked(F, st, LoopKinds))
  BY RowsTop
<1>2. fr = Append(F, f)
  BY AppendFront DEF Stacked
<1>3. <<>> \in Seq(Nat) /\ f.kind # "while" /\ f.kind \notin LoopKinds
  BY DEF LoopKinds
<1> HIDE DEF F, f
<1>4. \A x \in Seq(Nat) : LoopOf(Append(F, f), st, p) = LoopOf(F, st, p)
  BY <1>1, <1>3, LoopOfPush
<1>5. QED
  BY <1>2, <1>3, <1>4 DEF F

(* The same for breaks and continues together.                             *)
LEMMA LoopOpenBelow ==
  ASSUME NEW fr, NEW bk, NEW co, Stacked(fr, bk, LoopKinds), Stacked(fr, co, LoopKinds),
         fr # <<>>, Last(fr).kind # "while"
  PROVE  LoopOpen(fr, bk, co) = LoopOpen(Front(fr), bk, co)
<1>1. LoopOf(fr, bk, "end") = LoopOf(Front(fr), bk, "end")
  BY LoopOfBelow
<1>2. LoopOf(fr, co, "check") = LoopOf(Front(fr), co, "check")
  BY LoopOfBelow
<1>3. QED
  BY <1>1, <1>2 DEF LoopOpen

(* A jump put on the list of the innermost loop.                           *)
LEMMA LoopOfAdd ==
  ASSUME NEW fr, NEW st, Stacked(fr, st, LoopKinds), NEW m \in 1 .. Len(fr),
         fr[m].kind = "while", \A j \in 1 .. Len(fr) : m < j => fr[j].kind # "while",
         NEW c \in Nat, NEW p
  PROVE  LoopOf(fr, AddTop(st, <<c>>), p) = LoopOf(fr, st, p) \cup {<<Role(fr[m].node, p), c>>}
<1> DEFINE t == AddTop(st, <<c>>)
           d == Len(st)
           Lv(k) == Level(fr, k, LoopKinds)
<1>1. /\ fr \in Seq(FrameSet) /\ st \in Seq(Seq(Nat)) /\ d = DepthOf(fr, LoopKinds)
      /\ Len(fr) \in Nat /\ \A x : x \in LoopKinds <=> x = "while"
  BY DEF Stacked, LoopKinds
<1>2. Lv(m) = d
  <2>1. {j \in 1 .. m : fr[j].kind \in LoopKinds} = {j \in DOMAIN fr : fr[j].kind \in LoopKinds}
    BY <1>1
  <2>2. QED
    BY <1>1, <2>1 DEF Level, DepthOf
<1>3. d \in 1 .. d
  BY <1>1, <1>2, LoopLevel
<1>4. ASSUME NEW k \in 1 .. Len(fr), fr[k].kind = "while", k # m
      PROVE  Lv(k) \in 1 .. d /\ Lv(k) # d
  <2>1. k < m
    BY <1>1, <1>4
  <2>2. Lv(k) < Lv(m)
    BY <1>1, <2>1, LevelStrict
  <2>3. Lv(k) \in 1 .. d
    BY <1>1, <1>4, LoopLevel
  <2>4. QED
    BY <1>2, <2>2, <2>3
<1>5. /\ \A i \in 1 .. d : i # d => t[i] = st[i]
      /\ t[d] = st[d] \o <<c>> /\ st[d] \in Seq(Nat)
  BY <1>1, <1>3 DEF AddTop
<1>6. \A r : Pairs(r, st[d] \o <<c>>) = Pairs(r, st[d]) \cup {<<r, c>>}
  <2> DEFINE u == st[d]
  <2>1. u \in Seq(Nat)
    BY <1>5
  <2> HIDE DEF u
  <2>2. ToSet(u \o <<c>>) = ToSet(u) \cup {c}
    BY <2>1, ToSetConcat
  <2>3. QED
    BY <2>2 DEF Pairs, u
<1> HIDE DEF t, Lv, d
<1> DEFINE row(s, k) == Pairs(Role(fr[k].node, p), s[Lv(k)])
           W == {j \in 1 .. Len(fr) : fr[j].kind = "while"}
<1>7. /\ LoopOf(fr, st, p) = UNION {row(st, k) : k \in W}
      /\ LoopOf(fr, t, p) = UNION {row(t, k) : k \in W}
  <2>1. ASSUME NEW s
        PROVE  LoopOf(fr, s, p) = UNION {row(s, k) : k \in W}
    <3> DEFINE R == Rows(fr, s, LoopKinds)
    <3>1. R = {<<fr[k], s[Lv(k)]>> : k \in W}
      BY <1>1 DEF Rows, Lv
    <3> HIDE DEF R, W
    <3>2. \A k : LET r == <<fr[k], s[Lv(k)]>>
                 IN Pairs(Role(r[1].node, p), r[2]) = row(s, k)
      OBVIOUS
    <3> HIDE DEF row
    <3>3. {Pairs(Role(r[1].node, p), r[2]) : r \in R} = {row(s, k) : k \in W}
      BY <3>1, <3>2
    <3>4. QED
      BY <3>3 DEF LoopOf, R
  <2>2. QED
    BY <2>1
<1>8. row(t, m) = row(st, m) \cup {<<Role(fr[m].node, p), c>>} /\ m \in W
  BY <1>2, <1>5, <1>6
<1>9. \A k \in W : k # m => row(t, k) = row(st, k)
  BY <1>4, <1>5
<1> HIDE DEF row, W
<1>10. LoopOf(fr, t, p) = LoopOf(fr, st, p) \cup {<<Role(fr[m].node, p), c>>}
  BY <1>7, <1>8, <1>9
<1>11. QED
  BY <1>10 DEF t

(* A merged list waits for what its parts wait for.                        *)
LEMMA PairsConcat ==
  ASSUME NEW r, NEW s \in Seq(Nat), NEW t \in Seq(Nat)
  PROVE  Pairs(r, s \o t) = Pairs(r, s) \cup Pairs(r, t)
BY ToSetConcat DEF Pairs

(* An empty list waits for nothing, a new one for the single jump in it.   *)
LEMMA PairsSmall ==
  ASSUME NEW r
  PROVE  Pairs(r, <<>>) = {} /\ \A b : Pairs(r, <<b>>) = {<<r, b>>}
BY DEF Pairs, ToSet

-----------------------------------------------------------------------------
(* What a step may do to the blocks.                                       *)

(* A branch that has found its target keeps it.                            *)
SameJump(bs, bs2, b) ==
  /\ Closed(bs2, b) /\ IsBr(Back(bs2, b)) /\ Len(bs2[b].insts) = Len(bs[b].insts)
  /\ Back(bs2, b).want = Back(bs, b).want
  /\ HasRoleIn(bs, Back(bs, b).t, Back(bs, b).want.t) => Back(bs2, b).t = Back(bs, b).t
  /\ HasRoleIn(bs, Back(bs, b).f, Back(bs, b).want.f) => Back(bs2, b).f = Back(bs, b).f

KeepsRoles(bs, bs2) ==
  /\ bs2 \in Seq(BlockSet) /\ Len(bs) <= Len(bs2)
  /\ \A b \in 1 .. Len(bs) : bs2[b].label = bs[b].label /\ bs2[b].role = bs[b].role

(* Only the blocks of S are closed, or have their terminator replaced by   *)
(* another kind of terminator; the new ones are open.                      *)
Changes(bs, bs2, S) ==
  /\ KeepsRoles(bs, bs2)
  /\ \A b \in 1 .. Len(bs) : b \notin S =>
       /\ Closed(bs2, b) <=> Closed(bs, b)
       /\ EndsInRet(bs2, b) <=> EndsInRet(bs, b)
  /\ \A b \in Len(bs) + 1 .. Len(bs2) : b \notin S => ~Closed(bs2, b)
  /\ \A b \in 1 .. Len(bs) : Closed(bs, b) /\ IsBr(Back(bs, b)) => SameJump(bs, bs2, b)

(* Blocks that keep their roles keep what a label stands for.              *)
LEMMA RolesKept ==
  ASSUME NEW bs \in Seq(BlockSet), NEW bs2, KeepsRoles(bs, bs2), NEW l, NEW r
  PROVE  /\ HasRoleIn(bs, l, r) => HasRoleIn(bs2, l, r)
         /\ Unresolved(bs, l, r) => Unresolved(bs2, l, r)
<1>1. \A b \in 1 .. Len(bs) : b \in 1 .. Len(bs2)
  BY DEF KeepsRoles
<1>2. QED
  BY <1>1 DEF KeepsRoles, HasRoleIn, Unresolved

(* A step that touches no block changes none.                              *)
LEMMA ChangesReflexive ==
  ASSUME NEW bs \in Seq(BlockSet), NEW S
  PROVE  Changes(bs, bs, S)
<1>1. \A b \in 1 .. Len(bs) : Closed(bs, b) /\ IsBr(Back(bs, b)) => SameJump(bs, bs, b)
  BY DEF SameJump
<1>2. \A b \in Len(bs) + 1 .. Len(bs) : FALSE
  OBVIOUS
<1>3. QED
  BY <1>1, <1>2 DEF Changes, KeepsRoles

(* Two changes in a row change what either of them may.                    *)
LEMMA ChangesTransitive ==
  ASSUME NEW b1 \in Seq(BlockSet), NEW b2, NEW b3, NEW S, NEW T,
         Changes(b1, b2, S), Changes(b2, b3, T)
  PROVE  Changes(b1, b3, S \cup T)
<1>1. /\ b2 \in Seq(BlockSet) /\ b3 \in Seq(BlockSet)
      /\ Len(b1) \in Nat /\ Len(b2) \in Nat /\ Len(b3) \in Nat
      /\ Len(b1) <= Len(b2) /\ Len(b2) <= Len(b3)
  BY DEF Changes, KeepsRoles
<1>2. \A b \in 1 .. Len(b1) : b \in 1 .. Len(b2)
  BY <1>1
<1>3. KeepsRoles(b1, b3)
  BY <1>1, <1>2 DEF Changes, KeepsRoles
<1>4. ASSUME NEW b \in 1 .. Len(b1), b \notin S \cup T
      PROVE  /\ Closed(b3, b) <=> Closed(b1, b)
             /\ EndsInRet(b3, b) <=> EndsInRet(b1, b)
  BY <1>2, <1>4 DEF Changes
<1>5. ASSUME NEW b \in Len(b1) + 1 .. Len(b3), b \notin S \cup T
      PROVE  ~Closed(b3, b)
  <2>1. CASE b \in 1 .. Len(b2)
    <3>1. b \in Len(b1) + 1 .. Len(b2)
      BY <1>1, <2>1
    <3>2. ~Closed(b2, b)
      BY <1>5, <3>1 DEF Changes
    <3>3. QED
      BY <1>5, <2>1, <3>2 DEF Changes
  <2>2. CASE b \notin 1 .. Len(b2)
    <3>1. b \in Len(b2) + 1 .. Len(b3)
      BY <1>1, <2>2
    <3>2. QED
      BY <1>5, <3>1 DEF Changes
  <2>3. QED
    BY <2>1, <2>2
<1>6. ASSUME NEW b \in 1 .. Len(b1), Closed(b1, b), IsBr(Back(b1, b))
      PROVE  SameJump(b1, b3, b)
  <2>1. SameJump(b1, b2, b)
    BY <1>6 DEF Changes
  <2>2. SameJump(b2, b3, b)
    BY <1>2, <2>1 DEF Changes, SameJump
  <2>3. \A l, r : HasRoleIn(b1, l, r) => HasRoleIn(b2, l, r)
    BY RolesKept DEF Changes
  <2>4. QED
    BY <2>1, <2>2, <2>3 DEF SameJump
<1>7. QED
  BY <1>3, <1>4, <1>5, <1>6 DEF Changes

(* What changes only S changes only a larger set.                          *)
LEMMA ChangesMore ==
  ASSUME NEW bs, NEW bs2, NEW S, NEW T, Changes(bs, bs2, S), S \subseteq T
  PROVE  Changes(bs, bs2, T)
BY DEF Changes

(* The last instruction of a block.                                        *)
LEMMA BackType ==
  ASSUME NEW bs \in Seq(BlockSet), NEW b \in 1 .. Len(bs)
  PROVE  /\ bs[b].insts \in Seq(InstSet) /\ Len(bs[b].insts) \in Nat
         /\ bs[b].insts # <<>> => Back(bs, b) \in InstSet /\ Len(bs[b].insts) > 0
                                  /\ Back(bs, b) = bs[b].insts[Len(bs[b].insts)]
<1>1. bs[b].insts \in Seq(InstSet)
  BY BlockType
<1>2. QED
  BY <1>1, LastIsElement DEF Back

(* The blocks of X change, the others do not; what is open or resolved     *)
(* among the changed ones is said anew.                                    *)
Redrawn(bs, T, F, L, bs2, T2, F2, L2, X) ==
  /\ \A b \in 1 .. Len(bs2) : b \notin X =>
       IF b \in 1 .. Len(bs) THEN bs2[b].insts = bs[b].insts ELSE bs2[b].insts = <<>>
  /\ \A p \in T2 : (p \in T /\ p[2] \notin X) \/ WaitsTrue(bs2, p[2], p[1])
  /\ \A p \in F2 : (p \in F /\ p[2] \notin X) \/ WaitsFalse(bs2, p[2], p[1])
  /\ \A p \in L2 : (p \in L /\ p[2] \notin X) \/ WaitsLoop(bs2, p[2], p[1])
  /\ \A p \in T : p[2] \notin X => p \in T2
  /\ \A p \in F : p[2] \notin X => p \in F2
  /\ \A p \in L : p[2] \notin X => p \in L2
  /\ \A b \in X : b \in 1 .. Len(bs2) /\ (Closed(bs2, b) => JumpKept(bs2, b, T2, F2, L2))

(* A step keeps the graph if it keeps the roles, the labels apart and one  *)
(* terminator to a block, and each block it redraws ends as the open jumps *)
(* say.                                                                    *)
LEMMA GraphStep ==
  ASSUME NEW bs, NEW n, NEW T, NEW F, NEW L, Graph(bs, n, T, F, L),
         NEW bs2, NEW n2, NEW T2, NEW F2, NEW L2, NEW X, KeepsRoles(bs, bs2),
         LabelsApart(bs2, n2), OneTerminator(bs2),
         Redrawn(bs, T, F, L, bs2, T2, F2, L2, X)
  PROVE  Graph(bs2, n2, T2, F2, L2)
<1>1. /\ bs \in Seq(BlockSet) /\ bs2 \in Seq(BlockSet)
      /\ \A b \in 1 .. Len(bs) : b \in 1 .. Len(bs2)
  BY DEF Graph, KeepsRoles
<1>2. \A l, r : /\ HasRoleIn(bs, l, r) => HasRoleIn(bs2, l, r)
                /\ Unresolved(bs, l, r) => Unresolved(bs2, l, r)
  BY <1>1, RolesKept
<1>3. ASSUME NEW b \in 1 .. Len(bs), b \notin X
      PROVE  bs2[b].insts = bs[b].insts /\ Back(bs2, b) = Back(bs, b)
             /\ (Closed(bs2, b) <=> Closed(bs, b))
  BY <1>1, <1>3 DEF Back, Closed, Redrawn
<1>4. ASSUME NEW p \in T2 PROVE WaitsTrue(bs2, p[2], p[1])
  <2>1. CASE p \in T /\ p[2] \notin X
    <3>1. WaitsTrue(bs, p[2], p[1])
      BY <2>1 DEF Graph
    <3>2. QED
      BY <1>1, <1>2, <1>3, <2>1, <3>1 DEF WaitsTrue
  <2>2. QED
    BY <2>1 DEF Redrawn
<1>5. ASSUME NEW p \in F2 PROVE WaitsFalse(bs2, p[2], p[1])
  <2>1. CASE p \in F /\ p[2] \notin X
    <3>1. WaitsFalse(bs, p[2], p[1])
      BY <2>1 DEF Graph
    <3>2. QED
      BY <1>1, <1>2, <1>3, <2>1, <3>1 DEF WaitsFalse
  <2>2. QED
    BY <2>1 DEF Redrawn
<1>6. ASSUME NEW p \in L2 PROVE WaitsLoop(bs2, p[2], p[1])
  <2>1. CASE p \in L /\ p[2] \notin X
    <3>1. WaitsLoop(bs, p[2], p[1])
      BY <2>1 DEF Graph
    <3>2. QED
      BY <1>1, <1>2, <1>3, <2>1, <3>1 DEF WaitsLoop
  <2>2. QED
    BY <2>1 DEF Redrawn
<1>7. ASSUME NEW b \in 1 .. Len(bs2), Closed(bs2, b) PROVE JumpKept(bs2, b, T2, F2, L2)
  <2>1. CASE b \in X
    BY <1>7, <2>1 DEF Redrawn
  <2>2. CASE b \notin X
    <3>1. b \in 1 .. Len(bs)
      BY <1>7, <2>2 DEF Closed, Redrawn
    <3>2. Back(bs2, b) = Back(bs, b) /\ Closed(bs, b)
      BY <1>3, <1>7, <2>2, <3>1
    <3>3. JumpKept(bs, b, T, F, L)
      BY <3>1, <3>2 DEF Graph
    <3>4. \A r : /\ <<r, b>> \in T => <<r, b>> \in T2
                 /\ <<r, b>> \in F => <<r, b>> \in F2
                 /\ <<r, b>> \in L => <<r, b>> \in L2
      <4>1. \A r : <<r, b>>[2] = b
        OBVIOUS
      <4>2. QED
        BY <2>2, <4>1 DEF Redrawn
    <3>5. QED
      BY <1>2, <3>2, <3>3, <3>4 DEF JumpKept
  <2>3. QED
    BY <2>1, <2>2
<1>8. QED
  BY <1>1, <1>4, <1>5, <1>6, <1>7 DEF Graph

(* The graph stays as it is when label numbers are drawn and not used.     *)
LEMMA GraphLater ==
  ASSUME NEW bs, NEW n \in Nat, NEW m \in Nat, n <= m, NEW T, NEW F, NEW L,
         Graph(bs, n, T, F, L)
  PROVE  Graph(bs, m, T, F, L)
<1>1. \A b \in 1 .. Len(bs) : bs[b].label \in Int
  BY BlockType DEF Graph, LabelSet
<1>2. LabelsApart(bs, m)
  BY <1>1 DEF Graph, LabelsApart
<1>3. QED
  BY <1>2 DEF Graph

(* A new block at the end: its label has its role, and it is open.         *)
LEMMA GraphAddBlock ==
  ASSUME NEW bs, NEW n \in Nat, NEW T, NEW F, NEW L, Graph(bs, n, T, F, L),
         NEW r \in RoleSet
  PROVE  LET bs2 == AddBlock(bs, n, r)
         IN /\ Graph(bs2, n + 1, T, F, L) /\ Changes(bs, bs2, {})
            /\ HasRoleIn(bs2, n, r)
            /\ Len(bs2) = Len(bs) + 1 /\ bs2[Len(bs) + 1].role = r
            /\ ~Closed(bs2, Len(bs) + 1)
<1> DEFINE bs2 == AddBlock(bs, n, r)
<1>1. bs \in Seq(BlockSet) /\ n \in LabelSet /\ Len(bs) \in Nat
  BY DEF Graph, LabelSet
<1>2. /\ bs2 \in Seq(BlockSet) /\ Len(bs2) = Len(bs) + 1
      /\ \A b \in 1 .. Len(bs) : bs2[b] = bs[b]
      /\ bs2[Len(bs) + 1].label = n /\ bs2[Len(bs) + 1].role = r
      /\ bs2[Len(bs) + 1].insts = <<>>
  BY <1>1, AddBlockEffect
<1> HIDE DEF bs2
<1>3. \A b \in 1 .. Len(bs2) : b \in 1 .. Len(bs) \/ b = Len(bs) + 1
  BY <1>1, <1>2
<1>4. KeepsRoles(bs, bs2)
  BY <1>1, <1>2 DEF KeepsRoles
<1>5. \A b \in 1 .. Len(bs) : bs[b].label \in Int
  BY <1>1, BlockType DEF LabelSet
<1>6. LabelsApart(bs2, n + 1)
  <2>1. LabelsApart(bs, n)
    BY DEF Graph
  <2>2. QED
    BY <1>2, <1>3, <1>5, <2>1, SMTT(30) DEF LabelsApart
<1>7. OneTerminator(bs2)
  <2>1. OneTerminator(bs)
    BY DEF Graph
  <2>2. \A i \in 1 .. Len(<<>>) - 1 : FALSE
    OBVIOUS
  <2>3. QED
    BY <1>2, <1>3, <2>1, <2>2 DEF OneTerminator
<1>8. Graph(bs2, n + 1, T, F, L)
  <2> DEFINE X == {}
  <2>1. \A b \in 1 .. Len(bs2) : b \notin X =>
          IF b \in 1 .. Len(bs) THEN bs2[b].insts = bs[b].insts ELSE bs2[b].insts = <<>>
    BY <1>2, <1>3
  <2>2. /\ \A p \in T : p \in T /\ p[2] \notin X
        /\ \A p \in F : p \in F /\ p[2] \notin X
        /\ \A p \in L : p \in L /\ p[2] \notin X
        /\ \A b \in X : FALSE
    OBVIOUS
  <2> HIDE DEF X
  <2>3. Redrawn(bs, T, F, L, bs2, T, F, L, X)
    BY <2>1, <2>2 DEF Redrawn
  <2>4. QED
    BY <1>4, <1>6, <1>7, <2>3, GraphStep
<1>9. Changes(bs, bs2, {})
  <2>1. \A b \in 1 .. Len(bs) : SameJump(bs, bs2, b) \/ ~Closed(bs, b) \/ ~IsBr(Back(bs, b))
    BY <1>2 DEF SameJump, Closed, Back
  <2>2. \A b \in 1 .. Len(bs) : /\ Closed(bs2, b) <=> Closed(bs, b)
                                /\ EndsInRet(bs2, b) <=> EndsInRet(bs, b)
    BY <1>2 DEF Closed, EndsInRet
  <2>3. \A b \in Len(bs) + 1 .. Len(bs2) : ~Closed(bs2, b)
    BY <1>1, <1>2 DEF Closed
  <2>4. QED
    BY <1>4, <2>1, <2>2, <2>3 DEF Changes
<1>10. HasRoleIn(bs2, n, r) /\ ~Closed(bs2, Len(bs) + 1)
  <2>1. Len(bs) + 1 \in 1 .. Len(bs2)
    BY <1>1, <1>2
  <2>2. QED
    BY <1>2, <2>1 DEF HasRoleIn, Closed
<1>11. QED
  BY <1>2, <1>8, <1>9, <1>10 DEF bs2

(* A block to which nothing is added.                                      *)
LEMMA AddNothing ==
  ASSUME NEW bs \in Seq(BlockSet), NEW x \in 1 .. Len(bs)
  PROVE  AddInsts(bs, x, <<>>) = bs
<1> DEFINE bs2 == AddInsts(bs, x, <<>>)
<1>1. <<>> \in Seq(InstSet) /\ bs[x] \in BlockSet
  OBVIOUS
<1>2. bs[x].insts \in Seq(InstSet) /\ bs[x].insts \o <<>> = bs[x].insts
  BY <1>1, BlockType, ConcatLast
<1>3. WithInsts(bs[x], bs[x].insts) = bs[x]
  BY <1>1 DEF WithInsts, Block, BlockSet
<1>4. bs2 = [bs EXCEPT ![x] = bs[x]]
  BY <1>2, <1>3 DEF AddInsts
<1>5. [bs EXCEPT ![x] = bs[x]] = bs
  OBVIOUS
<1>6. QED
  BY <1>4, <1>5

(* Instructions added to an open block, of which only the last may be a    *)
(* jump.                                                                   *)
Waiting(bs2, T, F, L, T2, F2, L2) ==
  /\ T \subseteq T2 /\ F \subseteq F2 /\ L \subseteq L2
  /\ \A p \in T2 : p \in T \/ WaitsTrue(bs2, p[2], p[1])
  /\ \A p \in F2 : p \in F \/ WaitsFalse(bs2, p[2], p[1])
  /\ \A p \in L2 : p \in L \/ WaitsLoop(bs2, p[2], p[1])

(* Adding instructions to an open block keeps the graph if only the last   *)
(* of them may be a terminator and that one is where the open jumps say it *)
(* is.                                                                     *)
LEMMA GraphInsts ==
  ASSUME NEW bs, NEW n, NEW T, NEW F, NEW L, Graph(bs, n, T, F, L),
         NEW x \in 1 .. Len(bs), ~Closed(bs, x), NEW is \in Seq(InstSet), is # <<>>,
         \A i \in 1 .. Len(is) - 1 : ~IsTerminateInst(is[i]),
         NEW T2, NEW F2, NEW L2, Waiting(AddInsts(bs, x, is), T, F, L, T2, F2, L2),
         IsTerminateInst(Last(is)) => JumpKept(AddInsts(bs, x, is), x, T2, F2, L2)
  PROVE  LET bs2 == AddInsts(bs, x, is)
         IN /\ Graph(bs2, n, T2, F2, L2)
            /\ Changes(bs, bs2, {x}) /\ Len(bs2) = Len(bs)
            /\ Back(bs2, x) = Last(is) /\ bs2[x].insts # <<>>
            /\ ~IsTerminateInst(Last(is)) => Changes(bs, bs2, {}) /\ ~Closed(bs2, x)
<1> DEFINE bs2 == AddInsts(bs, x, is)
<1>1. bs \in Seq(BlockSet) /\ LabelsApart(bs, n) /\ OneTerminator(bs)
  BY DEF Graph
<1>2. /\ bs2 \in Seq(BlockSet) /\ Len(bs2) = Len(bs) /\ Len(bs) \in Nat
      /\ \A b \in 1 .. Len(bs) : bs2[b].label = bs[b].label /\ bs2[b].role = bs[b].role
      /\ \A b \in 1 .. Len(bs) : b # x => bs2[b] = bs[b]
      /\ bs2[x].insts = bs[x].insts \o is
  <2>1. Len(bs) \in Nat
    BY <1>1
  <2>2. QED
    BY <1>1, <2>1, AddInstsEffect, Zenon
<1>3. bs[x].insts \in Seq(InstSet) /\ Len(bs[x].insts) \in Nat
  BY <1>1, BackType
<1>4. bs2[x].insts # <<>> /\ Back(bs2, x) = Last(is)
  BY <1>2, <1>3, ConcatLast DEF Back
<1> HIDE DEF bs2
<1>5. \A b \in 1 .. Len(bs) : b # x => /\ bs2[b].insts = bs[b].insts
                                       /\ Back(bs2, b) = Back(bs, b)
                                       /\ (Closed(bs2, b) <=> Closed(bs, b))
                                       /\ (EndsInRet(bs2, b) <=> EndsInRet(bs, b))
  BY <1>2 DEF Back, Closed, EndsInRet
<1>6. KeepsRoles(bs, bs2)
  BY <1>2 DEF KeepsRoles
<1>7. LabelsApart(bs2, n)
  BY <1>1, <1>2 DEF LabelsApart
<1>8. OneTerminator(bs2)
  <2>1. ASSUME NEW i \in 1 .. Len(bs2[x].insts) - 1
        PROVE  ~IsTerminateInst(bs2[x].insts[i])
    <3> DEFINE s == bs[x].insts
    <3>1. /\ s \in Seq(InstSet) /\ Len(s) \in Nat /\ Len(is) \in Nat /\ Len(is) > 0
          /\ bs2[x].insts = s \o is
          /\ \A j \in 1 .. Len(s) - 1 : ~IsTerminateInst(s[j])
      BY <1>1, <1>2, <1>3 DEF OneTerminator
    <3>2. s # <<>> => ~IsTerminateInst(s[Len(s)])
      BY <1>1, BackType DEF Closed, Back
    <3> HIDE DEF s
    <3>3. /\ Len(s \o is) = Len(s) + Len(is)
          /\ \A j \in 1 .. Len(s) : (s \o is)[j] = s[j]
          /\ \A j \in 1 .. Len(is) : (s \o is)[Len(s) + j] = is[j]
      BY <3>1
    <3>4. CASE i <= Len(s)
      <4>1. i \in 1 .. Len(s) /\ bs2[x].insts[i] = s[i]
        BY <3>1, <3>3, <3>4
      <4>2. ~IsTerminateInst(s[i])
        BY <3>1, <3>2, <4>1
      <4>3. QED
        BY <4>1, <4>2
    <3>5. CASE i > Len(s)
      <4>1. i - Len(s) \in 1 .. Len(is) - 1 /\ i = Len(s) + (i - Len(s))
        BY <3>1, <3>3, <3>5
      <4>2. bs2[x].insts[i] = is[i - Len(s)]
        <5>1. i - Len(s) \in 1 .. Len(is)
          BY <3>1, <4>1
        <5>2. QED
          BY <3>1, <3>3, <4>1, <5>1
      <4>3. QED
        BY <4>1, <4>2
    <3>6. QED
      BY <3>1, <3>4, <3>5
  <2>2. QED
    BY <1>1, <1>2, <2>1 DEF OneTerminator
<1>9. /\ \A p \in T : p[2] # x
      /\ \A p \in F : p[2] # x
      /\ \A p \in L : p[2] # x
  <2>1. \A r : ~WaitsTrue(bs, x, r) /\ ~WaitsFalse(bs, x, r) /\ ~WaitsLoop(bs, x, r)
    BY DEF WaitsTrue, WaitsFalse, WaitsLoop, Closed, Back, IsTerminateInst
  <2>2. QED
    BY <2>1 DEF Graph
<1>10. Graph(bs2, n, T2, F2, L2)
  <2> DEFINE X == {x}
  <2>1. \A b \in 1 .. Len(bs2) : b \notin X =>
          IF b \in 1 .. Len(bs) THEN bs2[b].insts = bs[b].insts ELSE bs2[b].insts = <<>>
    BY <1>2, <1>5
  <2>2. /\ \A p \in T2 : (p \in T /\ p[2] \notin X) \/ WaitsTrue(bs2, p[2], p[1])
        /\ \A p \in F2 : (p \in F /\ p[2] \notin X) \/ WaitsFalse(bs2, p[2], p[1])
        /\ \A p \in L2 : (p \in L /\ p[2] \notin X) \/ WaitsLoop(bs2, p[2], p[1])
    BY <1>9 DEF bs2, Waiting
  <2>3. /\ \A p \in T : p[2] \notin X => p \in T2
        /\ \A p \in F : p[2] \notin X => p \in F2
        /\ \A p \in L : p[2] \notin X => p \in L2
    BY DEF Waiting
  <2>4. \A b \in X : b \in 1 .. Len(bs2) /\ (Closed(bs2, b) => JumpKept(bs2, b, T2, F2, L2))
    BY <1>2, <1>4 DEF bs2, Closed, Back
  <2> HIDE DEF X
  <2>5. Redrawn(bs, T, F, L, bs2, T2, F2, L2, X)
    BY <2>1, <2>2, <2>3, <2>4 DEF Redrawn
  <2>6. QED
    BY <1>6, <1>7, <1>8, <2>5, GraphStep
<1>11. \A b \in Len(bs) + 1 .. Len(bs2) : FALSE
  BY <1>2
<1>12. \A b \in 1 .. Len(bs) : Closed(bs, b) => b # x
  OBVIOUS
<1>13. \A b \in 1 .. Len(bs) : Closed(bs, b) /\ IsBr(Back(bs, b)) => SameJump(bs, bs2, b)
  BY <1>5, <1>12 DEF SameJump
<1>14. Changes(bs, bs2, {x})
  BY <1>5, <1>6, <1>11, <1>13 DEF Changes
<1>15. ~IsTerminateInst(Last(is)) => ~Closed(bs2, x) /\ ~EndsInRet(bs2, x)
  BY <1>4 DEF Closed, Back, EndsInRet, IsTerminateInst
<1>16. ~EndsInRet(bs, x)
  BY DEF Closed, EndsInRet, IsTerminateInst
<1>17. ~IsTerminateInst(Last(is)) => Changes(bs, bs2, {})
  BY <1>5, <1>6, <1>11, <1>13, <1>15, <1>16 DEF Changes
<1>18. QED
  BY <1>2, <1>4, <1>10, <1>14, <1>15, <1>17 DEF bs2

(* No jump among them.                                                     *)
LEMMA GraphPlain ==
  ASSUME NEW bs, NEW n, NEW T, NEW F, NEW L, Graph(bs, n, T, F, L),
         NEW x \in 1 .. Len(bs), ~Closed(bs, x), NEW is \in Seq(InstSet),
         \A i \in 1 .. Len(is) : ~IsTerminateInst(is[i])
  PROVE  LET bs2 == AddInsts(bs, x, is)
         IN /\ Graph(bs2, n, T, F, L) /\ Changes(bs, bs2, {})
            /\ Len(bs2) = Len(bs) /\ ~Closed(bs2, x)
<1>1. bs \in Seq(BlockSet)
  BY DEF Graph
<1>2. CASE is = <<>>
  BY <1>1, <1>2, AddNothing, ChangesReflexive
<1>3. CASE is # <<>>
  <2>1. Last(is) = is[Len(is)] /\ Len(is) \in 1 .. Len(is) /\ Len(is) \in Nat
    BY <1>3, LastIsElement
  <2>2. ~IsTerminateInst(Last(is)) /\ \A i \in 1 .. Len(is) - 1 : ~IsTerminateInst(is[i])
    BY <2>1
  <2>3. Waiting(AddInsts(bs, x, is), T, F, L, T, F, L)
    BY DEF Waiting
  <2>4. QED
    BY <1>3, <2>2, <2>3, GraphInsts
<1>4. QED
  BY <1>2, <1>3

(* A jump at the end of an open block: it knows its targets, or it waits.  *)
Awaited(bs, x, j, T, F, L, T2, F2, L2) ==
  /\ T \subseteq T2 /\ F \subseteq F2 /\ L \subseteq L2
  /\ \A p \in T2 : p \in T \/
       (p = <<j.want.t, x>> /\ j.op = "cbr" /\ Unresolved(bs, j.t, j.want.t))
  /\ \A p \in F2 : p \in F \/
       (p = <<j.want.f, x>> /\ j.op = "cbr" /\ Unresolved(bs, j.f, j.want.f))
  /\ \A p \in L2 : p \in L \/
       (p = <<j.want.t, x>> /\ j.op = "ret" /\ j.want = To(j.want.t))
  /\ IsBr(j) =>
       /\ HasRoleIn(bs, j.t, j.want.t) \/ <<j.want.t, x>> \in T2
       /\ HasRoleIn(bs, j.f, j.want.f) \/ <<j.want.f, x>> \in F2
  /\ j.op = "ret" /\ j.want # NoTarget => <<j.want.t, x>> \in L2

(* The same for a jump that follows straight-line code.                    *)
LEMMA GraphJump ==
  ASSUME NEW bs, NEW n, NEW T, NEW F, NEW L, NEW x, NEW is, NEW j,
         NEW T2, NEW F2, NEW L2, NEW S,
         Graph(bs, n, T, F, L), x \in 1 .. Len(bs), x \in S, ~Closed(bs, x),
         is \in Seq(InstSet), \A i \in 1 .. Len(is) : ~IsTerminateInst(is[i]),
         j \in InstSet, IsTerminateInst(j), Awaited(bs, x, j, T, F, L, T2, F2, L2)
  PROVE  LET bs2 == AddInsts(bs, x, Append(is, j))
         IN /\ Graph(bs2, n, T2, F2, L2) /\ Changes(bs, bs2, S)
            /\ Closed(bs2, x) /\ (EndsInRet(bs2, x) <=> j.op = "ret")
<1> DEFINE is2 == Append(is, j)
           bs2 == AddInsts(bs, x, is2)
<1>1. bs \in Seq(BlockSet)
  BY DEF Graph
<1>2. /\ is2 \in Seq(InstSet) /\ is2 # <<>> /\ Last(is2) = j
      /\ \A i \in 1 .. Len(is2) - 1 : ~IsTerminateInst(is2[i])
  BY DEF Last
<1> HIDE DEF is2
<1>3. /\ KeepsRoles(bs, bs2) /\ Len(bs2) = Len(bs) /\ bs2[x].insts # <<>> /\ Back(bs2, x) = j
      /\ bs2 \in Seq(BlockSet)
  <2>1. /\ bs2 \in Seq(BlockSet) /\ Len(bs2) = Len(bs)
        /\ \A b \in 1 .. Len(bs) : bs2[b].label = bs[b].label /\ bs2[b].role = bs[b].role
        /\ bs2[x].insts = bs[x].insts \o is2
    BY <1>1, <1>2, AddInstsEffect, Zenon
  <2>2. Len(bs) \in Nat
    BY <1>1
  <2> HIDE DEF bs2
  <2>3. KeepsRoles(bs, bs2)
    BY <2>1, <2>2 DEF KeepsRoles
  <2>4. bs2[x].insts # <<>> /\ Back(bs2, x) = j
    BY <1>1, <1>2, <2>1, BackType, ConcatLast DEF Back
  <2>5. QED
    BY <2>1, <2>3, <2>4
<1> HIDE DEF bs2
<1>4. \A l, r : /\ HasRoleIn(bs, l, r) => HasRoleIn(bs2, l, r)
                /\ Unresolved(bs, l, r) => Unresolved(bs2, l, r)
  BY <1>1, <1>3, RolesKept
<1>5. Waiting(bs2, T, F, L, T2, F2, L2)
  <2>1. ASSUME NEW p \in T2, p \notin T PROVE WaitsTrue(bs2, p[2], p[1])
    BY <1>3, <1>4, <2>1 DEF WaitsTrue, Awaited
  <2>2. ASSUME NEW p \in F2, p \notin F PROVE WaitsFalse(bs2, p[2], p[1])
    BY <1>3, <1>4, <2>2 DEF WaitsFalse, Awaited
  <2>3. ASSUME NEW p \in L2, p \notin L PROVE WaitsLoop(bs2, p[2], p[1])
    BY <1>3, <2>3 DEF WaitsLoop, Awaited
  <2>4. QED
    BY <2>1, <2>2, <2>3 DEF Waiting, Awaited
<1>6. JumpKept(bs2, x, T2, F2, L2)
  BY <1>3, <1>4 DEF JumpKept, Awaited
<1>7. /\ Graph(bs2, n, T2, F2, L2) /\ Changes(bs, bs2, {x})
  BY <1>2, <1>5, <1>6, GraphInsts DEF bs2
<1>8. Closed(bs2, x) /\ (EndsInRet(bs2, x) <=> j.op = "ret")
  BY <1>3 DEF Closed, EndsInRet, Back
<1>9. Changes(bs, bs2, S)
  BY <1>7 DEF Changes
<1>10. QED
  BY <1>7, <1>8, <1>9 DEF bs2, is2

-----------------------------------------------------------------------------
(* Chains of such steps: b0 with jumps added to the blocks of S only.      *)
Wired(b0, bs, S, n, T, F, L) ==
  b0 \in Seq(BlockSet) /\ Graph(bs, n, T, F, L) /\ Changes(b0, bs, S)

(* The chain of no steps.                                                  *)
LEMMA WireStart ==
  ASSUME NEW bs, NEW S, NEW n, NEW T, NEW F, NEW L, Graph(bs, n, T, F, L)
  PROVE  Wired(bs, bs, S, n, T, F, L)
<1>1. bs \in Seq(BlockSet)
  BY DEF Graph
<1>2. QED
  BY <1>1, ChangesReflexive DEF Wired

(* What a chain leaves alone: the blocks outside S, and the roles.         *)
LEMMA WireFacts ==
  ASSUME NEW b0, NEW bs, NEW S, NEW n, NEW T, NEW F, NEW L, NEW x,
         Wired(b0, bs, S, n, T, F, L), x \in 1 .. Len(b0)
  PROVE  /\ x \in 1 .. Len(bs) /\ bs \in Seq(BlockSet)
         /\ x \notin S => /\ Closed(bs, x) <=> Closed(b0, x)
                          /\ Leaves(bs, x) <=> Leaves(b0, x)
         /\ \A l, r : /\ HasRoleIn(b0, l, r) => HasRoleIn(bs, l, r)
                      /\ Unresolved(b0, l, r) => Unresolved(bs, l, r)
<1>1. b0 \in Seq(BlockSet) /\ bs \in Seq(BlockSet) /\ KeepsRoles(b0, bs)
  BY DEF Wired, Changes, Graph
<1>2. x \in 1 .. Len(bs)
  BY <1>1 DEF KeepsRoles
<1>3. \A l, r : /\ HasRoleIn(b0, l, r) => HasRoleIn(bs, l, r)
                /\ Unresolved(b0, l, r) => Unresolved(bs, l, r)
  BY <1>1, RolesKept
<1>4. x \notin S => /\ Closed(bs, x) <=> Closed(b0, x)
                    /\ Leaves(bs, x) <=> Leaves(b0, x)
  BY DEF Wired, Changes, Leaves
<1>5. QED
  BY <1>1, <1>2, <1>3, <1>4

(* One step more.                                                          *)
LEMMA WireMore ==
  ASSUME NEW b0, NEW bs, NEW S, NEW n, NEW T, NEW F, NEW L,
         Wired(b0, bs, S, n, T, F, L), NEW bs2, NEW n2, NEW T2, NEW F2, NEW L2, NEW S2,
         Graph(bs2, n2, T2, F2, L2), Changes(bs, bs2, S2), S \subseteq S2
  PROVE  Wired(b0, bs2, S2, n2, T2, F2, L2)
<1>1. Changes(b0, bs2, S \cup S2)
  BY ChangesTransitive DEF Wired
<1>2. S \cup S2 = S2
  OBVIOUS
<1>3. QED
  BY <1>1, <1>2 DEF Wired

AddInst(bs, x, j) == AddInsts(bs, x, <<j>>)

(* A chain goes on with a jump in a block not touched so far,              *)
LEMMA WireJump ==
  ASSUME NEW b0, NEW bs, NEW S, NEW n, NEW T, NEW F, NEW L, NEW x, NEW j,
         NEW S2, NEW T2, NEW F2, NEW L2,
         Wired(b0, bs, S, n, T, F, L), S \subseteq S2, x \in S2, x \notin S,
         x \in 1 .. Len(b0), ~Closed(b0, x), j \in InstSet, IsTerminateInst(j),
         Awaited(bs, x, j, T, F, L, T2, F2, L2)
  PROVE  Wired(b0, AddInst(bs, x, j), S2, n, T2, F2, L2)
<1>1. x \in 1 .. Len(bs) /\ ~Closed(bs, x)
  BY WireFacts
<1>2. Graph(bs, n, T, F, L)
  BY DEF Wired
<1> DEFINE e == <<>>
           bs2 == AddInsts(bs, x, Append(e, j))
<1>3. /\ e \in Seq(InstSet) /\ \A i \in 1 .. Len(e) : ~IsTerminateInst(e[i])
      /\ Append(e, j) = <<j>>
  OBVIOUS
<1> HIDE DEF e
<1>4. Graph(bs2, n, T2, F2, L2) /\ Changes(bs, bs2, S2)
  BY <1>1, <1>2, <1>3, GraphJump
<1> HIDE DEF bs2
<1>5. Wired(b0, bs2, S2, n, T2, F2, L2)
  BY <1>4, WireMore
<1>6. QED
  BY <1>3, <1>5 DEF bs2, AddInst

(* with a branch to two labels that have the roles it is for,              *)
LEMMA WireBranch ==
  ASSUME NEW b0, NEW bs, NEW S, NEW n, NEW T, NEW F, NEW L, NEW x, NEW j, NEW S2,
         Wired(b0, bs, S, n, T, F, L), S \subseteq S2, x \in S2, x \notin S,
         x \in 1 .. Len(b0), ~Closed(b0, x), j \in InstSet, IsBr(j),
         HasRoleIn(b0, j.t, j.want.t), HasRoleIn(b0, j.f, j.want.f)
  PROVE  Wired(b0, AddInst(bs, x, j), S2, n, T, F, L)
<1>1. HasRoleIn(bs, j.t, j.want.t) /\ HasRoleIn(bs, j.f, j.want.f)
  BY WireFacts
<1>2. IsTerminateInst(j) /\ Awaited(bs, x, j, T, F, L, T, F, L)
  BY <1>1 DEF IsTerminateInst, IsBr, Awaited
<1>3. QED
  BY <1>2, WireJump

(* with an unconditional branch,                                           *)
LEMMA WireBr ==
  ASSUME NEW b0, NEW bs, NEW S, NEW n, NEW T, NEW F, NEW L, NEW x, NEW l, NEW r, NEW S2,
         Wired(b0, bs, S, n, T, F, L), S \subseteq S2, x \in S2, x \notin S,
         x \in 1 .. Len(b0), ~Closed(b0, x),
         l \in LabelSet, To(r) \in WantSet, HasRoleIn(b0, l, r)
  PROVE  Wired(b0, AddInst(bs, x, BrInst(l, To(r))), S2, n, T, F, L)
<1> DEFINE j == BrInst(l, To(r))
<1>1. /\ j \in InstSet /\ IsBr(j) /\ j.t = l /\ j.f = l /\ j.want.t = r /\ j.want.f = r
  BY InstType DEF BrInst, Inst, IsBr, To
<1> HIDE DEF j
<1>2. Wired(b0, AddInst(bs, x, j), S2, n, T, F, L)
  BY <1>1, WireBranch
<1>3. QED
  BY <1>2 DEF j

(* with a conditional one,                                                 *)
LEMMA WireTest ==
  ASSUME NEW b0, NEW bs, NEW S, NEW n, NEW T, NEW F, NEW L, NEW x, NEW S2,
         NEW t, NEW f, NEW w,
         Wired(b0, bs, S, n, T, F, L), S \subseteq S2, x \in S2, x \notin S,
         x \in 1 .. Len(b0), ~Closed(b0, x), t \in LabelSet, f \in LabelSet, w \in WantSet,
         HasRoleIn(b0, t, w.t), HasRoleIn(b0, f, w.f)
  PROVE  Wired(b0, AddInst(bs, x, CondBr(t, f, w)), S2, n, T, F, L)
<1> DEFINE j == CondBr(t, f, w)
<1>1. j \in InstSet /\ IsBr(j) /\ j.t = t /\ j.f = f /\ j.want = w
  BY InstType DEF CondBr, Inst, IsBr
<1> HIDE DEF j
<1>2. Wired(b0, AddInst(bs, x, j), S2, n, T, F, L)
  BY <1>1, WireBranch
<1>3. QED
  BY <1>2 DEF j

(* and with the jump to a join that is left out after a return.            *)
LEMMA WireJoin ==
  ASSUME NEW b0, NEW bs, NEW S, NEW n, NEW T, NEW F, NEW L, NEW x, NEW l, NEW r, NEW S2,
         Wired(b0, bs, S, n, T, F, L), S \subseteq S2, x \in S2, x \notin S,
         x \in 1 .. Len(b0), Leaves(b0, x),
         l \in LabelSet, To(r) \in WantSet, HasRoleIn(b0, l, r)
  PROVE  Wired(b0, JumpUnlessRet(bs, x, l, r), S2, n, T, F, L)
<1>1. Leaves(bs, x) /\ (Closed(bs, x) <=> Closed(b0, x))
  BY WireFacts
<1>2. CASE EndsInRet(bs, x)
  <2>1. Wired(b0, bs, S2, n, T, F, L)
    BY ChangesMore DEF Wired
  <2>2. QED
    BY <1>2, <2>1 DEF JumpUnlessRet
<1>3. CASE ~EndsInRet(bs, x)
  <2>1. ~Closed(b0, x)
    BY <1>1, <1>3 DEF Leaves
  <2>2. Wired(b0, AddInst(bs, x, BrInst(l, To(r))), S2, n, T, F, L)
    BY <2>1, WireBr
  <2>3. QED
    BY <1>3, <2>2 DEF JumpUnlessRet, AddInst
<1>4. QED
  BY <1>2, <1>3

(* The jumps of a list find their target r, and leave the open ones.       *)
Closing(T, T2, r, list) ==
  /\ list \in Seq(Nat) /\ T2 \subseteq T
  /\ \A b \in ToSet(list) : <<r, b>> \in T
  /\ \A p \in T : p \in T2 \/ (p[1] = r /\ p[2] \in ToSet(list))
  /\ \A p \in T2 : p[1] # r

-----------------------------------------------------------------------------
(* Patching a list.                                                        *)

(* A list of nonempty blocks is one that the patching operators accept.    *)
LEMMA ListOfBlocks ==
  ASSUME NEW bs, NEW list \in Seq(Nat),
         \A b \in ToSet(list) : b \in 1 .. Len(bs) /\ bs[b].insts # <<>>
  PROVE  ListOK(bs, list)
<1>1. ToSet(list) = {list[i] : i \in 1 .. Len(list)} /\ Len(list) \in Nat
  BY DEF ToSet
<1>2. \A i \in 1 .. Len(list) : list[i] \in 1 .. Len(bs) /\ bs[list[i]].insts # <<>>
  BY <1>1
<1>3. list \in Seq(1 .. Len(bs))
  BY <1>2
<1>4. QED
  BY <1>2, <1>3 DEF ListOK

(* Replacing the last instruction of the blocks of a list by a terminator  *)
(* keeps roles, labels and the rest of every block.                        *)
LEMMA ReplacedKeeps ==
  ASSUME NEW bs, NEW bs2, NEW list, NEW J, NEW n, NEW T, NEW F, NEW L,
         Graph(bs, n, T, F, L), Replaced(bs, bs2, list, J)
  PROVE  /\ KeepsRoles(bs, bs2) /\ LabelsApart(bs2, n) /\ OneTerminator(bs2)
         /\ Len(bs2) = Len(bs)
         /\ \A b \in 1 .. Len(bs) : b \notin ToSet(list) => bs2[b] = bs[b]
         /\ \A b \in ToSet(list) :
              /\ b \in 1 .. Len(bs) /\ bs[b].insts # <<>> /\ bs2[b].insts # <<>>
              /\ Len(bs2[b].insts) = Len(bs[b].insts) /\ Back(bs2, b) = J[b]
<1>1. bs \in Seq(BlockSet) /\ Len(bs) \in Nat /\ LabelsApart(bs, n) /\ OneTerminator(bs)
  BY DEF Graph
<1>2. /\ bs2 \in Seq(BlockSet) /\ Len(bs2) = Len(bs)
      /\ \A b \in 1 .. Len(bs) : bs2[b].label = bs[b].label /\ bs2[b].role = bs[b].role
      /\ \A b \in 1 .. Len(bs) : b \notin ToSet(list) => bs2[b] = bs[b]
      /\ \A b \in ToSet(list) :
              /\ b \in 1 .. Len(bs) /\ bs[b].insts # <<>> /\ bs2[b].insts # <<>>
              /\ Len(bs2[b].insts) = Len(bs[b].insts) /\ Back(bs2, b) = J[b]
              /\ \A i \in 1 .. Len(bs[b].insts) - 1 : bs2[b].insts[i] = bs[b].insts[i]
  BY DEF Replaced
<1>3. KeepsRoles(bs, bs2)
  BY <1>1, <1>2 DEF KeepsRoles
<1>4. LabelsApart(bs2, n)
  BY <1>1, <1>2 DEF LabelsApart
<1>5. OneTerminator(bs2)
  <2>1. ASSUME NEW b \in 1 .. Len(bs), NEW i \in 1 .. Len(bs2[b].insts) - 1
        PROVE  ~IsTerminateInst(bs2[b].insts[i])
    <3>1. CASE b \in ToSet(list)
      BY <1>1, <1>2, <2>1, <3>1 DEF OneTerminator
    <3>2. CASE b \notin ToSet(list)
      <4>1. bs2[b] = bs[b]
        BY <1>2, <3>2
      <4>2. QED
        BY <1>1, <2>1, <4>1 DEF OneTerminator
    <3>3. QED
      BY <3>1, <3>2
  <2>2. QED
    BY <1>2, <2>1 DEF OneTerminator
<1>6. QED
  BY <1>2, <1>3, <1>4, <1>5

(* What is patched has no role of its own: r is not reached yet.           *)
LEMMA NotYet ==
  ASSUME NEW bs, NEW n, LabelsApart(bs, n), NEW l, NEW r, Unresolved(bs, l, r)
  PROVE  ~HasRoleIn(bs, l, r)
BY DEF LabelsApart, Unresolved, HasRoleIn

(* Filling in the true targets of a whole list takes its jumps off the     *)
(* open ones.                                                              *)
LEMMA GraphTrue ==
  ASSUME NEW bs, NEW n, NEW T, NEW F, NEW L, NEW T2, NEW r, NEW list, NEW l, NEW S,
         Graph(bs, n, T, F, L), Closing(T, T2, r, list), l \in LabelSet, HasRoleIn(bs, l, r)
  PROVE  /\ Graph(SetTrue(bs, list, l), n, T2, F, L)
         /\ Changes(bs, SetTrue(bs, list, l), S)
<1> DEFINE bs2 == SetTrue(bs, list, l)
           X == ToSet(list)
           J == Trues(bs, list, l)
<1>1. bs \in Seq(BlockSet) /\ LabelsApart(bs, n)
  BY DEF Graph
<1>2. \A b \in X : WaitsTrue(bs, b, r)
  <2>1. \A b \in X : <<r, b>> \in T /\ <<r, b>>[1] = r /\ <<r, b>>[2] = b
    BY DEF Closing
  <2> HIDE DEF X
  <2>2. QED
    BY <2>1 DEF Graph
<1>3. Replaced(bs, bs2, list, J)
  <2>1. ListOK(bs, list)
    BY <1>2, ListOfBlocks DEF Closing, WaitsTrue
  <2>2. QED
    BY <1>1, <2>1, PatchEffect
<1>4. /\ KeepsRoles(bs, bs2) /\ LabelsApart(bs2, n) /\ OneTerminator(bs2)
      /\ Len(bs2) = Len(bs) /\ Len(bs) \in Nat
      /\ \A b \in 1 .. Len(bs) : b \notin X => bs2[b] = bs[b]
      /\ \A b \in X :
              /\ b \in 1 .. Len(bs) /\ bs[b].insts # <<>> /\ bs2[b].insts # <<>>
              /\ Len(bs2[b].insts) = Len(bs[b].insts) /\ Back(bs2, b) = J[b]
  BY <1>1, <1>3, ReplacedKeeps
<1>5. \A b \in X : /\ Back(bs2, b).op = "cbr" /\ Back(bs, b).op = "cbr" /\ Back(bs2, b).t = l
                   /\ Back(bs2, b).f = Back(bs, b).f /\ Back(bs2, b).want = Back(bs, b).want
                   /\ Back(bs, b).want.t = r /\ Unresolved(bs, Back(bs, b).t, r)
  BY <1>2, <1>4 DEF WaitsTrue, Trues, Inst
<1> HIDE DEF bs2, J, X
<1>6. \A y, z : /\ HasRoleIn(bs, y, z) => HasRoleIn(bs2, y, z)
                /\ Unresolved(bs, y, z) => Unresolved(bs2, y, z)
  BY <1>1, <1>4, RolesKept
<1>7. \A b \in X : b \in 1 .. Len(bs2) /\ JumpKept(bs2, b, T2, F, L)
  <2>1. ASSUME NEW b \in X PROVE JumpKept(bs, b, T, F, L)
    BY <1>4, <1>5 DEF Graph, Closed, Back, IsTerminateInst
  <2>2. QED
    BY <1>4, <1>5, <1>6, <2>1 DEF JumpKept, IsBr
<1>8. Redrawn(bs, T, F, L, bs2, T2, F, L, X)
  <2>1. \A b \in 1 .. Len(bs2) : b \notin X =>
          IF b \in 1 .. Len(bs) THEN bs2[b].insts = bs[b].insts ELSE bs2[b].insts = <<>>
    BY <1>4
  <2>2. ASSUME NEW p \in T2 PROVE p \in T /\ p[2] \notin X
    <3>1. p \in T /\ p[1] # r
      BY DEF Closing
    <3>2. WaitsTrue(bs, p[2], p[1])
      BY <3>1 DEF Graph
    <3>3. p[2] \in X => Back(bs, p[2]).want.t = r
      BY <1>5
    <3>4. QED
      BY <3>1, <3>2, <3>3 DEF WaitsTrue
  <2>3. ASSUME NEW p \in F PROVE p[2] \in X => WaitsFalse(bs2, p[2], p[1])
    <3>1. WaitsFalse(bs, p[2], p[1])
      BY DEF Graph
    <3>2. QED
      BY <1>4, <1>5, <1>6, <3>1 DEF WaitsFalse
  <2>4. ASSUME NEW p \in L PROVE p[2] \notin X
    BY <1>5 DEF Graph, WaitsLoop
  <2>5. \A p \in T : p[2] \notin X => p \in T2
    BY DEF Closing, X
  <2>6. QED
    BY <1>7, <2>1, <2>2, <2>3, <2>4, <2>5 DEF Redrawn
<1>9. Graph(bs2, n, T2, F, L)
  BY <1>4, <1>8, GraphStep
<1>10. ASSUME NEW b \in 1 .. Len(bs)
       PROVE  /\ Closed(bs2, b) <=> Closed(bs, b)
              /\ EndsInRet(bs2, b) <=> EndsInRet(bs, b)
              /\ Closed(bs, b) /\ IsBr(Back(bs, b)) => SameJump(bs, bs2, b)
  <2>1. CASE b \in X
    <3>1. ~HasRoleIn(bs, Back(bs, b).t, r)
      BY <1>1, <1>5, <2>1, NotYet
    <3>2. QED
      BY <1>4, <1>5, <2>1, <3>1 DEF Closed, EndsInRet, SameJump, Back, IsTerminateInst, IsBr
  <2>2. CASE b \notin X
    BY <1>4, <2>2 DEF Closed, EndsInRet, SameJump, Back
  <2>3. QED
    BY <2>1, <2>2
<1>11. \A b \in Len(bs) + 1 .. Len(bs2) : FALSE
  BY <1>4
<1>12. Changes(bs, bs2, S)
  BY <1>4, <1>10, <1>11 DEF Changes
<1>13. QED
  BY <1>9, <1>12 DEF bs2

(* The same for the false targets.                                         *)
LEMMA GraphFalse ==
  ASSUME NEW bs, NEW n, NEW T, NEW F, NEW L, NEW F2, NEW r, NEW list, NEW l, NEW S,
         Graph(bs, n, T, F, L), Closing(F, F2, r, list), l \in LabelSet, HasRoleIn(bs, l, r)
  PROVE  /\ Graph(SetFalse(bs, list, l), n, T, F2, L)
         /\ Changes(bs, SetFalse(bs, list, l), S)
<1> DEFINE bs2 == SetFalse(bs, list, l)
           X == ToSet(list)
           J == Falses(bs, list, l)
<1>1. bs \in Seq(BlockSet) /\ LabelsApart(bs, n)
  BY DEF Graph
<1>2. \A b \in X : WaitsFalse(bs, b, r)
  <2>1. \A b \in X : <<r, b>> \in F /\ <<r, b>>[1] = r /\ <<r, b>>[2] = b
    BY DEF Closing
  <2> HIDE DEF X
  <2>2. QED
    BY <2>1 DEF Graph
<1>3. Replaced(bs, bs2, list, J)
  <2>1. ListOK(bs, list)
    BY <1>2, ListOfBlocks DEF Closing, WaitsFalse
  <2>2. QED
    BY <1>1, <2>1, PatchEffect
<1>4. /\ KeepsRoles(bs, bs2) /\ LabelsApart(bs2, n) /\ OneTerminator(bs2)
      /\ Len(bs2) = Len(bs) /\ Len(bs) \in Nat
      /\ \A b \in 1 .. Len(bs) : b \notin X => bs2[b] = bs[b]
      /\ \A b \in X :
              /\ b \in 1 .. Len(bs) /\ bs[b].insts # <<>> /\ bs2[b].insts # <<>>
              /\ Len(bs2[b].insts) = Len(bs[b].insts) /\ Back(bs2, b) = J[b]
  BY <1>1, <1>3, ReplacedKeeps
<1>5. \A b \in X : /\ Back(bs2, b).op = "cbr" /\ Back(bs, b).op = "cbr" /\ Back(bs2, b).f = l
                   /\ Back(bs2, b).t = Back(bs, b).t /\ Back(bs2, b).want = Back(bs, b).want
                   /\ Back(bs, b).want.f = r /\ Unresolved(bs, Back(bs, b).f, r)
  BY <1>2, <1>4 DEF WaitsFalse, Falses, Inst
<1> HIDE DEF bs2, J, X
<1>6. \A y, z : /\ HasRoleIn(bs, y, z) => HasRoleIn(bs2, y, z)
                /\ Unresolved(bs, y, z) => Unresolved(bs2, y, z)
  BY <1>1, <1>4, RolesKept
<1>7. \A b \in X : b \in 1 .. Len(bs2) /\ JumpKept(bs2, b, T, F2, L)
  <2>1. ASSUME NEW b \in X PROVE JumpKept(bs, b, T, F, L)
    BY <1>4, <1>5 DEF Graph, Closed, Back, IsTerminateInst
  <2>2. QED
    BY <1>4, <1>5, <1>6, <2>1 DEF JumpKept, IsBr
<1>8. Redrawn(bs, T, F, L, bs2, T, F2, L, X)
  <2>1. \A b \in 1 .. Len(bs2) : b \notin X =>
          IF b \in 1 .. Len(bs) THEN bs2[b].insts = bs[b].insts ELSE bs2[b].insts = <<>>
    BY <1>4
  <2>2. ASSUME NEW p \in F2 PROVE p \in F /\ p[2] \notin X
    <3>1. p \in F /\ p[1] # r
      BY DEF Closing
    <3>2. WaitsFalse(bs, p[2], p[1])
      BY <3>1 DEF Graph
    <3>3. p[2] \in X => Back(bs, p[2]).want.f = r
      BY <1>5
    <3>4. QED
      BY <3>1, <3>2, <3>3 DEF WaitsFalse
  <2>3. ASSUME NEW p \in T PROVE p[2] \in X => WaitsTrue(bs2, p[2], p[1])
    <3>1. WaitsTrue(bs, p[2], p[1])
      BY DEF Graph
    <3>2. QED
      BY <1>4, <1>5, <1>6, <3>1 DEF WaitsTrue
  <2>4. ASSUME NEW p \in L PROVE p[2] \notin X
    BY <1>5 DEF Graph, WaitsLoop
  <2>5. \A p \in F : p[2] \notin X => p \in F2
    BY DEF Closing, X
  <2>6. QED
    BY <1>7, <2>1, <2>2, <2>3, <2>4, <2>5 DEF Redrawn
<1>9. Graph(bs2, n, T, F2, L)
  BY <1>4, <1>8, GraphStep
<1>10. ASSUME NEW b \in 1 .. Len(bs)
       PROVE  /\ Closed(bs2, b) <=> Closed(bs, b)
              /\ EndsInRet(bs2, b) <=> EndsInRet(bs, b)
              /\ Closed(bs, b) /\ IsBr(Back(bs, b)) => SameJump(bs, bs2, b)
  <2>1. CASE b \in X
    <3>1. ~HasRoleIn(bs, Back(bs, b).f, r)
      BY <1>1, <1>5, <2>1, NotYet
    <3>2. QED
      BY <1>4, <1>5, <2>1, <3>1 DEF Closed, EndsInRet, SameJump, Back, IsTerminateInst, IsBr
  <2>2. CASE b \notin X
    BY <1>4, <2>2 DEF Closed, EndsInRet, SameJump, Back
  <2>3. QED
    BY <2>1, <2>2
<1>11. \A b \in Len(bs) + 1 .. Len(bs2) : FALSE
  BY <1>4
<1>12. Changes(bs, bs2, S)
  BY <1>4, <1>10, <1>11 DEF Changes
<1>13. QED
  BY <1>9, <1>12 DEF bs2

(* The same for the breaks or the continues of a loop.                     *)
LEMMA GraphClose ==
  ASSUME NEW bs, NEW n, NEW T, NEW F, NEW L, NEW L2, NEW r, NEW list, NEW l, NEW S,
         Graph(bs, n, T, F, L), Closing(L, L2, r, list), l \in LabelSet, HasRoleIn(bs, l, r),
         ToSet(list) \subseteq S
  PROVE  /\ Graph(CloseJumps(bs, list, l), n, T, F, L2)
         /\ Changes(bs, CloseJumps(bs, list, l), S)
<1> DEFINE bs2 == CloseJumps(bs, list, l)
           X == ToSet(list)
           J == Brs(bs, list, l)
<1>1. bs \in Seq(BlockSet) /\ LabelsApart(bs, n)
  BY DEF Graph
<1>2. \A b \in X : WaitsLoop(bs, b, r)
  <2>1. \A b \in X : <<r, b>> \in L /\ <<r, b>>[1] = r /\ <<r, b>>[2] = b
    BY DEF Closing
  <2> HIDE DEF X
  <2>2. QED
    BY <2>1 DEF Graph
<1>3. Replaced(bs, bs2, list, J)
  <2>1. ListOK(bs, list)
    BY <1>2, ListOfBlocks DEF Closing, WaitsLoop
  <2>2. QED
    BY <1>1, <2>1, PatchEffect
<1>4. /\ KeepsRoles(bs, bs2) /\ LabelsApart(bs2, n) /\ OneTerminator(bs2)
      /\ Len(bs2) = Len(bs) /\ Len(bs) \in Nat
      /\ \A b \in 1 .. Len(bs) : b \notin X => bs2[b] = bs[b]
      /\ \A b \in X :
              /\ b \in 1 .. Len(bs) /\ bs[b].insts # <<>> /\ bs2[b].insts # <<>>
              /\ Len(bs2[b].insts) = Len(bs[b].insts) /\ Back(bs2, b) = J[b]
  BY <1>1, <1>3, ReplacedKeeps
<1>5. \A b \in X : /\ Back(bs2, b).op = "br" /\ Back(bs, b).op = "ret"
                   /\ Back(bs2, b).t = l /\ Back(bs2, b).f = l
                   /\ Back(bs2, b).want.t = r /\ Back(bs2, b).want.f = r
                   /\ Back(bs, b).want = To(r)
  BY <1>2, <1>4 DEF WaitsLoop, Brs, BrInst, Inst, To
<1> HIDE DEF bs2, J, X
<1>6. \A y, z : /\ HasRoleIn(bs, y, z) => HasRoleIn(bs2, y, z)
                /\ Unresolved(bs, y, z) => Unresolved(bs2, y, z)
  BY <1>1, <1>4, RolesKept
<1>7. \A b \in X : b \in 1 .. Len(bs2) /\ JumpKept(bs2, b, T, F, L2)
  BY <1>4, <1>5, <1>6 DEF JumpKept
<1>8. Redrawn(bs, T, F, L, bs2, T, F, L2, X)
  <2>1. \A b \in 1 .. Len(bs2) : b \notin X =>
          IF b \in 1 .. Len(bs) THEN bs2[b].insts = bs[b].insts ELSE bs2[b].insts = <<>>
    BY <1>4
  <2>2. ASSUME NEW p \in L2 PROVE p \in L /\ p[2] \notin X
    <3>1. p \in L /\ p[1] # r
      BY DEF Closing
    <3>2. WaitsLoop(bs, p[2], p[1])
      BY <3>1 DEF Graph
    <3>3. p[2] \in X => Back(bs, p[2]).want = To(r)
      BY <1>5
    <3>4. To(r) # To(p[1])
      BY <3>1 DEF To
    <3>5. QED
      BY <3>1, <3>2, <3>3, <3>4 DEF WaitsLoop
  <2>3. ASSUME NEW p \in T PROVE p[2] \notin X
    BY <1>5 DEF Graph, WaitsTrue
  <2>4. ASSUME NEW p \in F PROVE p[2] \notin X
    BY <1>5 DEF Graph, WaitsFalse
  <2>5. \A p \in L : p[2] \notin X => p \in L2
    BY DEF Closing, X
  <2>6. QED
    BY <1>7, <2>1, <2>2, <2>3, <2>4, <2>5 DEF Redrawn
<1>9. Graph(bs2, n, T, F, L2)
  BY <1>4, <1>8, GraphStep
<1>10. ASSUME NEW b \in 1 .. Len(bs)
       PROVE  /\ b \notin S => (Closed(bs2, b) <=> Closed(bs, b))
              /\ b \notin S => (EndsInRet(bs2, b) <=> EndsInRet(bs, b))
              /\ Closed(bs, b) /\ IsBr(Back(bs, b)) => SameJump(bs, bs2, b)
  <2>1. CASE b \in X
    BY <1>5, <2>1 DEF IsBr, X
  <2>2. CASE b \notin X
    BY <1>4, <2>2 DEF Closed, EndsInRet, SameJump, Back
  <2>3. QED
    BY <2>1, <2>2
<1>11. \A b \in Len(bs) + 1 .. Len(bs2) : FALSE
  BY <1>4
<1>12. Changes(bs, bs2, S)
  BY <1>4, <1>10, <1>11 DEF Changes
<1>13. QED
  BY <1>9, <1>12 DEF bs2

(* A chain goes on with the patching of a list of conditional jumps,       *)
LEMMA WirePatch ==
  ASSUME NEW b0, NEW bs, NEW S, NEW n, NEW T, NEW F, NEW L, NEW r, NEW list, NEW l,
         Wired(b0, bs, S, n, T, F, L), l \in LabelSet, HasRoleIn(b0, l, r)
  PROVE  /\ \A T2 : Closing(T, T2, r, list) => Wired(b0, SetTrue(bs, list, l), S, n, T2, F, L)
         /\ \A F2 : Closing(F, F2, r, list) => Wired(b0, SetFalse(bs, list, l), S, n, T, F2, L)
<1>1. b0 \in Seq(BlockSet) /\ Graph(bs, n, T, F, L) /\ HasRoleIn(bs, l, r)
  BY RolesKept DEF Wired, Changes
<1>2. S \subseteq S
  OBVIOUS
<1>3. ASSUME NEW T2, Closing(T, T2, r, list)
      PROVE  Wired(b0, SetTrue(bs, list, l), S, n, T2, F, L)
  <2>1. /\ Graph(SetTrue(bs, list, l), n, T2, F, L)
        /\ Changes(bs, SetTrue(bs, list, l), S)
    BY <1>1, <1>3, GraphTrue
  <2>2. QED
    BY <1>2, <2>1, WireMore
<1>4. ASSUME NEW F2, Closing(F, F2, r, list)
      PROVE  Wired(b0, SetFalse(bs, list, l), S, n, T, F2, L)
  <2>1. /\ Graph(SetFalse(bs, list, l), n, T, F2, L)
        /\ Changes(bs, SetFalse(bs, list, l), S)
    BY <1>1, <1>4, GraphFalse
  <2>2. QED
    BY <1>2, <2>1, WireMore
<1>5. QED
  BY <1>3, <1>4

(* and with the patching of the breaks or the continues of a loop.         *)
LEMMA WireClose ==
  ASSUME NEW b0, NEW bs, NEW S, NEW n, NEW T, NEW F, NEW L, NEW r, NEW list, NEW l,
         NEW S2, NEW L2, Wired(b0, bs, S, n, T, F, L), l \in LabelSet, HasRoleIn(b0, l, r),
         S \subseteq S2, ToSet(list) \subseteq S2, Closing(L, L2, r, list)
  PROVE  Wired(b0, CloseJumps(bs, list, l), S2, n, T, F, L2)
<1>1. b0 \in Seq(BlockSet) /\ Graph(bs, n, T, F, L) /\ HasRoleIn(bs, l, r)
  BY RolesKept DEF Wired, Changes
<1>2. /\ Graph(CloseJumps(bs, list, l), n, T, F, L2)
      /\ Changes(bs, CloseJumps(bs, list, l), S2)
  BY <1>1, GraphClose
<1>3. QED
  BY <1>2, WireMore

(* What FramesShape says of the frame on top of fr.                        *)
TopShape(fr, f, bs, n) ==
  /\ FrameShape(f, bs)
  /\ \A b \in Behind(f) : b < Len(bs)
  /\ f.kind # "seq" => f.node <= n
  /\ f.kind = "cond" /\ fr # <<>> => f.want = WantOf(Last(fr))
  /\ \A j \in 1 .. Len(fr) :
       /\ \A b \in Behind(fr[j]), c \in Waits(f) : b < c
       /\ fr[j].kind # "seq" /\ f.kind # "seq" => fr[j].node < f.node

-----------------------------------------------------------------------------
(* The shape of the frames.                                                *)

(* The shape of the frames is that of the top one and of those below it.   *)
LEMMA ShapePush ==
  ASSUME NEW fr \in Seq(FrameSet), NEW f \in FrameSet, NEW bs, NEW n
  PROVE  FramesShape(Append(fr, f), bs, n) <=> FramesShape(fr, bs, n) /\ TopShape(fr, f, bs, n)
<1> DEFINE s == Append(fr, f)
           d == Len(fr)
<1>1. /\ Len(s) = d + 1 /\ d \in Nat /\ s[d + 1] = f /\ \A k \in 1 .. d : s[k] = fr[k]
      /\ Last(fr) = fr[d]
  BY DEF Last
<1> HIDE DEF s
<1>2. /\ \A k \in 1 .. d : k \in 1 .. Len(s)
      /\ d + 1 \in 1 .. Len(s) /\ (d + 1) - 1 = d
      /\ \A k \in 1 .. Len(s) : k \in 1 .. d \/ k = d + 1
      /\ \A k \in 1 .. d : k # d + 1 /\ k < d + 1
  BY <1>1
<1>3. ASSUME FramesShape(s, bs, n)
      PROVE  FramesShape(fr, bs, n) /\ TopShape(fr, f, bs, n)
  <2>1. \A k \in 2 .. d : fr[k].kind = "cond" => fr[k].want = WantOf(fr[k - 1])
    <3>1. \A k \in 2 .. d : k \in 2 .. Len(s) /\ s[k] = fr[k] /\ s[k - 1] = fr[k - 1]
      BY <1>1
    <3>2. QED
      BY <1>3, <3>1 DEF FramesShape
  <2>2. FramesShape(fr, bs, n)
    BY <1>1, <1>2, <1>3, <2>1 DEF FramesShape
  <2>3. f.kind = "cond" /\ fr # <<>> => f.want = WantOf(Last(fr))
    <3>1. fr # <<>> => d + 1 \in 2 .. Len(s)
      BY <1>1
    <3>2. QED
      BY <1>1, <1>2, <1>3, <3>1 DEF FramesShape
  <2>4. TopShape(fr, f, bs, n)
    BY <1>1, <1>2, <1>3, <2>3 DEF FramesShape, TopShape
  <2>5. QED
    BY <2>2, <2>4
<1>4. ASSUME FramesShape(fr, bs, n), TopShape(fr, f, bs, n)
      PROVE  FramesShape(s, bs, n)
  <2>1. ASSUME NEW k \in 1 .. Len(s)
        PROVE  /\ FrameShape(s[k], bs) /\ \A b \in Behind(s[k]) : b < Len(bs)
               /\ s[k].kind # "seq" => s[k].node <= n
    <3>1. CASE k = d + 1
      BY <1>1, <1>4, <3>1 DEF TopShape
    <3>2. CASE k # d + 1
      <4>1. k \in 1 .. d /\ s[k] = fr[k]
        BY <1>1, <1>2, <3>2
      <4>2. QED
        BY <1>4, <4>1 DEF FramesShape
    <3>3. QED
      BY <3>1, <3>2
  <2>2. ASSUME NEW k \in 2 .. Len(s), s[k].kind = "cond"
        PROVE  s[k].want = WantOf(s[k - 1])
    <3>1. CASE k = d + 1
      <4>1. fr # <<>> /\ s[k - 1] = Last(fr)
        <5>1. d \in 1 .. d /\ (d + 1) - 1 = d
          BY <1>1, <3>1
        <5>2. QED
          BY <1>1, <3>1, <5>1
      <4>2. QED
        BY <1>1, <1>4, <2>2, <3>1, <4>1 DEF TopShape
    <3>2. CASE k # d + 1
      <4>1. k \in 2 .. d /\ s[k] = fr[k] /\ s[k - 1] = fr[k - 1]
        BY <1>1, <3>2
      <4>2. QED
        BY <1>4, <2>2, <4>1 DEF FramesShape
    <3>3. QED
      BY <3>1, <3>2
  <2>3. ASSUME NEW j \in 1 .. Len(s), NEW k \in 1 .. Len(s), j < k
        PROVE  /\ \A b \in Behind(s[j]), c \in Waits(s[k]) : b < c
               /\ s[j].kind # "seq" /\ s[k].kind # "seq" => s[j].node < s[k].node
    <3>1. j \in 1 .. d /\ s[j] = fr[j]
      BY <1>1, <2>3
    <3>2. CASE k = d + 1
      BY <1>1, <1>4, <3>1, <3>2 DEF TopShape
    <3>3. CASE k # d + 1
      <4>1. k \in 1 .. d /\ s[k] = fr[k]
        BY <1>1, <1>2, <3>3
      <4>2. QED
        BY <1>4, <2>3, <3>1, <4>1 DEF FramesShape
    <3>4. QED
      BY <3>2, <3>3
  <2>4. QED
    BY <2>1, <2>2, <2>3 DEF FramesShape
<1>5. QED
  BY <1>3, <1>4 DEF s

(* Popping the top frame keeps the shape of the others.                    *)
LEMMA ShapePop ==
  ASSUME NEW fr \in Seq(FrameSet), fr # <<>>, NEW bs, NEW n, FramesShape(fr, bs, n)
  PROVE  /\ FramesShape(Front(fr), bs, n) /\ TopShape(Front(fr), Last(fr), bs, n)
         /\ Front(fr) \in Seq(FrameSet) /\ Last(fr) \in FrameSet
<1> DEFINE s == Front(fr)
           f == Last(fr)
<1>1. s \in Seq(FrameSet) /\ f \in FrameSet /\ fr = Append(s, f)
  BY FrontIsSeq, LastIsElement, AppendFront
<1> HIDE DEF s, f
<1>2. FramesShape(Append(s, f), bs, n)
  BY <1>1
<1>3. FramesShape(s, bs, n) /\ TopShape(s, f, bs, n)
  BY <1>1, <1>2, ShapePush
<1>4. QED
  BY <1>1, <1>3 DEF s, f

(* The shape stays when nodes are counted.                                 *)
LEMMA ShapeLater ==
  ASSUME NEW fr \in Seq(FrameSet), NEW bs, NEW n \in Nat, NEW m \in Nat, n <= m,
         FramesShape(fr, bs, n)
  PROVE  FramesShape(fr, bs, m)
<1>1. ASSUME NEW k \in 1 .. Len(fr), fr[k].kind # "seq" PROVE fr[k].node <= m
  <2>1. fr[k] \in FrameSet
    OBVIOUS
  <2>2. fr[k].node \in Nat
    BY <1>1, <2>1, FrameFields
  <2>3. fr[k].node <= n
    BY <1>1 DEF FramesShape
  <2>4. QED
    BY <2>2, <2>3
<1>2. QED
  BY <1>1 DEF FramesShape

(* The blocks of a frame, kind by kind.                                    *)
LEMMA FrameBlocks ==
  ASSUME NEW f \in FrameSet
  PROVE  /\ f.kind = "seq" => Waits(f) = {} /\ Pending(f) = {} /\ Behind(f) = {}
         /\ f.kind = "if" =>
              /\ Awaits(f) <=> f.phase = "cond"
              /\ Waits(f) = IF f.phase = "else" /\ f.hasElse THEN {f.bb, f.thenEnd} ELSE {f.bb}
              /\ Behind(f) = IF f.phase = "cond" THEN {} ELSE Waits(f)
              /\ Pending(f) = IF f.phase # "cond" /\ f.cond # "none" THEN {f.bb} ELSE {}
         /\ f.kind = "while" =>
              /\ Awaits(f) <=> f.phase = "cond"
              /\ Waits(f) = {f.check}
              /\ Behind(f) = IF f.phase = "cond" THEN {} ELSE {f.check}
              /\ Pending(f) = IF f.phase = "body" /\ (f.const \/ f.cond # "none")
                              THEN {f.check} ELSE {}
         /\ f.kind = "cond" =>
              /\ Awaits(f)
              /\ Waits(f) = IF f.phase = "rhs" THEN {f.bb, f.lhs, f.rhs} ELSE {f.bb, f.lhs}
              /\ Behind(f) = IF f.phase = "rhs" THEN {f.bb, f.lhs, f.rhs} \ {f.rhs}
                                                ELSE {f.bb, f.lhs} \ {f.lhs}
              /\ Pending(f) = IF f.phase = "rhs" /\ f.cond # "none" THEN {f.bb, f.lhs} ELSE {f.bb}
<1>1. CASE f.kind = "seq"
  <2>1. Waits(f) = {} /\ Pending(f) = {} /\ ~Awaits(f)
    BY <1>1 DEF Waits, Pending, Awaits
  <2>2. Behind(f) = {}
    BY <2>1 DEF Behind
  <2>3. QED
    BY <1>1, <2>1, <2>2
<1>2. CASE f.kind = "if"
  <2>1. Waits(f) = IF f.phase = "else" /\ f.hasElse THEN {f.bb, f.thenEnd} ELSE {f.bb}
    BY <1>2 DEF Waits
  <2>2. Pending(f) = IF f.phase # "cond" /\ f.cond # "none" THEN {f.bb} ELSE {}
    BY <1>2 DEF Pending
  <2>3. (Awaits(f) <=> f.phase = "cond") /\ Asked(f) = f.bb
    BY <1>2 DEF Awaits, Asked
  <2>4. Behind(f) = IF f.phase = "cond" THEN {} ELSE Waits(f)
    <3>1. CASE f.phase = "cond"
      <4>1. Behind(f) = {f.bb} \ {f.bb}
        BY <2>1, <2>3, <3>1 DEF Behind
      <4>2. QED
        BY <3>1, <4>1
    <3>2. CASE f.phase # "cond"
      BY <2>3, <3>2 DEF Behind
    <3>3. QED
      BY <3>1, <3>2
  <2>5. QED
    BY <1>2, <2>1, <2>2, <2>3, <2>4
<1>3. CASE f.kind = "while"
  <2>1. Waits(f) = {f.check}
    BY <1>3 DEF Waits
  <2>2. Pending(f) = IF f.phase = "body" /\ (f.const \/ f.cond # "none") THEN {f.check} ELSE {}
    BY <1>3 DEF Pending
  <2>3. (Awaits(f) <=> f.phase = "cond") /\ Asked(f) = f.check
    BY <1>3 DEF Awaits, Asked
  <2>4. Behind(f) = IF f.phase = "cond" THEN {} ELSE {f.check}
    <3>1. CASE f.phase = "cond"
      <4>1. Behind(f) = {f.check} \ {f.check}
        BY <2>1, <2>3, <3>1 DEF Behind
      <4>2. QED
        BY <3>1, <4>1
    <3>2. CASE f.phase # "cond"
      BY <2>1, <2>3, <3>2 DEF Behind
    <3>3. QED
      BY <3>1, <3>2
  <2>5. QED
    BY <1>3, <2>1, <2>2, <2>3, <2>4
<1>4. CASE f.kind = "cond"
  <2>1. Waits(f) = IF f.phase = "rhs" THEN {f.bb, f.lhs, f.rhs} ELSE {f.bb, f.lhs}
    BY <1>4 DEF Waits
  <2>2. Pending(f) = IF f.phase = "rhs" /\ f.cond # "none" THEN {f.bb, f.lhs} ELSE {f.bb}
    BY <1>4 DEF Pending
  <2>3. Awaits(f)
    BY <1>4 DEF Awaits
  <2>4. Asked(f) = IF f.phase = "rhs" THEN f.rhs ELSE f.lhs
    <3>1. f.phase \in {"lhs", "rhs"}
      BY <1>4, FrameFields
    <3>2. QED
      BY <1>4, <3>1 DEF Asked
  <2>5. Behind(f) = IF f.phase = "rhs" THEN {f.bb, f.lhs, f.rhs} \ {f.rhs}
                                       ELSE {f.bb, f.lhs} \ {f.lhs}
    <3>1. CASE f.phase = "rhs"
      BY <2>1, <2>3, <2>4, <3>1 DEF Behind
    <3>2. CASE f.phase # "rhs"
      BY <2>1, <2>3, <2>4, <3>2 DEF Behind
    <3>3. QED
      BY <3>1, <3>2
  <2>6. QED
    BY <1>4, <2>1, <2>2, <2>3, <2>5
<1>5. QED
  BY <1>1, <1>2, <1>3, <1>4, FrameFields

(* The blocks a frame waits for are numbers.                               *)
LEMMA WaitsInt ==
  ASSUME NEW f \in FrameSet, NEW b \in Waits(f)
  PROVE  b \in Int
<1>1. CASE f.kind = "seq"
  BY <1>1, FrameBlocks
<1>2. CASE f.kind = "if"
  BY <1>2, FrameBlocks, FrameFields
<1>3. CASE f.kind = "while"
  BY <1>3, FrameBlocks, FrameFields
<1>4. CASE f.kind = "cond"
  BY <1>4, FrameBlocks, FrameFields
<1>5. QED
  BY <1>1, <1>2, <1>3, <1>4, FrameFields

(* The blocks a frame speaks of are those it waits for.                    *)
LEMMA FrameStays ==
  ASSUME NEW f \in FrameSet, NEW bs, NEW bs2, NEW S, FrameOK(f, bs), FrameShape(f, bs),
         Changes(bs, bs2, S), \A b \in Behind(f) : b \notin S
  PROVE  FrameShape(f, bs2)
<1>1. \A b \in 1 .. Len(bs) : bs2[b].role = bs[b].role
  BY DEF Changes, KeepsRoles
<1>2. \A b \in 1 .. Len(bs) : b \notin S => /\ Closed(bs2, b) <=> Closed(bs, b)
                                            /\ Leaves(bs2, b) <=> Leaves(bs, b)
  BY DEF Changes, Leaves
<1>3. CASE f.kind = "if"
  <2>1. /\ f.phase # "cond" => /\ f.then \in 1 .. Len(bs) /\ f.bb \in 1 .. Len(bs)
                               /\ f.bb \in Behind(f)
        /\ f.phase = "else" => f.thenEnd \in 1 .. Len(bs) /\ f.else \in 1 .. Len(bs)
        /\ f.phase = "else" /\ f.hasElse => f.thenEnd \in Behind(f)
    BY <1>3, FrameBlocks DEF FrameOK
  <2>2. \A b \in Pending(f) : b \in 1 .. Len(bs) /\ b \notin S
    BY <1>3, <2>1, FrameBlocks
  <2>3. QED
    BY <1>1, <1>2, <1>3, <2>1, <2>2 DEF FrameShape
<1>4. CASE f.kind = "while"
  <2>1. /\ f.check \in 1 .. Len(bs)
        /\ f.phase = "body" => f.body \in 1 .. Len(bs) /\ f.check \in Behind(f)
    BY <1>4, FrameBlocks, FrameFields DEF FrameOK
  <2>2. \A b \in Pending(f) : b \in 1 .. Len(bs) /\ b \notin S
    BY <1>4, <2>1, FrameBlocks
  <2>3. QED
    BY <1>1, <1>2, <1>4, <2>1, <2>2 DEF FrameShape
<1>5. CASE f.kind = "cond"
  <2>1. /\ f.bb \in 1 .. Len(bs) /\ f.lhs \in 1 .. Len(bs)
        /\ f.phase = "rhs" => f.rhs \in 1 .. Len(bs) /\ f.lhs < f.rhs
        /\ f.bb < f.lhs /\ f.phase \in {"lhs", "rhs"}
    BY <1>5, FrameFields DEF FrameOK, FrameShape
  <2>2. f.bb \in Behind(f) /\ (f.phase = "rhs" => f.lhs \in Behind(f))
    BY <1>5, <2>1, FrameBlocks
  <2>3. \A b \in Pending(f) : b \in 1 .. Len(bs) /\ b \notin S
    BY <1>5, <2>1, <2>2, FrameBlocks
  <2>4. QED
    BY <1>1, <1>2, <1>5, <2>1, <2>3 DEF FrameShape
<1>6. CASE f.kind = "seq"
  <2>1. Pending(f) = {}
    BY <1>6, FrameBlocks
  <2>2. QED
    BY <1>6, <2>1 DEF FrameShape
<1>7. QED
  BY <1>3, <1>4, <1>5, <1>6, FrameFields

(* The shape survives a step that changes no block a frame waits for.      *)
LEMMA ShapeStays ==
  ASSUME NEW fr, NEW bs, NEW bs2, NEW S, NEW n, FramesOK(bs, fr), bs \in Seq(BlockSet),
         FramesShape(fr, bs, n), Changes(bs, bs2, S),
         \A k \in 1 .. Len(fr) : \A b \in Behind(fr[k]) : b \notin S
  PROVE  FramesShape(fr, bs2, n)
<1>1. /\ fr \in Seq(FrameSet) /\ Len(bs) \in Nat /\ Len(bs2) \in Nat /\ Len(bs) <= Len(bs2)
  BY DEF FramesOK, Changes, KeepsRoles
<1>2. ASSUME NEW k \in 1 .. Len(fr)
      PROVE  FrameShape(fr[k], bs2)
  <2>1. fr[k] \in FrameSet /\ FrameOK(fr[k], bs) /\ FrameShape(fr[k], bs)
    BY <1>1 DEF FramesOK, FramesShape
  <2>2. QED
    BY <2>1, FrameStays
<1>3. ASSUME NEW k \in 1 .. Len(fr), NEW b \in Behind(fr[k])
      PROVE  b < Len(bs2)
  <2>1. b < Len(bs) /\ b \in Int
    <3>1. fr[k] \in FrameSet
      BY <1>1
    <3>2. b \in Waits(fr[k])
      BY DEF Behind
    <3>3. b \in Int
      BY <3>1, <3>2, WaitsInt
    <3>4. QED
      BY <3>3 DEF FramesShape
  <2>2. QED
    BY <1>1, <2>1
<1>4. QED
  BY <1>2, <1>3 DEF FramesShape

(* Jumps put on the lists of the construct that asked for a value.         *)
LEMMA OpenAdd ==
  ASSUME NEW fr, NEW st, Stacked(fr, st, ListKinds), fr # <<>>, Last(fr).kind \in ListKinds,
         NEW l \in Seq(Nat)
  PROVE  /\ Stacked(fr, AddTop(st, l), ListKinds)
         /\ TrueOpen(fr, AddTop(st, l)) = TrueOpen(fr, st) \cup Pairs(WantOf(Last(fr)).t, l)
         /\ FalseOpen(fr, AddTop(st, l)) = FalseOpen(fr, st) \cup Pairs(WantOf(Last(fr)).f, l)
         /\ AllSettled(fr, st) /\ Awaits(Last(fr)) => AllSettled(fr, AddTop(st, l))
<1> DEFINE F == Front(fr)
           f == Last(fr)
           S == Front(st)
           m == Last(st)
           k == m \o l
<1>1. /\ st # <<>> /\ m \in Seq(Nat) /\ Stacked(F, S, ListKinds)
      /\ TrueOpen(fr, st) = TrueOpen(F, S) \cup TrueOf(f, m)
      /\ FalseOpen(fr, st) = FalseOpen(F, S) \cup FalseOf(f, m)
      /\ AllSettled(fr, st) <=> AllSettled(F, S) /\ Settled(f, m)
  BY OpenTop
<1>2. f \in FrameSet /\ F \in Seq(FrameSet) /\ f.kind \in ListKinds /\ fr = Append(F, f)
  BY AppendFront, RowsTop DEF Stacked
<1>3. st \in Seq(Seq(Nat)) /\ Len(st) \in Nat
  BY DEF Stacked
<1>4. AddTop(st, l) = Append(S, k)
  <2>1. /\ S \in Seq(Seq(Nat)) /\ Len(S) = Len(st) - 1
        /\ \A i \in 1 .. Len(st) - 1 : S[i] = st[i]
        /\ m = st[Len(st)] /\ Len(st) > 0 /\ k \in Seq(Nat)
    BY <1>1, <1>3, FrontIsSeq, LastIsElement
  <2> HIDE DEF S, m, k
  <2> DEFINE a == AddTop(st, l)
             b == Append(S, k)
  <2>2. /\ a \in Seq(Seq(Nat)) /\ Len(a) = Len(st) /\ a[Len(st)] = k
        /\ \A i \in 1 .. Len(st) - 1 : a[i] = st[i]
    <3>1. a = [st EXCEPT ![Len(st)] = k]
      BY <2>1 DEF AddTop, k, m
    <3> HIDE DEF a
    <3>2. QED
      BY <1>3, <2>1, <3>1
  <2>3. /\ b \in Seq(Seq(Nat)) /\ Len(b) = Len(st) /\ b[Len(st)] = k
        /\ \A i \in 1 .. Len(st) - 1 : b[i] = st[i]
    BY <1>3, <2>1
  <2> HIDE DEF a, b
  <2>4. ASSUME NEW i \in 1 .. Len(st) PROVE a[i] = b[i]
    <3>1. CASE i = Len(st)
      BY <2>2, <2>3, <3>1
    <3>2. CASE i # Len(st)
      <4>1. i \in 1 .. Len(st) - 1
        BY <1>3, <3>2
      <4>2. QED
        BY <2>2, <2>3, <4>1
    <3>3. QED
      BY <3>1, <3>2
  <2>5. a = b
    <3>1. /\ a = [i \in DOMAIN a |-> a[i]] /\ DOMAIN a = 1 .. Len(st)
          /\ b = [i \in DOMAIN b |-> b[i]] /\ DOMAIN b = 1 .. Len(st)
      BY <1>3, <2>2, <2>3
    <3>2. QED
      BY <2>4, <3>1, Zenon
  <2>6. QED
    BY <2>5 DEF a, b
<1>5. k \in Seq(Nat)
  BY <1>1
<1>6. \A r : Pairs(r, k) = Pairs(r, m) \cup Pairs(r, l)
  BY <1>1, PairsConcat
<1> HIDE DEF F, f, S, m, k
<1>7. /\ Stacked(Append(F, f), Append(S, k), ListKinds)
      /\ TrueOpen(Append(F, f), Append(S, k)) = TrueOpen(F, S) \cup TrueOf(f, k)
      /\ FalseOpen(Append(F, f), Append(S, k)) = FalseOpen(F, S) \cup FalseOf(f, k)
      /\ AllSettled(Append(F, f), Append(S, k)) <=> AllSettled(F, S) /\ Settled(f, k)
  BY <1>1, <1>2, <1>5, OpenPush
<1>8. /\ TrueOf(f, k) = TrueOf(f, m) \cup Pairs(WantOf(f).t, l)
      /\ FalseOf(f, k) = FalseOf(f, m) \cup Pairs(WantOf(f).f, l)
  BY <1>6 DEF TrueOf, FalseOf
<1>9. Awaits(f) /\ Settled(f, m) => Settled(f, k)
  BY DEF Settled, Awaits
<1>10. QED
  BY <1>1, <1>2, <1>4, <1>7, <1>8, <1>9 DEF f

(* The roles a frame's jumps wait for belong to it or to a caller.         *)
LEMMA WantRoles ==
  ASSUME NEW f \in FrameSet, NEW bs, f.kind # "seq", FrameShape(f, bs)
  PROVE  /\ f.node \in Nat /\ f.node > 0
         /\ WantOf(f) \in WantSet /\ WantOf(f).t[1] <= f.node /\ WantOf(f).f[1] <= f.node
         /\ f.kind = "cond" =>
              /\ LhsWant(f) \in WantSet
              /\ LhsWant(f).t[1] <= f.node /\ LhsWant(f).f[1] <= f.node
<1>1. f.node \in Nat /\ f.node > 0
  BY FrameFields DEF FrameShape
<1>2. \A p \in Parts : Role(f.node, p) \in RoleSet /\ Role(f.node, p)[1] = f.node
  BY <1>1 DEF Role, RoleSet
<1>3. {"then", "else", "end", "check", "body", "lhs", "rhs"} \subseteq Parts
  BY DEF Parts
<1>4. CASE f.kind = "if"
  <2>1. WantOf(f) = [t |-> Role(f.node, "then"),
                     f |-> Role(f.node, IF f.hasElse THEN "else" ELSE "end")]
    BY <1>4 DEF WantOf
  <2>2. QED
    BY <1>1, <1>2, <1>3, <1>4, <2>1 DEF WantSet
<1>5. CASE f.kind = "while"
  <2>1. WantOf(f) = [t |-> Role(f.node, "body"), f |-> Role(f.node, "end")]
    BY <1>5 DEF WantOf
  <2>2. QED
    BY <1>1, <1>2, <1>3, <1>5, <2>1 DEF WantSet
<1>6. CASE f.kind = "cond"
  <2>1. /\ f.want \in WantSet /\ f.want.t[1] < f.node /\ f.want.f[1] < f.node
        /\ f.want.t[1] \in Nat /\ f.want.f[1] \in Nat
        /\ f.want.t \in RoleSet /\ f.want.f \in RoleSet
    BY <1>6, FrameFields DEF FrameShape, WantSet, RoleSet
  <2>2. /\ LhsWant(f) \in WantSet
        /\ LhsWant(f).t[1] <= f.node /\ LhsWant(f).f[1] <= f.node
    <3>1. CASE f.op = "and"
      BY <1>1, <1>2, <1>3, <2>1, <3>1 DEF LhsWant, WantSet
    <3>2. CASE f.op # "and"
      BY <1>1, <1>2, <1>3, <2>1, <3>2 DEF LhsWant, WantSet
    <3>3. QED
      BY <3>1, <3>2
  <2>3. WantOf(f) = LhsWant(f) \/ WantOf(f) = f.want
    BY <1>6 DEF WantOf
  <2>4. QED
    BY <1>1, <1>6, <2>1, <2>2, <2>3
<1>7. QED
  BY <1>4, <1>5, <1>6, FrameFields

(* The roles the frames below ask for are of nodes older than a new        *)
(* frame's, so none of its own jumps is taken for one of theirs.           *)
LEMMA RolesBelow ==
  ASSUME NEW fr \in Seq(FrameSet), NEW f \in FrameSet, NEW bs, NEW n, NEW st,
         FramesShape(fr, bs, n), TopShape(fr, f, bs, n), f.kind # "seq"
  PROVE  /\ \A p \in TrueOpen(fr, st) : p[1][1] < f.node
         /\ \A p \in FalseOpen(fr, st) : p[1][1] < f.node
         /\ \A q : \A p \in LoopOf(fr, st, q) : p[1][1] < f.node
<1>1. ASSUME NEW k \in 1 .. Len(fr), fr[k].kind # "seq"
      PROVE  /\ fr[k] \in FrameSet /\ FrameShape(fr[k], bs)
             /\ fr[k].node \in Nat /\ f.node \in Nat /\ fr[k].node < f.node
  BY <1>1, FrameFields DEF FramesShape, TopShape
<1>2. ASSUME NEW p \in TrueOpen(fr, st) PROVE p[1][1] < f.node
  <2>1. PICK r \in Rows(fr, st, ListKinds) : p \in TrueOf(r[1], r[2])
    BY DEF TrueOpen
  <2>2. PICK k \in 1 .. Len(fr) : fr[k].kind \in ListKinds /\ r = <<fr[k], st[Level(fr, k, ListKinds)]>>
    BY DEF Rows
  <2> DEFINE g == fr[k]
  <2>3. g.kind # "seq" /\ r[1] = g
    BY <2>2 DEF ListKinds
  <2>4. p[1] = WantOf(g).t \/ (g.kind = "cond" /\ p[1] = LhsWant(g).t)
    BY <2>1, <2>3 DEF TrueOf, Pairs
  <2>5. g \in FrameSet /\ FrameShape(g, bs) /\ g.node \in Nat /\ f.node \in Nat /\ g.node < f.node
    BY <1>1, <2>3
  <2> HIDE DEF g
  <2>6. p[1][1] <= g.node /\ p[1][1] \in Nat
    BY <2>3, <2>4, <2>5, WantRoles DEF WantSet, RoleSet
  <2>7. QED
    BY <2>5, <2>6
<1>3. ASSUME NEW p \in FalseOpen(fr, st) PROVE p[1][1] < f.node
  <2>1. PICK r \in Rows(fr, st, ListKinds) : p \in FalseOf(r[1], r[2])
    BY DEF FalseOpen
  <2>2. PICK k \in 1 .. Len(fr) : fr[k].kind \in ListKinds /\ r = <<fr[k], st[Level(fr, k, ListKinds)]>>
    BY DEF Rows
  <2> DEFINE g == fr[k]
  <2>3. g.kind # "seq" /\ r[1] = g
    BY <2>2 DEF ListKinds
  <2>4. p[1] = WantOf(g).f \/ (g.kind = "cond" /\ p[1] = LhsWant(g).f)
    BY <2>1, <2>3 DEF FalseOf, Pairs
  <2>5. g \in FrameSet /\ FrameShape(g, bs) /\ g.node \in Nat /\ f.node \in Nat /\ g.node < f.node
    BY <1>1, <2>3
  <2> HIDE DEF g
  <2>6. p[1][1] <= g.node /\ p[1][1] \in Nat
    BY <2>3, <2>4, <2>5, WantRoles DEF WantSet, RoleSet
  <2>7. QED
    BY <2>5, <2>6
<1>4. ASSUME NEW q, NEW p \in LoopOf(fr, st, q) PROVE p[1][1] < f.node
  <2>1. PICK r \in Rows(fr, st, LoopKinds) : p \in Pairs(Role(r[1].node, q), r[2])
    BY DEF LoopOf
  <2>2. PICK k \in 1 .. Len(fr) : fr[k].kind \in LoopKinds /\ r = <<fr[k], st[Level(fr, k, LoopKinds)]>>
    BY DEF Rows
  <2>3. fr[k].kind # "seq" /\ r[1] = fr[k]
    BY <2>2 DEF LoopKinds
  <2>4. p[1] = Role(fr[k].node, q)
    BY <2>1, <2>3 DEF Pairs
  <2>5. p[1][1] = fr[k].node
    BY <2>4 DEF Role
  <2>6. QED
    BY <1>1, <2>3, <2>5
<1>5. QED
  BY <1>2, <1>3, <1>4

-----------------------------------------------------------------------------
(* The invariant, and what a step must leave for it to hold again.         *)

KInv == ~DeadCode /\ NInv /\ Kept

OpenT == TrueOpen(frames, true_stack)
OpenF == FalseOpen(frames, false_stack)
OpenL == LoopOpen(frames, break_stack, continue_stack)

(* No frame of fr counts on a block of S staying as it is.                 *)
Clear(fr, S) == \A k \in 1 .. Len(fr) : \A b \in Behind(fr[k]) : b \notin S

(* What the invariant says, in the form the lemmas below cite.             *)
LEMMA KeptFacts ==
  ASSUME KInv
  PROVE  /\ blocks \in Seq(BlockSet) /\ Len(blocks) \in Nat \ {0} /\ cur = Len(blocks)
         /\ cur \in 1 .. Len(blocks) /\ New = Len(blocks) + 1
         /\ tmp_id \in Nat /\ nodes \in Nat /\ val \in {"none", "i1", "i32"}
         /\ frames \in Seq(FrameSet) /\ Len(frames) \in Nat /\ FramesOK(blocks, frames)
         /\ Stacked(frames, true_stack, ListKinds) /\ Stacked(frames, false_stack, ListKinds)
         /\ Stacked(frames, break_stack, LoopKinds)
         /\ Stacked(frames, continue_stack, LoopKinds)
         /\ Graph(blocks, tmp_id, OpenT, OpenF, OpenL)
         /\ FramesShape(frames, blocks, nodes)
         /\ AllSettled(frames, true_stack) /\ AllSettled(frames, false_stack)
         /\ TInv /\ IInv /\ TypeOK /\ NInv /\ CurOpen
         /\ HasValue => Last(true_stack) = <<>> /\ Last(false_stack) = <<>>
<1>1. TInv /\ IInv /\ NInv /\ Kept
  BY DEF KInv, NInv, TInv
<1>2. /\ blocks \in Seq(BlockSet) /\ Len(blocks) \in Nat \ {0} /\ cur = Len(blocks)
      /\ cur \in 1 .. Len(blocks) /\ New = Len(blocks) + 1
      /\ tmp_id \in Nat /\ nodes \in Nat /\ val \in {"none", "i1", "i32"}
      /\ frames \in Seq(FrameSet) /\ TypeOK
  BY <1>1, Basics
<1>3. Mirrors(blocks, frames, break_stack, continue_stack, true_stack, false_stack)
  BY <1>1 DEF IInv
<1>4. /\ FramesOK(blocks, frames)
      /\ Stacked(frames, true_stack, ListKinds) /\ Stacked(frames, false_stack, ListKinds)
      /\ Stacked(frames, break_stack, LoopKinds)
      /\ Stacked(frames, continue_stack, LoopKinds)
  BY <1>3, <1>2 DEF Mirrors, StackOK, Stacked
<1>5. Len(frames) \in Nat
  BY <1>2
<1>6. QED
  BY <1>1, <1>2, <1>4, <1>5 DEF Kept, OpenT, OpenF, OpenL

(* The blocks the frames wait for are behind the current one.              *)
LEMMA BehindCur ==
  ASSUME KInv, NEW k \in 1 .. Len(frames), NEW b \in Behind(frames[k])
  PROVE  b \in Int /\ b < cur
<1>1. frames[k] \in FrameSet /\ b < Len(blocks) /\ cur = Len(blocks)
  BY KeptFacts DEF FramesShape
<1>2. b \in Waits(frames[k])
  BY DEF Behind
<1>3. QED
  BY <1>1, <1>2, WaitsInt

(* The top frame apart from those below it.                                *)
LEMMA TopFacts ==
  ASSUME KInv, frames # <<>>
  PROVE  /\ Front(frames) \in Seq(FrameSet) /\ Top \in FrameSet
         /\ frames = Append(Front(frames), Top)
         /\ FramesShape(Front(frames), blocks, nodes)
         /\ TopShape(Front(frames), Top, blocks, nodes)
         /\ FrameOK(Top, blocks) /\ FrameShape(Top, blocks)
         /\ FramesOK(blocks, Front(frames))
         /\ \A k \in 1 .. Len(Front(frames)) : \A b \in Behind(Front(frames)[k]) :
              /\ b \in Int /\ b < cur
              /\ \A c \in Waits(Top) : b < c
<1>1. /\ frames \in Seq(FrameSet) /\ FramesShape(frames, blocks, nodes)
      /\ blocks \in Seq(BlockSet) /\ FramesOK(blocks, frames) /\ cur = Len(blocks)
  BY KeptFacts
<1>2. /\ FramesShape(Front(frames), blocks, nodes)
      /\ TopShape(Front(frames), Top, blocks, nodes)
      /\ Front(frames) \in Seq(FrameSet) /\ Top \in FrameSet
  BY <1>1, ShapePop DEF Top
<1>3. frames = Append(Front(frames), Top)
  BY <1>1, AppendFront DEF Top
<1>4. FrameOK(Top, blocks) /\ FramesOK(blocks, Front(frames))
  BY <1>1, FramesOKPop DEF Top
<1>5. FrameShape(Top, blocks)
  BY <1>2 DEF TopShape
<1>6. ASSUME NEW k \in 1 .. Len(Front(frames)), NEW b \in Behind(Front(frames)[k])
      PROVE  /\ b \in Int /\ b < cur
             /\ \A c \in Waits(Top) : b < c
  <2>1. b < cur
    BY <1>1, <1>2, <1>6 DEF FramesShape
  <2>2. \A c \in Waits(Top) : b < c
    BY <1>2, <1>6 DEF TopShape
  <2>3. Front(frames)[k] \in FrameSet /\ b \in Waits(Front(frames)[k])
    BY <1>2, <1>6 DEF Behind
  <2>4. QED
    BY <2>1, <2>2, <2>3, WaitsInt
<1>7. QED
  BY <1>2, <1>3, <1>4, <1>5, <1>6

(* A step that changes only the current block and later ones changes       *)
(* nothing a frame waits for.                                              *)
LEMMA ClearCur ==
  ASSUME KInv, NEW S, \A x \in S : x \in Int /\ cur <= x
  PROVE  Clear(frames, S)
<1>1. cur \in Int
  BY KeptFacts
<1>2. QED
  BY <1>1, BehindCur DEF Clear

(* A step that ends the top frame may also change the blocks from its own  *)
(* on.                                                                     *)
LEMMA ClearTop ==
  ASSUME KInv, frames # <<>>, NEW S,
         \A x \in S : x \in Int /\ (cur <= x \/ \E c \in Waits(Top) : c <= x)
  PROVE  Clear(Front(frames), S)
<1>1. cur \in Int /\ \A c \in Waits(Top) : c \in Int
  BY KeptFacts, TopFacts, WaitsInt
<1>2. ASSUME NEW k \in 1 .. Len(Front(frames)), NEW b \in Behind(Front(frames)[k]), b \in S
      PROVE  FALSE
  <2>1. b \in Int /\ b < cur /\ \A c \in Waits(Top) : b < c
    BY <1>2, TopFacts
  <2>2. cur <= b \/ \E c \in Waits(Top) : c <= b
    BY <1>2
  <2>3. QED
    BY <1>1, <2>1, <2>2
<1>3. QED
  BY <1>2 DEF Clear

(* A resolved branch is the last instruction of its block, and stays.      *)
LEMMA StayResolved ==
  ASSUME KInv, NEW S, Changes(blocks, blocks', S)
  PROVE  ResolvedStay
<1>1. /\ blocks \in Seq(BlockSet) /\ OneTerminator(blocks)
  BY KeptFacts DEF Graph
<1>2. DOMAIN blocks = 1 .. Len(blocks)
  BY <1>1
<1>3. \A l, r : HasRole(l, r) <=> HasRoleIn(blocks, l, r)
  BY <1>2 DEF HasRole, HasRoleIn
<1>4. blocks' \in Seq(BlockSet) /\ \A b \in 1 .. Len(blocks) : b \in 1 .. Len(blocks')
  BY <1>1 DEF Changes, KeepsRoles
<1>5. ASSUME NEW b \in 1 .. Len(blocks), NEW i \in DOMAIN blocks[b].insts,
             IsBr(blocks[b].insts[i])
      PROVE  /\ i \in DOMAIN blocks'[b].insts
             /\ HasRoleIn(blocks, blocks[b].insts[i].t, blocks[b].insts[i].want.t) =>
                  blocks'[b].insts[i].t = blocks[b].insts[i].t
             /\ HasRoleIn(blocks, blocks[b].insts[i].f, blocks[b].insts[i].want.f) =>
                  blocks'[b].insts[i].f = blocks[b].insts[i].f
  <2>1. blocks[b].insts \in Seq(InstSet) /\ Len(blocks[b].insts) \in Nat
    BY <1>1, BackType
  <2>2. i \in 1 .. Len(blocks[b].insts) /\ blocks[b].insts # <<>>
    BY <1>5, <2>1
  <2>3. i = Len(blocks[b].insts)
    <3>1. IsTerminateInst(blocks[b].insts[i])
      BY <1>5 DEF IsBr, IsTerminateInst
    <3>2. i \notin 1 .. Len(blocks[b].insts) - 1
      BY <1>1, <1>5, <3>1 DEF OneTerminator
    <3>3. QED
      BY <2>1, <2>2, <3>2
  <2>4. Back(blocks, b) = blocks[b].insts[i]
    BY <1>1, <2>2, <2>3, BackType
  <2>5. Closed(blocks, b) /\ IsBr(Back(blocks, b))
    BY <1>5, <2>2, <2>4 DEF Closed, Back, IsBr, IsTerminateInst
  <2>6. SameJump(blocks, blocks', b)
    BY <2>5 DEF Changes
  <2>7. /\ blocks'[b].insts \in Seq(InstSet) /\ blocks'[b].insts # <<>>
        /\ Len(blocks'[b].insts) = i
        /\ Back(blocks', b) = blocks'[b].insts[i]
    <3>1. blocks'[b].insts # <<>> /\ Len(blocks'[b].insts) = i
      BY <2>3, <2>6 DEF SameJump, Closed
    <3>2. QED
      BY <1>4, <3>1, BackType
  <2>8. i \in DOMAIN blocks'[b].insts
    BY <2>2, <2>7
  <2>9. QED
    BY <2>4, <2>6, <2>7, <2>8 DEF SameJump
<1>6. QED
  BY <1>2, <1>3, <1>5 DEF ResolvedStay

(* The frames that stay below a step's own.                                *)
LEMMA BelowStay ==
  ASSUME KInv, NEW S, Changes(blocks, blocks', S), NEW fr, Clear(fr, S),
         fr \in {frames, Front(frames)}, fr = frames \/ frames # <<>>,
         nodes' \in Nat, nodes <= nodes'
  PROVE  FramesShape(fr, blocks', nodes') /\ fr \in Seq(FrameSet)
<1>1. /\ fr \in Seq(FrameSet) /\ FramesShape(fr, blocks, nodes) /\ FramesOK(blocks, fr)
      /\ nodes \in Nat /\ blocks \in Seq(BlockSet)
  BY KeptFacts, TopFacts
<1>2. FramesShape(fr, blocks', nodes)
  BY <1>1, ShapeStays DEF Clear
<1>3. QED
  BY <1>1, <1>2, ShapeLater

(* What a step must leave when it keeps the frames.                        *)
LEMMA SameFrames ==
  ASSUME KInv, NEW S, Changes(blocks, blocks', S), \A x \in S : x = cur,
         Graph(blocks', tmp_id', OpenT, OpenF, LoopOpen(frames, break_stack', continue_stack')),
         frames' = frames, true_stack' = true_stack, false_stack' = false_stack,
         nodes' \in Nat, nodes <= nodes', HasValue' => HasValue, CurOpen'
  PROVE  Kept' /\ ResolvedStay
<1>1. Clear(frames, S)
  <2>1. cur \in Int /\ cur <= cur
    BY KeptFacts
  <2>2. QED
    BY <2>1, ClearCur
<1>2. FramesShape(frames, blocks', nodes')
  BY <1>1, BelowStay
<1>3. /\ AllSettled(frames, true_stack) /\ AllSettled(frames, false_stack)
      /\ HasValue => Last(true_stack) = <<>> /\ Last(false_stack) = <<>>
  BY KeptFacts
<1>4. Kept'
  BY <1>2, <1>3 DEF Kept, OpenT, OpenF
<1>5. QED
  BY <1>4, StayResolved

(* The last element of a sequence just appended to.                        *)
LEMMA LastAppend ==
  ASSUME NEW S, NEW s \in Seq(S), NEW e \in S
  PROVE  Last(Append(s, e)) = e
<1>1. /\ Append(s, e) \in Seq(S) /\ Append(s, e)[Len(Append(s, e))] = e
      /\ Append(s, e) # <<>>
  OBVIOUS
<1> DEFINE t == Append(s, e)
<1> HIDE DEF t
<1>2. t \in Seq(S) /\ t # <<>> /\ t[Len(t)] = e
  BY <1>1 DEF t
<1>3. Last(t) = e
  BY <1>2, LastIsElement
<1>4. QED
  BY <1>3 DEF t

(* Empty lists for a construct that starts.                                *)
Fresh(f, l) ==
  /\ f \in FrameSet /\ l \in Seq(Nat) /\ l = <<>>
  /\ f.kind = "cond" => f.lhs_true = <<>> /\ f.lhs_false = <<>>

(* A new frame with empty lists opens no jump.                             *)
LEMMA OpenNew ==
  ASSUME NEW fr, NEW f, NEW l, Fresh(f, l)
  PROVE  /\ \A st : Stacked(fr, st, ListKinds) /\ f.kind \in ListKinds =>
              /\ TrueOpen(Append(fr, f), Append(st, l)) = TrueOpen(fr, st)
              /\ FalseOpen(Append(fr, f), Append(st, l)) = FalseOpen(fr, st)
              /\ AllSettled(fr, st) => AllSettled(Append(fr, f), Append(st, l))
              /\ Last(Append(st, l)) = <<>>
         /\ \A st : Stacked(fr, st, ListKinds) /\ f.kind \notin ListKinds =>
              /\ TrueOpen(Append(fr, f), st) = TrueOpen(fr, st)
              /\ FalseOpen(Append(fr, f), st) = FalseOpen(fr, st)
              /\ AllSettled(fr, st) => AllSettled(Append(fr, f), st)
         /\ \A st, p : Stacked(fr, st, LoopKinds) /\ f.kind = "while" =>
              LoopOf(Append(fr, f), Append(st, l), p) = LoopOf(fr, st, p)
         /\ \A st, p : Stacked(fr, st, LoopKinds) /\ f.kind # "while" =>
              LoopOf(Append(fr, f), st, p) = LoopOf(fr, st, p)
<1>1. f \in FrameSet /\ l \in Seq(Nat)
  BY DEF Fresh
<1>2. /\ TrueOf(f, l) = {} /\ FalseOf(f, l) = {} /\ Settled(f, l)
      /\ \A r : Pairs(r, l) = {}
  BY PairsSmall DEF TrueOf, FalseOf, Settled, Fresh
<1>3. ASSUME NEW st, Stacked(fr, st, ListKinds), f.kind \in ListKinds
      PROVE  /\ TrueOpen(Append(fr, f), Append(st, l)) = TrueOpen(fr, st)
             /\ FalseOpen(Append(fr, f), Append(st, l)) = FalseOpen(fr, st)
             /\ AllSettled(fr, st) => AllSettled(Append(fr, f), Append(st, l))
             /\ Last(Append(st, l)) = <<>>
  <2>1. Last(Append(st, l)) = l
    BY <1>1, <1>3, LastAppend DEF Stacked
  <2>2. /\ TrueOpen(Append(fr, f), Append(st, l)) = TrueOpen(fr, st) \cup TrueOf(f, l)
        /\ FalseOpen(Append(fr, f), Append(st, l)) = FalseOpen(fr, st) \cup FalseOf(f, l)
        /\ AllSettled(Append(fr, f), Append(st, l)) <=> AllSettled(fr, st) /\ Settled(f, l)
    BY <1>1, <1>3, OpenPush
  <2>3. QED
    BY <1>2, <2>1, <2>2 DEF Fresh
<1>4. ASSUME NEW st, Stacked(fr, st, ListKinds), f.kind \notin ListKinds
      PROVE  /\ TrueOpen(Append(fr, f), st) = TrueOpen(fr, st)
             /\ FalseOpen(Append(fr, f), st) = FalseOpen(fr, st)
             /\ AllSettled(fr, st) => AllSettled(Append(fr, f), st)
  BY <1>1, <1>4, OpenPush
<1>5. ASSUME NEW st, NEW p, Stacked(fr, st, LoopKinds), f.kind = "while"
      PROVE  LoopOf(Append(fr, f), Append(st, l), p) = LoopOf(fr, st, p)
  <2>1. LoopOf(Append(fr, f), Append(st, l), p) = LoopOf(fr, st, p) \cup Pairs(Role(f.node, p), l)
    BY <1>1, <1>5, LoopOfPush
  <2>2. QED
    BY <1>2, <2>1
<1>6. ASSUME NEW st, NEW p, Stacked(fr, st, LoopKinds), f.kind # "while"
      PROVE  LoopOf(Append(fr, f), st, p) = LoopOf(fr, st, p)
  BY <1>1, <1>6, LoopOfPush
<1>7. QED
  BY <1>3, <1>4, <1>5, <1>6

(* The lists a construct opens.                                            *)
OpensLists(f) ==
  /\ f.kind = "seq" => UNCHANGED <<true_stack, false_stack>> /\ ~HasValue'
  /\ f.kind # "seq" => true_stack' = Push(true_stack) /\ false_stack' = Push(false_stack)
  /\ f.kind # "while" => UNCHANGED <<break_stack, continue_stack>>
  /\ f.kind = "while" =>
       break_stack' = Push(break_stack) /\ continue_stack' = Push(continue_stack)

(* What a step must leave when it pushes a frame: an if, a loop, a         *)
(* condition or a compound statement.                                      *)
LEMMA CallFrames ==
  ASSUME KInv, NEW S, Changes(blocks, blocks', S), \A x \in S : x = cur,
         Graph(blocks', tmp_id', OpenT, OpenF, OpenL),
         NEW f \in FrameSet, frames' = Append(frames, f), nodes' = nodes + 1,
         f.kind # "seq" => f.node = nodes + 1,
         FrameShape(f, blocks'), \A b \in Behind(f) : b < Len(blocks'),
         \A c \in Waits(f) : cur <= c,
         f.kind = "cond" =>
           frames # <<>> /\ f.want = WantOf(Top) /\ f.lhs_true = <<>> /\ f.lhs_false = <<>>,
         OpensLists(f), CurOpen'
  PROVE  Kept' /\ ResolvedStay
<1>1. /\ frames \in Seq(FrameSet) /\ Len(frames) \in Nat /\ nodes \in Nat /\ cur \in Int
      /\ Stacked(frames, true_stack, ListKinds) /\ Stacked(frames, false_stack, ListKinds)
      /\ Stacked(frames, break_stack, LoopKinds)
      /\ Stacked(frames, continue_stack, LoopKinds)
      /\ FramesShape(frames, blocks, nodes)
      /\ AllSettled(frames, true_stack) /\ AllSettled(frames, false_stack)
  BY KeptFacts
<1>2. Clear(frames, S)
  BY <1>1, ClearCur
<1>3. FramesShape(frames, blocks', nodes')
  BY <1>1, <1>2, BelowStay
<1>4. TopShape(frames, f, blocks', nodes')
  <2>1. ASSUME NEW j \in 1 .. Len(frames), NEW b \in Behind(frames[j]), NEW c \in Waits(f)
        PROVE  b < c
    <3>1. b \in Int /\ b < cur /\ cur <= c /\ c \in Int
      BY <2>1, BehindCur, WaitsInt
    <3>2. QED
      BY <1>1, <3>1
  <2>2. ASSUME NEW j \in 1 .. Len(frames), frames[j].kind # "seq", f.kind # "seq"
        PROVE  frames[j].node < f.node
    <3>1. frames[j].node \in Nat /\ frames[j].node <= nodes
      BY <1>1, <2>2, FrameFields DEF FramesShape
    <3>2. QED
      BY <1>1, <2>2, <3>1
  <2>3. f.kind # "seq" => f.node <= nodes'
    BY <1>1
  <2>4. QED
    BY <2>1, <2>2, <2>3 DEF TopShape, Top
<1>5. FramesShape(frames', blocks', nodes')
  BY <1>1, <1>3, <1>4, ShapePush
<1> DEFINE e == <<>>
<1>6. Fresh(f, e) /\ f.kind \in {"seq", "if", "while", "cond"}
  BY FrameFields DEF Fresh
<1>7. /\ f.kind = "seq" => true_stack' = true_stack /\ false_stack' = false_stack
      /\ f.kind # "seq" =>
           true_stack' = Append(true_stack, e) /\ false_stack' = Append(false_stack, e)
      /\ f.kind = "while" =>
           break_stack' = Append(break_stack, e) /\ continue_stack' = Append(continue_stack, e)
      /\ f.kind # "while" => break_stack' = break_stack /\ continue_stack' = continue_stack
      /\ f.kind \in ListKinds <=> f.kind # "seq"
  BY <1>6 DEF OpensLists, Push, ListKinds
<1> HIDE DEF e
<1>8. /\ TrueOpen(frames', true_stack') = OpenT
      /\ FalseOpen(frames', false_stack') = OpenF
      /\ AllSettled(frames', true_stack') /\ AllSettled(frames', false_stack')
      /\ HasValue' => Last(true_stack') = <<>> /\ Last(false_stack') = <<>>
  <2>1. CASE f.kind = "seq"
    <3>1. /\ TrueOpen(Append(frames, f), true_stack) = TrueOpen(frames, true_stack)
          /\ AllSettled(Append(frames, f), true_stack)
      BY <1>1, <1>6, <1>7, <2>1, OpenNew
    <3>2. /\ FalseOpen(Append(frames, f), false_stack) = FalseOpen(frames, false_stack)
          /\ AllSettled(Append(frames, f), false_stack)
      BY <1>1, <1>6, <1>7, <2>1, OpenNew
    <3>3. QED
      BY <1>7, <2>1, <3>1, <3>2 DEF OpenT, OpenF, OpensLists
  <2>2. CASE f.kind # "seq"
    <3>1. /\ TrueOpen(Append(frames, f), Append(true_stack, e)) = TrueOpen(frames, true_stack)
          /\ AllSettled(Append(frames, f), Append(true_stack, e))
          /\ Last(Append(true_stack, e)) = <<>>
      BY <1>1, <1>6, <1>7, <2>2, OpenNew
    <3>2. /\ FalseOpen(Append(frames, f), Append(false_stack, e)) = FalseOpen(frames, false_stack)
          /\ AllSettled(Append(frames, f), Append(false_stack, e))
          /\ Last(Append(false_stack, e)) = <<>>
      BY <1>1, <1>6, <1>7, <2>2, OpenNew
    <3>3. QED
      BY <1>7, <2>2, <3>1, <3>2 DEF OpenT, OpenF
  <2>3. QED
    BY <2>1, <2>2
<1>9. LoopOpen(frames', break_stack', continue_stack') = OpenL
  <2>1. CASE f.kind = "while"
    <3>1. \A p :
            /\ LoopOf(Append(frames, f), Append(break_stack, e), p) = LoopOf(frames, break_stack, p)
            /\ LoopOf(Append(frames, f), Append(continue_stack, e), p)
                 = LoopOf(frames, continue_stack, p)
      BY <1>1, <1>6, <2>1, OpenNew
    <3>2. QED
      BY <1>7, <2>1, <3>1 DEF OpenL, LoopOpen
  <2>2. CASE f.kind # "while"
    <3>1. \A p :
            /\ LoopOf(Append(frames, f), break_stack, p) = LoopOf(frames, break_stack, p)
            /\ LoopOf(Append(frames, f), continue_stack, p) = LoopOf(frames, continue_stack, p)
      BY <1>1, <1>6, <2>2, OpenNew
    <3>2. QED
      BY <1>7, <2>2, <3>1 DEF OpenL, LoopOpen
  <2>3. QED
    BY <2>1, <2>2
<1>11. Kept'
  BY <1>5, <1>8, <1>9 DEF Kept
<1>12. QED
  BY <1>11, StayResolved

(* The top frame changes, and its list does not.                           *)
LEMMA LoopOfTopSame ==
  ASSUME NEW fr, fr # <<>>, NEW f \in FrameSet, f.kind = Last(fr).kind,
         f.kind # "seq", f.node = Last(fr).node
  PROVE  \A st : Stacked(fr, st, LoopKinds) =>
           \A q : LoopOf(Append(Front(fr), f), st, q) = LoopOf(fr, st, q)
<1> DEFINE F == Front(fr)
           g == Last(fr)
<1>1. SUFFICES ASSUME NEW st, Stacked(fr, st, LoopKinds), NEW q
               PROVE  LoopOf(Append(F, f), st, q) = LoopOf(fr, st, q)
  OBVIOUS
<1>2. /\ g.kind = "while" =>
           /\ st # <<>> /\ Last(st) \in Seq(Nat)
           /\ Stacked(F, Front(st), LoopKinds)
           /\ LoopOf(fr, st, q) = LoopOf(F, Front(st), q) \cup Pairs(Role(g.node, q), Last(st))
      /\ g.kind # "while" => Stacked(F, st, LoopKinds) /\ LoopOf(fr, st, q) = LoopOf(F, st, q)
  BY <1>1, LoopOfTop
<1>3. f.kind = g.kind /\ f.node = g.node /\ st \in Seq(Seq(Nat))
  BY <1>1 DEF Stacked
<1> DEFINE e == <<>>
<1>4. e \in Seq(Nat)
  OBVIOUS
<1> HIDE DEF F, g, e
<1>5. CASE g.kind = "while"
  <2>1. st = Append(Front(st), Last(st))
    BY <1>2, <1>3, <1>5, AppendFront
  <2>2. LoopOf(Append(F, f), Append(Front(st), Last(st)), q)
          = LoopOf(F, Front(st), q) \cup Pairs(Role(f.node, q), Last(st))
    BY <1>2, <1>3, <1>5, LoopOfPush
  <2>3. QED
    BY <1>2, <1>3, <1>5, <2>1, <2>2
<1>6. CASE g.kind # "while"
  <2>1. LoopOf(Append(F, f), st, q) = LoopOf(F, st, q)
    BY <1>2, <1>3, <1>4, <1>6, LoopOfPush
  <2>2. QED
    BY <1>2, <1>6, <2>1
<1>7. QED
  BY <1>5, <1>6

(* The top frame moves to its next phase.                                  *)
LEMMA PhaseFrames ==
  ASSUME KInv, frames # <<>>, NEW S, Changes(blocks, blocks', S), Clear(Front(frames), S),
         Graph(blocks', tmp_id', OpenT, OpenF, OpenL),
         NEW f \in FrameSet, frames' = SetTop(f), f.kind = Top.kind, f.kind # "seq",
         f.node = Top.node, nodes' = nodes, f.kind = "cond" => f.want = Top.want,
         FrameShape(f, blocks'), \A b \in Behind(f) : b < Len(blocks'),
         \A c \in Waits(f) : c \in Waits(Top) \/ cur <= c,
         NEW lt \in Seq(Nat), NEW lf \in Seq(Nat),
         true_stack' = Append(Front(true_stack), lt),
         false_stack' = Append(Front(false_stack), lf),
         TrueOf(f, lt) = TrueOf(Top, Last(true_stack)),
         FalseOf(f, lf) = FalseOf(Top, Last(false_stack)),
         Settled(f, lt), Settled(f, lf), HasValue' => lt = <<>> /\ lf = <<>>,
         UNCHANGED <<break_stack, continue_stack>>, CurOpen'
  PROVE  Kept' /\ ResolvedStay
<1> DEFINE F == Front(frames)
<1>1. /\ frames \in Seq(FrameSet) /\ nodes \in Nat /\ cur \in Int
      /\ Stacked(frames, true_stack, ListKinds) /\ Stacked(frames, false_stack, ListKinds)
      /\ Stacked(frames, break_stack, LoopKinds)
      /\ Stacked(frames, continue_stack, LoopKinds)
      /\ AllSettled(frames, true_stack) /\ AllSettled(frames, false_stack)
  BY KeptFacts
<1>2. /\ F \in Seq(FrameSet) /\ Top \in FrameSet /\ TopShape(F, Top, blocks, nodes)
  BY TopFacts
<1>3. FramesShape(F, blocks', nodes')
  <2>1. nodes' \in Nat /\ nodes <= nodes'
    BY <1>1
  <2>2. QED
    BY <2>1, BelowStay
<1>4. TopShape(F, f, blocks', nodes')
  <2>1. ASSUME NEW j \in 1 .. Len(F), NEW b \in Behind(F[j]), NEW c \in Waits(f)
        PROVE  b < c
    <3>1. /\ b \in Int /\ b < cur /\ c \in Int
          /\ \A d \in Waits(Top) : b < d
      BY <2>1, TopFacts, WaitsInt
    <3>2. c \in Waits(Top) \/ cur <= c
      BY <2>1
    <3>3. QED
      BY <1>1, <3>1, <3>2
  <2>2. QED
    BY <1>2, <2>1 DEF TopShape
<1>5. FramesShape(frames', blocks', nodes')
  BY <1>2, <1>3, <1>4, ShapePush DEF SetTop
<1>6. f.kind \in ListKinds /\ Top.kind \in ListKinds
  BY FrameFields DEF ListKinds
<1>7. /\ Stacked(F, Front(true_stack), ListKinds)
      /\ OpenT = TrueOpen(F, Front(true_stack)) \cup TrueOf(Top, Last(true_stack))
      /\ AllSettled(F, Front(true_stack))
      /\ Stacked(F, Front(false_stack), ListKinds)
      /\ OpenF = FalseOpen(F, Front(false_stack)) \cup FalseOf(Top, Last(false_stack))
      /\ AllSettled(F, Front(false_stack))
  BY <1>1, <1>6, OpenTop DEF OpenT, OpenF, Top
<1>8. /\ TrueOpen(frames', true_stack') = OpenT
      /\ FalseOpen(frames', false_stack') = OpenF
      /\ AllSettled(frames', true_stack') /\ AllSettled(frames', false_stack')
  BY <1>6, <1>7, OpenPush DEF SetTop
<1>9. \A q : /\ LoopOf(frames', break_stack, q) = LoopOf(frames, break_stack, q)
             /\ LoopOf(frames', continue_stack, q) = LoopOf(frames, continue_stack, q)
  <2>1. \A st : Stacked(frames, st, LoopKinds) =>
          \A q : LoopOf(Append(F, f), st, q) = LoopOf(frames, st, q)
    BY <1>1, LoopOfTopSame DEF Top
  <2>2. QED
    BY <1>1, <2>1 DEF SetTop
<1>10. LoopOpen(frames', break_stack', continue_stack') = OpenL
  BY <1>9 DEF OpenL, LoopOpen
<1>11. HasValue' => Last(true_stack') = <<>> /\ Last(false_stack') = <<>>
  <2>1. Last(true_stack') = lt /\ Last(false_stack') = lf
    BY <1>7, LastAppend DEF Stacked
  <2>2. QED
    BY <2>1
<1>12. Kept'
  BY <1>5, <1>8, <1>10, <1>11 DEF Kept
<1>13. QED
  BY <1>12, StayResolved

(* The top frame returns.                                                  *)
LEMMA ReturnFrames ==
  ASSUME KInv, frames # <<>>, NEW S, Changes(blocks, blocks', S), Clear(Front(frames), S),
         frames' = Front(frames), nodes' = nodes,
         Graph(blocks', tmp_id', TrueOpen(Front(frames), true_stack'),
               FalseOpen(Front(frames), false_stack'),
               LoopOpen(Front(frames), break_stack', continue_stack')),
         AllSettled(Front(frames), true_stack'), AllSettled(Front(frames), false_stack'),
         ~HasValue', CurOpen'
  PROVE  Kept' /\ ResolvedStay
<1>1. nodes' \in Nat /\ nodes <= nodes'
  BY KeptFacts
<1>2. FramesShape(frames', blocks', nodes')
  BY <1>1, BelowStay
<1>3. Kept'
  BY <1>2 DEF Kept
<1>4. QED
  BY <1>3, StayResolved

-----------------------------------------------------------------------------
(* The steps that keep the frames.                                         *)

LEMMA SameBlocksKept ==
  ASSUME KInv,
         NullStmt \/ NextStmt \/ (\E absent \in BOOLEAN : IfConst(absent))
           \/ WhileFalse \/ CondDecided \/ CondNeutral
  PROVE  Kept' /\ ResolvedStay
<1>1. /\ blocks' = blocks /\ tmp_id' = tmp_id /\ frames' = frames /\ cur' = cur
      /\ break_stack' = break_stack /\ continue_stack' = continue_stack
      /\ true_stack' = true_stack /\ false_stack' = false_stack
      /\ nodes' \in {nodes, nodes + 1}
      /\ HasValue' => HasValue
      /\ pc' \in {"stmt", "stmtret"} => pc \in {"stmt", "stmtret"}
  BY DEF NullStmt, NextStmt, IfConst, WhileFalse, CondDecided, CondNeutral, Node,
         stacks, Stmt, Expr, HasValue
<1>2. /\ blocks \in Seq(BlockSet) /\ nodes \in Nat /\ CurOpen
      /\ Graph(blocks, tmp_id, OpenT, OpenF, OpenL)
  BY KeptFacts
<1>3. nodes' \in Nat /\ nodes <= nodes'
  BY <1>1, <1>2
<1>4. CurOpen'
  BY <1>1, <1>2 DEF CurOpen
<1>5. Changes(blocks, blocks', {})
  BY <1>1, <1>2, ChangesReflexive
<1>6. Graph(blocks', tmp_id', OpenT, OpenF, LoopOpen(frames, break_stack', continue_stack'))
  BY <1>1, <1>2 DEF OpenL
<1>7. QED
  BY <1>1, <1>3, <1>4, <1>5, <1>6, SameFrames

(* Code without a jump at the end of the current block.                    *)
LEMMA CodeKept ==
  ASSUME KInv, ~Closed(blocks, cur), NEW is \in Seq(InstSet),
         \A i \in 1 .. Len(is) : ~IsTerminateInst(is[i]),
         blocks' = AddInsts(blocks, cur, is), tmp_id' \in Nat, tmp_id <= tmp_id',
         UNCHANGED <<stacks, cur, frames, nodes>>, HasValue' => HasValue
  PROVE  Kept' /\ ResolvedStay
<1>1. /\ cur \in 1 .. Len(blocks) /\ nodes \in Nat /\ tmp_id \in Nat
      /\ Graph(blocks, tmp_id, OpenT, OpenF, OpenL)
  BY KeptFacts
<1>2. Graph(blocks, tmp_id', OpenT, OpenF, OpenL)
  BY <1>1, GraphLater
<1>3. /\ Graph(blocks', tmp_id', OpenT, OpenF, OpenL) /\ Changes(blocks, blocks', {})
      /\ ~Closed(blocks', cur)
  BY <1>1, <1>2, GraphPlain
<1>4. CurOpen'
  BY <1>3 DEF CurOpen, Leaves
<1>5. /\ frames' = frames /\ nodes' = nodes /\ break_stack' = break_stack
      /\ continue_stack' = continue_stack
      /\ true_stack' = true_stack /\ false_stack' = false_stack
  BY DEF stacks
<1>6. nodes' \in Nat /\ nodes <= nodes'
  BY <1>1, <1>5
<1>7. Graph(blocks', tmp_id', OpenT, OpenF, LoopOpen(frames, break_stack', continue_stack'))
  BY <1>3, <1>5 DEF OpenL
<1>8. QED
  BY <1>3, <1>4, <1>5, <1>6, <1>7, SameFrames

(* Straight-line code holds no terminator.                                 *)
LEMMA StraightPlain ==
  ASSUME tmp_id \in Nat, NEW n \in Nat, NEW store \in BOOLEAN
  PROVE  \A i \in 1 .. Len(Straight(n, store)) : ~IsTerminateInst(Straight(n, store)[i])
<1> DEFINE vals == [k \in 1 .. n |-> ValInst(tmp_id + k - 1)]
           last == IF store THEN <<StoreInst>> ELSE <<>>
<1>1. /\ vals \in Seq(InstSet) /\ Len(vals) = n
      /\ \A k \in 1 .. n : vals[k] = ValInst(tmp_id + k - 1)
  BY InstType
<1>2. /\ last \in Seq(InstSet) /\ Len(last) \in Nat
      /\ \A k \in 1 .. Len(last) : last[k] = StoreInst
  BY InstType
<1>3. Straight(n, store) = vals \o last
  BY DEF Straight
<1>4. \A id : ~IsTerminateInst(ValInst(id)) /\ ~IsTerminateInst(StoreInst)
  BY DEF IsTerminateInst, ValInst, StoreInst, Inst
<1> HIDE DEF vals, last
<1>5. ASSUME NEW i \in 1 .. Len(vals \o last)
      PROVE  ~IsTerminateInst((vals \o last)[i])
  <2>1. Len(vals \o last) = n + Len(last)
    BY <1>1, <1>2
  <2>2. CASE i <= n
    <3>1. (vals \o last)[i] = vals[i] /\ i \in 1 .. n
      BY <1>1, <1>2, <2>1, <2>2
    <3>2. QED
      BY <1>1, <1>4, <3>1
  <2>3. CASE ~(i <= n)
    <3>1. (vals \o last)[i] = last[i - n] /\ i - n \in 1 .. Len(last)
      BY <1>1, <1>2, <2>1, <2>3
    <3>2. QED
      BY <1>2, <1>4, <3>1
  <2>4. QED
    BY <2>2, <2>3
<1>6. QED
  BY <1>3, <1>5

(* Declarations, assignments and calls.                                    *)
LEMMA StraightKept ==
  ASSUME KInv, NEW n \in Nat, NEW store \in BOOLEAN, EmitStraight(n, store)
  PROVE  Kept' /\ ResolvedStay
<1>1. /\ TypeOK /\ tmp_id \in Nat /\ ~DeadCode
  BY KeptFacts DEF KInv
<1>2. ~Closed(blocks, cur)
  BY <1>1 DEF EmitStraight, Emit
<1>3. Straight(n, store) \in Seq(InstSet)
  BY <1>1, StraightType
<1>4. \A i \in 1 .. Len(Straight(n, store)) : ~IsTerminateInst(Straight(n, store)[i])
  BY <1>1, StraightPlain
<1>5. /\ blocks' = AddInsts(blocks, cur, Straight(n, store))
      /\ tmp_id' \in Nat /\ tmp_id <= tmp_id' /\ ~HasValue'
      /\ UNCHANGED <<stacks, cur, frames, nodes>>
  BY <1>1 DEF EmitStraight, HasValue
<1>6. QED
  BY <1>2, <1>3, <1>4, <1>5, CodeKept

(* An operand that is not a condition.                                     *)
LEMMA PlainKept ==
  ASSUME KInv, NEW type \in {"i1", "i32"}, PlainExpr(type)
  PROVE  Kept' /\ ResolvedStay
<1>1. /\ tmp_id \in Nat /\ CurOpen
  BY KeptFacts
<1>2. HasValue
  BY DEF PlainExpr, Expr, HasValue
<1>3. ~Closed(blocks, cur)
  BY <1>1, <1>2 DEF CurOpen
<1> DEFINE is == <<ValInst(tmp_id)>>
<1>4. is \in Seq(InstSet) /\ \A i \in 1 .. Len(is) : ~IsTerminateInst(is[i])
  BY <1>1, InstType DEF IsTerminateInst, ValInst, Inst
<1>5. /\ blocks' = AddInsts(blocks, cur, is)
      /\ tmp_id' \in Nat /\ tmp_id <= tmp_id'
      /\ UNCHANGED <<stacks, cur, frames, nodes>>
  BY <1>1 DEF PlainExpr
<1> HIDE DEF is
<1>6. QED
  BY <1>2, <1>3, <1>4, <1>5, CodeKept

(* A jump at the end of the current block.                                 *)
LEMMA JumpStays ==
  ASSUME KInv, ~Closed(blocks, cur), NEW is \in Seq(InstSet),
         \A i \in 1 .. Len(is) : ~IsTerminateInst(is[i]),
         NEW j \in InstSet, j.op = "ret",
         Awaited(blocks, cur, j, OpenT, OpenF, OpenL, OpenT, OpenF,
                 LoopOpen(frames, break_stack', continue_stack')),
         blocks' = AddInsts(blocks, cur, Append(is, j)),
         tmp_id' \in Nat, tmp_id <= tmp_id',
         UNCHANGED <<true_stack, false_stack, cur, frames, nodes>>, ~HasValue'
  PROVE  Kept' /\ ResolvedStay
<1>1. /\ cur \in 1 .. Len(blocks) /\ nodes \in Nat /\ tmp_id \in Nat
      /\ Graph(blocks, tmp_id, OpenT, OpenF, OpenL)
  BY KeptFacts
<1>2. Graph(blocks, tmp_id', OpenT, OpenF, OpenL)
  BY <1>1, GraphLater
<1> DEFINE L2 == LoopOpen(frames, break_stack', continue_stack')
           S == {cur}
<1>3. IsTerminateInst(j) /\ cur \in S
  BY DEF IsTerminateInst
<1>4. Awaited(blocks, cur, j, OpenT, OpenF, OpenL, OpenT, OpenF, L2)
  OBVIOUS
<1>5. \A x \in S : x = cur
  OBVIOUS
<1> HIDE DEF L2, S
<1>6. /\ Graph(blocks', tmp_id', OpenT, OpenF, L2) /\ Changes(blocks, blocks', S)
      /\ EndsInRet(blocks', cur)
  BY <1>1, <1>2, <1>3, <1>4, GraphJump
<1>7. CurOpen'
  BY <1>6 DEF CurOpen, Leaves
<1>8. nodes' \in Nat /\ nodes <= nodes'
  BY <1>1
<1>9. QED
  BY <1>5, <1>6, <1>7, <1>8, SameFrames DEF L2

(* return: its ret is no jump to be patched.                               *)
LEMMA ReturnKept ==
  ASSUME KInv, NEW n \in Nat, ReturnStmt(n)
  PROVE  Kept' /\ ResolvedStay
<1>1. /\ TypeOK /\ tmp_id \in Nat /\ ~DeadCode
  BY KeptFacts DEF KInv
<1>2. ~Closed(blocks, cur)
  BY <1>1 DEF ReturnStmt, Emit
<1> DEFINE is == Straight(n, FALSE)
<1>3. is \in Seq(InstSet) /\ RetInst \in InstSet
  BY <1>1, StraightType, InstType
<1>4. \A i \in 1 .. Len(is) : ~IsTerminateInst(is[i])
  BY <1>1, StraightPlain
<1>5. /\ blocks' = AddInsts(blocks, cur, Append(is, RetInst))
      /\ tmp_id' \in Nat /\ tmp_id <= tmp_id' /\ ~HasValue'
      /\ UNCHANGED <<true_stack, false_stack, cur, frames, nodes>>
      /\ break_stack' = break_stack /\ continue_stack' = continue_stack
  BY <1>1 DEF ReturnStmt, HasValue, stacks
<1>6. RetInst.op = "ret" /\ RetInst.want = NoTarget
  BY DEF RetInst, Inst
<1>7. Awaited(blocks, cur, RetInst, OpenT, OpenF, OpenL, OpenT, OpenF,
              LoopOpen(frames, break_stack', continue_stack'))
  BY <1>5, <1>6 DEF Awaited, OpenL, IsBr
<1> HIDE DEF is
<1>8. QED
  BY <1>2, <1>3, <1>4, <1>5, <1>6, <1>7, JumpStays

(* break and continue.                                                     *)
LEMMA LoopIsInnermost ==
  ASSUME KInv, Loops # {}
  PROVE  \E m \in 1 .. Len(frames) :
           /\ frames[m].kind = "while" /\ frames[m].node = Loop /\ Loop \in Nat
           /\ \A j \in 1 .. Len(frames) : m < j => frames[j].kind # "while"
<1>1. frames \in Seq(FrameSet) /\ Len(frames) \in Nat
  BY KeptFacts
<1>2. /\ Loops \subseteq 1 .. Len(frames)
      /\ \A k \in 1 .. Len(frames) : k \in Loops <=> frames[k].kind = "while"
  BY <1>1 DEF Loops
<1> DEFINE m == Max(Loops)
<1>3. m \in Loops /\ \A k \in Loops : ~ (m < k)
  BY <1>1, <1>2, MaxIsGreatest
<1>4. Loop = frames[m].node
  BY DEF Loop
<1> HIDE DEF m
<1>5. m \in 1 .. Len(frames) /\ frames[m].kind = "while"
  BY <1>2, <1>3
<1>6. \A j \in 1 .. Len(frames) : m < j => frames[j].kind # "while"
  BY <1>2, <1>3
<1>7. frames[m] \in FrameSet
  BY <1>1, <1>5
<1>8. Loop \in Nat
  BY <1>4, <1>5, <1>7, FrameFields
<1>9. QED
  BY <1>4, <1>5, <1>6, <1>8

(* The ret that break and continue leave as a placeholder is what its loop *)
(* waits for.                                                              *)
LEMMA OpenJumpAwaited ==
  ASSUME NEW r \in RoleSet, NEW bs, NEW x, NEW T, NEW F, NEW L, NEW L2,
         L2 = L \cup {<<r, x>>}
  PROVE  /\ Awaited(bs, x, OpenJump(r), T, F, L, T, F, L2)
         /\ OpenJump(r) \in InstSet /\ OpenJump(r).op = "ret"
<1> DEFINE j == OpenJump(r)
<1>1. j \in InstSet /\ j.op = "ret" /\ j.want = To(r) /\ j.want.t = r
  BY InstType DEF OpenJump, Inst, To
<1> HIDE DEF j
<1>2. Awaited(bs, x, j, T, F, L, T, F, L2)
  BY <1>1 DEF Awaited, IsBr
<1>3. QED
  BY <1>1, <1>2 DEF j

(* break and continue.                                                     *)
LEMMA JumpKeptBy ==
  ASSUME KInv, BreakStmt \/ ContinueStmt
  PROVE  Kept' /\ ResolvedStay
<1>1. /\ tmp_id \in Nat /\ ~DeadCode /\ cur \in Nat
      /\ Stacked(frames, break_stack, LoopKinds)
      /\ Stacked(frames, continue_stack, LoopKinds)
  BY KeptFacts DEF KInv
<1>2. ~Closed(blocks, cur) /\ Loops # {}
  BY <1>1 DEF BreakStmt, ContinueStmt, Emit
<1>3. PICK m \in 1 .. Len(frames) :
        /\ frames[m].kind = "while" /\ frames[m].node = Loop /\ Loop \in Nat
        /\ \A j \in 1 .. Len(frames) : m < j => frames[j].kind # "while"
  BY <1>2, LoopIsInnermost
<1>4. \A st, p : Stacked(frames, st, LoopKinds) =>
        LoopOf(frames, AddTop(st, <<cur>>), p) = LoopOf(frames, st, p) \cup {<<Role(Loop, p), cur>>}
  BY <1>1, <1>3, LoopOfAdd
<1> DEFINE is == <<>>
<1>5. /\ is \in Seq(InstSet) /\ \A i \in 1 .. Len(is) : ~IsTerminateInst(is[i])
      /\ \A j : Append(is, j) = <<j>>
  OBVIOUS
<1>6. /\ tmp_id' \in Nat /\ tmp_id <= tmp_id' /\ ~HasValue'
      /\ UNCHANGED <<true_stack, false_stack, cur, frames, nodes>>
  BY <1>1 DEF BreakStmt, ContinueStmt, HasValue
<1> DEFINE L2 == LoopOpen(frames, break_stack', continue_stack')
<1>7. CASE BreakStmt
  <2> DEFINE r == Role(Loop, "end")
  <2>1. r \in RoleSet
    BY <1>3, RoleType DEF Parts
  <2>2. /\ blocks' = AddInsts(blocks, cur, Append(is, OpenJump(r)))
        /\ break_stack' = AddTop(break_stack, <<cur>>) /\ continue_stack' = continue_stack
    BY <1>7, <1>5 DEF BreakStmt
  <2>3. L2 = OpenL \cup {<<r, cur>>}
    BY <1>1, <1>4, <2>2 DEF OpenL, LoopOpen
  <2> HIDE DEF r, is, L2
  <2>4. /\ Awaited(blocks, cur, OpenJump(r), OpenT, OpenF, OpenL, OpenT, OpenF, L2)
        /\ OpenJump(r) \in InstSet /\ OpenJump(r).op = "ret"
    BY <2>1, <2>3, OpenJumpAwaited
  <2>5. QED
    BY <1>2, <1>5, <1>6, <2>2, <2>4, JumpStays DEF L2
<1>8. CASE ContinueStmt
  <2> DEFINE r == Role(Loop, "check")
  <2>1. r \in RoleSet
    BY <1>3, RoleType DEF Parts
  <2>2. /\ blocks' = AddInsts(blocks, cur, Append(is, OpenJump(r)))
        /\ break_stack' = break_stack /\ continue_stack' = AddTop(continue_stack, <<cur>>)
    BY <1>8, <1>5 DEF ContinueStmt
  <2>3. L2 = OpenL \cup {<<r, cur>>}
    BY <1>1, <1>4, <2>2 DEF OpenL, LoopOpen
  <2> HIDE DEF r, is, L2
  <2>4. /\ Awaited(blocks, cur, OpenJump(r), OpenT, OpenF, OpenL, OpenT, OpenF, L2)
        /\ OpenJump(r) \in InstSet /\ OpenJump(r).op = "ret"
    BY <2>1, <2>3, OpenJumpAwaited
  <2>5. QED
    BY <1>2, <1>5, <1>6, <2>2, <2>4, JumpStays DEF L2
<1>9. QED
  BY <1>7, <1>8

(* The end of the function.                                                *)
LEMMA FunctionEndKept ==
  ASSUME KInv, FunctionEnd
  PROVE  Kept' /\ ResolvedStay
<1>1. tmp_id \in Nat /\ cur \in 1 .. Len(blocks) /\ blocks \in Seq(BlockSet)
      /\ Graph(blocks, tmp_id, OpenT, OpenF, OpenL) /\ nodes \in Nat
  BY KeptFacts
<1>2. /\ blocks' = IF Closed(blocks, cur) THEN blocks ELSE AddInsts(blocks, cur, <<RetInst>>)
      /\ tmp_id' = tmp_id /\ break_stack' = break_stack /\ continue_stack' = continue_stack
      /\ true_stack' = true_stack /\ false_stack' = false_stack
      /\ cur' = cur /\ frames' = frames /\ nodes' = nodes /\ pc' = "done"
  BY DEF FunctionEnd, stacks
<1>3. CurOpen' /\ ~HasValue'
  BY <1>2 DEF CurOpen, HasValue
<1>4. CASE Closed(blocks, cur)
  <2>1. blocks' = blocks
    BY <1>2, <1>4
  <2>2. Changes(blocks, blocks', {})
    BY <1>1, <2>1, ChangesReflexive
  <2>3. Graph(blocks', tmp_id', OpenT, OpenF, LoopOpen(frames, break_stack', continue_stack'))
    BY <1>1, <1>2, <2>1 DEF OpenL
  <2>4. nodes' \in Nat /\ nodes <= nodes'
    BY <1>1, <1>2
  <2>5. QED
    BY <1>2, <1>3, <2>2, <2>3, <2>4, SameFrames
<1>5. CASE ~Closed(blocks, cur)
  <2> DEFINE is == <<>>
  <2>1. /\ is \in Seq(InstSet) /\ \A i \in 1 .. Len(is) : ~IsTerminateInst(is[i])
        /\ Append(is, RetInst) = <<RetInst>>
    OBVIOUS
  <2>2. RetInst.op = "ret" /\ RetInst.want = NoTarget /\ RetInst \in InstSet
    BY InstType DEF RetInst, Inst
  <2>3. Awaited(blocks, cur, RetInst, OpenT, OpenF, OpenL, OpenT, OpenF,
                LoopOpen(frames, break_stack', continue_stack'))
    BY <1>2, <2>2 DEF Awaited, OpenL, IsBr
  <2>4. blocks' = AddInsts(blocks, cur, Append(is, RetInst))
    BY <1>2, <1>5, <2>1
  <2>5. tmp_id' \in Nat /\ tmp_id <= tmp_id'
    BY <1>1, <1>2
  <2> HIDE DEF is
  <2>6. QED
    BY <1>2, <1>3, <1>5, <2>1, <2>2, <2>3, <2>4, <2>5, JumpStays
<1>6. QED
  BY <1>4, <1>5

-----------------------------------------------------------------------------
(* The steps that call.                                                    *)

LEMMA CompoundKept ==
  ASSUME KInv, CompoundStmt
  PROVE  Kept' /\ ResolvedStay
<1> DEFINE f == SeqFrame
<1>1. /\ blocks' = blocks /\ tmp_id' = tmp_id /\ cur' = cur /\ frames' = Append(frames, f)
      /\ break_stack' = break_stack /\ continue_stack' = continue_stack
      /\ true_stack' = true_stack /\ false_stack' = false_stack /\ nodes' = nodes + 1
      /\ pc' = "stmtret" /\ pc = "stmt"
  BY DEF CompoundStmt, Node, stacks, Stmt
<1>2. /\ blocks \in Seq(BlockSet) /\ CurOpen
      /\ Graph(blocks, tmp_id, OpenT, OpenF, OpenL)
  BY KeptFacts
<1>3. f \in FrameSet /\ f.kind = "seq"
  BY FrameType
<1>4. Changes(blocks, blocks', {}) /\ Graph(blocks', tmp_id', OpenT, OpenF, OpenL)
  BY <1>1, <1>2, ChangesReflexive
<1>5. CurOpen' /\ ~HasValue'
  BY <1>1, <1>2 DEF CurOpen, HasValue
<1> HIDE DEF f
<1>6. Waits(f) = {} /\ Pending(f) = {} /\ Behind(f) = {}
  BY <1>3, FrameBlocks
<1>7. FrameShape(f, blocks')
  BY <1>3, <1>6 DEF FrameShape
<1>8. OpensLists(f)
  BY <1>1, <1>3, <1>5 DEF OpensLists
<1>9. QED
  BY <1>1, <1>3, <1>4, <1>5, <1>6, <1>7, <1>8, CallFrames

(* The end of a compound statement.                                        *)
LEMMA CompoundEndKept ==
  ASSUME KInv, CompoundEnd
  PROVE  Kept' /\ ResolvedStay
<1>1. /\ blocks' = blocks /\ tmp_id' = tmp_id /\ cur' = cur /\ frames' = Front(frames)
      /\ break_stack' = break_stack /\ continue_stack' = continue_stack
      /\ true_stack' = true_stack /\ false_stack' = false_stack /\ nodes' = nodes
      /\ pc' = pc /\ pc = "stmtret" /\ frames # <<>> /\ Last(frames).kind = "seq"
  BY DEF CompoundEnd, stacks, TopIsSeq, Top
<1>2. /\ blocks \in Seq(BlockSet) /\ CurOpen
      /\ Graph(blocks, tmp_id, OpenT, OpenF, OpenL)
      /\ Stacked(frames, true_stack, ListKinds) /\ Stacked(frames, false_stack, ListKinds)
      /\ Stacked(frames, break_stack, LoopKinds)
      /\ Stacked(frames, continue_stack, LoopKinds)
      /\ AllSettled(frames, true_stack) /\ AllSettled(frames, false_stack)
  BY KeptFacts
<1>3. CurOpen' /\ ~HasValue'
  BY <1>1, <1>2 DEF CurOpen, HasValue
<1>4. Last(frames).kind \notin ListKinds /\ Last(frames).kind # "while"
  BY <1>1 DEF ListKinds
<1>5. /\ TrueOpen(Front(frames), true_stack) = OpenT /\ AllSettled(Front(frames), true_stack)
      /\ FalseOpen(Front(frames), false_stack) = OpenF /\ AllSettled(Front(frames), false_stack)
  BY <1>1, <1>2, <1>4, OpenTop DEF OpenT, OpenF
<1>6. \A st : Stacked(frames, st, LoopKinds) =>
        \A p : LoopOf(Front(frames), st, p) = LoopOf(frames, st, p)
  BY <1>1, <1>4, LoopOfTop
<1>7. LoopOpen(Front(frames), break_stack, continue_stack) = OpenL
  BY <1>2, <1>6 DEF OpenL, LoopOpen
<1>8. Clear(Front(frames), {}) /\ Changes(blocks, blocks', {})
  BY <1>1, <1>2, ChangesReflexive DEF Clear
<1>9. QED
  BY <1>1, <1>2, <1>3, <1>5, <1>7, <1>8, ReturnFrames

(* The head of an if statement.                                            *)
LEMMA IfStmtKept ==
  ASSUME KInv, NEW hasElse \in BOOLEAN, IfStmt(hasElse)
  PROVE  Kept' /\ ResolvedStay
<1> DEFINE f == IfFrame("cond", nodes + 1, cur, hasElse, "none", 0, 0, 0)
<1>1. /\ blocks' = blocks /\ tmp_id' = tmp_id /\ cur' = cur /\ frames' = Append(frames, f)
      /\ break_stack' = break_stack /\ continue_stack' = continue_stack
      /\ true_stack' = Push(true_stack) /\ false_stack' = Push(false_stack)
      /\ nodes' = nodes + 1 /\ pc' = "expr" /\ (DeadCode \/ ~Closed(blocks, cur))
  BY DEF IfStmt, Node, Emit
<1>2. /\ blocks \in Seq(BlockSet) /\ ~DeadCode /\ nodes \in Nat /\ cur \in Nat
      /\ Graph(blocks, tmp_id, OpenT, OpenF, OpenL)
  BY KeptFacts DEF KInv
<1>3. f \in FrameSet
  BY <1>2, FrameType DEF CondVals
<1>4. f.kind = "if" /\ f.phase = "cond" /\ f.node = nodes + 1 /\ f.bb = cur /\ f.cond = "none"
  BY DEF IfFrame
<1>5. Changes(blocks, blocks', {}) /\ Graph(blocks', tmp_id', OpenT, OpenF, OpenL)
  BY <1>1, <1>2, ChangesReflexive
<1>6. CurOpen'
  BY <1>1, <1>2 DEF CurOpen
<1> HIDE DEF f
<1>7. Waits(f) = {cur} /\ Pending(f) = {} /\ Behind(f) = {}
  BY <1>3, <1>4, FrameBlocks
<1>8. f.node > 0
  BY <1>2, <1>4
<1>9. FrameShape(f, blocks')
  BY <1>4, <1>7, <1>8 DEF FrameShape
<1>10. OpensLists(f)
  BY <1>1, <1>4 DEF OpensLists
<1>11. \A c \in Waits(f) : cur <= c
  BY <1>2, <1>7
<1>12. \A b \in Behind(f) : b < Len(blocks')
  BY <1>7
<1>13. QED
  BY <1>1, <1>3, <1>4, <1>5, <1>6, <1>9, <1>10, <1>11, <1>12, CallFrames

(* What the frame that asked wants.                                        *)
LEMMA WantIsWantOf ==
  ASSUME KInv, frames # <<>>, Top.kind # "seq"
  PROVE  /\ Want = WantOf(Top) /\ WantOf(Top) \in WantSet
         /\ Top.node \in Nat /\ Top.node > 0 /\ Top.node <= nodes
         /\ WantOf(Top).t[1] <= Top.node /\ WantOf(Top).f[1] <= Top.node
         /\ WantOf(Top).t[1] \in Nat /\ WantOf(Top).f[1] \in Nat
<1>1. /\ Top \in FrameSet /\ FrameShape(Top, blocks)
      /\ TopShape(Front(frames), Top, blocks, nodes)
  BY TopFacts
<1>2. /\ WantOf(Top) \in WantSet /\ Top.node \in Nat /\ Top.node > 0
      /\ WantOf(Top).t[1] <= Top.node /\ WantOf(Top).f[1] <= Top.node
  BY <1>1, WantRoles
<1>3. Top.node <= nodes
  BY <1>1 DEF TopShape
<1>4. WantOf(Top).t[1] \in Nat /\ WantOf(Top).f[1] \in Nat
  BY <1>2 DEF WantSet, RoleSet
<1> DEFINE g == Top
<1>5. g.kind \in {"if", "while", "cond"} /\ (g.kind = "cond" => g.op \in {"and", "or"})
  BY <1>1, FrameFields
<1>6. Want = WantOf(Top)
  <2>1. CASE g.kind = "if"
    BY <2>1 DEF Want, WantOf
  <2>2. CASE g.kind = "while"
    BY <2>2 DEF Want, WantOf
  <2>3. CASE g.kind = "cond" /\ g.phase = "lhs" /\ g.op = "and"
    BY <2>3 DEF Want, WantOf, LhsWant
  <2>4. CASE g.kind = "cond" /\ g.phase = "lhs" /\ g.op = "or"
    BY <2>4 DEF Want, WantOf, LhsWant
  <2>5. CASE g.kind = "cond" /\ g.phase # "lhs"
    BY <2>5 DEF Want, WantOf
  <2>6. QED
    BY <1>5, <2>1, <2>2, <2>3, <2>4, <2>5
<1>7. QED
  BY <1>2, <1>3, <1>4, <1>6

(* && and ||: the left operand is asked for.                               *)
LEMMA CondOperatorKept ==
  ASSUME KInv, NEW op \in {"and", "or"}, CondOperator(op)
  PROVE  Kept' /\ ResolvedStay
<1> DEFINE n == nodes + 1
           f == CondFrame(op, "lhs", n, cur, New, 0, "none", Want, <<>>, <<>>)
           r == Role(n, "lhs")
<1>1. /\ blocks' = AddBlock(blocks, tmp_id, r)
      /\ tmp_id' = tmp_id + 1 /\ cur' = New /\ frames' = Append(frames, f)
      /\ break_stack' = break_stack /\ continue_stack' = continue_stack
      /\ true_stack' = Push(true_stack) /\ false_stack' = Push(false_stack)
      /\ nodes' = nodes + 1 /\ pc' = pc /\ pc = "expr"
  BY DEF CondOperator, Node, Expr
<1>2. /\ blocks \in Seq(BlockSet) /\ nodes \in Nat /\ cur \in Nat /\ tmp_id \in Nat
      /\ New = Len(blocks) + 1 /\ cur = Len(blocks) /\ cur \in 1 .. Len(blocks)
      /\ Graph(blocks, tmp_id, OpenT, OpenF, OpenL) /\ CurOpen /\ IInv
  BY KeptFacts DEF KInv
<1>3. frames # <<>> /\ Top.kind # "seq"
  BY <1>1, <1>2 DEF IInv, ExprCalls, Awaits
<1>4. /\ Want = WantOf(Top) /\ WantOf(Top) \in WantSet /\ Top.node \in Nat /\ Top.node <= nodes
      /\ WantOf(Top).t[1] <= Top.node /\ WantOf(Top).f[1] <= Top.node
      /\ WantOf(Top).t[1] \in Nat /\ WantOf(Top).f[1] \in Nat
  BY <1>3, WantIsWantOf
<1>5. <<>> \in Seq(Nat) /\ n \in Nat /\ New \in Nat /\ n > 0
  BY <1>2
<1>6. f \in FrameSet
  BY <1>2, <1>4, <1>5, FrameType DEF CondVals
<1>7. /\ f.kind = "cond" /\ f.phase = "lhs" /\ f.node = n /\ f.bb = cur /\ f.lhs = New
      /\ f.cond = "none" /\ f.want = Want /\ f.lhs_true = <<>> /\ f.lhs_false = <<>>
  BY DEF CondFrame
<1>8. r \in RoleSet
  BY <1>5, RoleType DEF Parts
<1>9. ~Closed(blocks, cur)
  BY <1>1, <1>2 DEF CurOpen, HasValue
<1> HIDE DEF f, r
<1>10. /\ Graph(blocks', tmp_id', OpenT, OpenF, OpenL) /\ Changes(blocks, blocks', {})
       /\ Len(blocks') = New /\ blocks'[New].role = r /\ ~Closed(blocks', New)
  BY <1>1, <1>2, <1>8, GraphAddBlock
<1>11. CurOpen'
  BY <1>1, <1>10 DEF CurOpen, Leaves
<1>12. ~Closed(blocks', cur)
  BY <1>2, <1>9, <1>10 DEF Changes
<1>13. Waits(f) = {cur, New} /\ Pending(f) = {cur} /\ Behind(f) = {cur}
  <2>1. Waits(f) = {f.bb, f.lhs} /\ Pending(f) = {f.bb} /\ Behind(f) = {f.bb, f.lhs} \ {f.lhs}
    BY <1>6, <1>7, FrameBlocks
  <2>2. QED
    BY <1>2, <1>7, <2>1
<1>14. f.want.t[1] < f.node /\ f.want.f[1] < f.node
  BY <1>2, <1>4, <1>7
<1>15. FrameShape(f, blocks')
  <2>1. f.bb < f.lhs /\ blocks'[f.lhs].role = Role(f.node, "lhs")
    BY <1>2, <1>7, <1>10 DEF r
  <2>2. f.node > 0
    BY <1>5, <1>7
  <2>3. \A b \in Pending(f) : ~Closed(blocks', b)
    BY <1>12, <1>13
  <2>4. QED
    BY <1>7, <1>14, <2>1, <2>2, <2>3 DEF FrameShape
<1>16. OpensLists(f)
  BY <1>1, <1>7 DEF OpensLists
<1>17. \A c \in Waits(f) : cur <= c
  BY <1>2, <1>13
<1>18. \A b \in Behind(f) : b < Len(blocks')
  BY <1>2, <1>10, <1>13
<1>19. QED
  BY <1>1, <1>3, <1>4, <1>6, <1>7, <1>10, <1>11, <1>15, <1>16, <1>17, <1>18, CallFrames

(* The check block of a loop, and the jump to it.                          *)
LEMMA CheckKept ==
  ASSUME KInv, NEW n \in Nat, ~Closed(blocks, cur)
  PROVE  LET bs == AddInst(AddBlock(blocks, tmp_id, Role(n, "check")), cur,
                           BrInst(tmp_id, To(Role(n, "check"))))
         IN /\ Graph(bs, tmp_id + 1, OpenT, OpenF, OpenL) /\ Changes(blocks, bs, {cur})
            /\ Len(bs) = New /\ bs[New].role = Role(n, "check") /\ ~Closed(bs, New)
<1> DEFINE r == Role(n, "check")
           b1 == AddBlock(blocks, tmp_id, r)
           bs == AddInst(b1, cur, BrInst(tmp_id, To(r)))
           S == {cur}
           E == {}
<1>1. /\ blocks \in Seq(BlockSet) /\ nodes \in Nat /\ cur \in Nat /\ tmp_id \in Nat
      /\ New = Len(blocks) + 1 /\ cur = Len(blocks) /\ cur \in 1 .. Len(blocks)
      /\ Graph(blocks, tmp_id, OpenT, OpenF, OpenL)
  BY KeptFacts
<1>2. r \in RoleSet /\ To(r) \in WantSet /\ tmp_id \in LabelSet
  BY <1>1, RoleType DEF Parts, LabelSet
<1>3. E \subseteq S /\ cur \in S /\ cur \notin E /\ E \cup S = S /\ New \notin S
  BY <1>1
<1> HIDE DEF r, S, E
<1>4. /\ Graph(b1, tmp_id + 1, OpenT, OpenF, OpenL) /\ Changes(blocks, b1, {})
      /\ HasRoleIn(b1, tmp_id, r)
      /\ Len(b1) = New /\ b1[New].role = r /\ ~Closed(b1, New)
  BY <1>1, <1>2, GraphAddBlock
<1> HIDE DEF b1
<1>5. cur \in 1 .. Len(b1) /\ New \in 1 .. Len(b1) /\ ~Closed(b1, cur)
  BY <1>1, <1>4 DEF Changes
<1>6. Changes(blocks, b1, E)
  BY <1>4 DEF E
<1>7. Wired(b1, b1, E, tmp_id + 1, OpenT, OpenF, OpenL)
  BY <1>4, WireStart
<1>8. Wired(b1, bs, S, tmp_id + 1, OpenT, OpenF, OpenL)
  BY <1>2, <1>3, <1>4, <1>5, <1>7, WireBr
<1>9. bs \in Seq(BlockSet) /\ Len(bs) = Len(b1) /\ bs[New].role = b1[New].role
  <2>1. b1 \in Seq(BlockSet)
    BY <1>4 DEF Graph
  <2>2. <<BrInst(tmp_id, To(r))>> \in Seq(InstSet)
    BY <1>2, InstType
  <2>3. QED
    BY <1>5, <2>1, <2>2, AddInstsEffect DEF AddInst
<1> HIDE DEF bs
<1>10. Graph(bs, tmp_id + 1, OpenT, OpenF, OpenL) /\ Changes(b1, bs, S)
  BY <1>8 DEF Wired
<1>11. Changes(blocks, bs, S)
  <2>1. Changes(blocks, bs, E \cup S)
    BY <1>1, <1>6, <1>10, ChangesTransitive
  <2>2. QED
    BY <1>3, <2>1
<1>12. ~Closed(bs, New)
  BY <1>3, <1>4, <1>5, <1>10 DEF Changes
<1>13. QED
  BY <1>4, <1>9, <1>10, <1>11, <1>12 DEF bs, r, b1, S

(* The head of a loop with a condition.                                    *)
LEMMA WhileStmtKept ==
  ASSUME KInv, WhileStmt
  PROVE  Kept' /\ ResolvedStay
<1> DEFINE n == nodes + 1
           f == WhileFrame("cond", n, New, FALSE, "none", 0)
           r == Role(n, "check")
<1>1. /\ blocks' = AddInst(AddBlock(blocks, tmp_id, r), cur, BrInst(tmp_id, To(r)))
      /\ tmp_id' = tmp_id + 1 /\ cur' = New /\ frames' = Append(frames, f)
      /\ break_stack' = Push(break_stack) /\ continue_stack' = Push(continue_stack)
      /\ true_stack' = Push(true_stack) /\ false_stack' = Push(false_stack)
      /\ nodes' = nodes + 1 /\ pc' = "expr" /\ (DeadCode \/ ~Closed(blocks, cur))
  BY DEF WhileStmt, Node, Emit, AddInst
<1>2. /\ ~DeadCode /\ nodes \in Nat /\ cur \in Nat
      /\ New = Len(blocks) + 1 /\ cur = Len(blocks)
  BY KeptFacts DEF KInv
<1>3. n \in Nat /\ New \in Nat /\ n > 0
  BY <1>2
<1>4. /\ Graph(blocks', tmp_id', OpenT, OpenF, OpenL) /\ Changes(blocks, blocks', {cur})
      /\ Len(blocks') = New /\ blocks'[New].role = r /\ ~Closed(blocks', New)
  BY <1>1, <1>2, <1>3, CheckKept
<1>5. f \in FrameSet
  BY <1>3, FrameType DEF CondVals
<1>6. f.kind = "while" /\ f.phase = "cond" /\ f.node = n /\ f.check = New /\ f.const = FALSE
  BY DEF WhileFrame
<1>7. CurOpen'
  BY <1>1, <1>4 DEF CurOpen
<1> HIDE DEF f
<1>8. Waits(f) = {New} /\ Pending(f) = {} /\ Behind(f) = {}
  BY <1>5, <1>6, FrameBlocks
<1>9. FrameShape(f, blocks')
  BY <1>3, <1>4, <1>6, <1>8 DEF FrameShape
<1>10. OpensLists(f)
  BY <1>1, <1>6 DEF OpensLists
<1>11. \A c \in Waits(f) : cur <= c
  BY <1>2, <1>8
<1>12. (\A b \in Behind(f) : b < Len(blocks')) /\ \A x \in {cur} : x = cur
  BY <1>8
<1>13. QED
  BY <1>1, <1>4, <1>5, <1>6, <1>7, <1>9, <1>10, <1>11, <1>12, CallFrames

(* The head of a loop whose condition is a constant.                       *)
LEMMA WhileTrueKept ==
  ASSUME KInv, WhileTrue
  PROVE  Kept' /\ ResolvedStay
<1> DEFINE n == nodes + 1
           f == WhileFrame("body", n, New, TRUE, "none", New + 1)
           r == Role(n, "check")
           q == Role(n, "body")
           bs == AddInst(AddBlock(blocks, tmp_id, r), cur, BrInst(tmp_id, To(r)))
           S == {cur}
           E == {}
<1>1. /\ blocks' = AddBlock(bs, tmp_id + 1, q)
      /\ tmp_id' = tmp_id + 2 /\ cur' = New + 1 /\ frames' = Append(frames, f)
      /\ break_stack' = Push(break_stack) /\ continue_stack' = Push(continue_stack)
      /\ true_stack' = Push(true_stack) /\ false_stack' = Push(false_stack)
      /\ nodes' = nodes + 1 /\ pc' = "stmt" /\ (DeadCode \/ ~Closed(blocks, cur))
  BY DEF WhileTrue, Node, Emit, AddInst, Stmt
<1>2. /\ ~DeadCode /\ nodes \in Nat /\ cur \in Nat /\ tmp_id \in Nat
      /\ New = Len(blocks) + 1 /\ cur = Len(blocks) /\ blocks \in Seq(BlockSet)
  BY KeptFacts DEF KInv
<1>3. n \in Nat /\ New \in Nat /\ n > 0 /\ tmp_id + 1 \in Nat /\ New + 1 \in Nat
  BY <1>2
<1>4. /\ Graph(bs, tmp_id + 1, OpenT, OpenF, OpenL) /\ Changes(blocks, bs, S)
      /\ Len(bs) = New /\ bs[New].role = r /\ ~Closed(bs, New)
  BY <1>1, <1>2, <1>3, CheckKept
<1>5. q \in RoleSet
  BY <1>3, RoleType DEF Parts
<1>6. S \cup E = S /\ New \notin E /\ \A x \in S : x = cur
  OBVIOUS
<1> HIDE DEF bs, S, E, q
<1>7. /\ Graph(blocks', (tmp_id + 1) + 1, OpenT, OpenF, OpenL) /\ Changes(bs, blocks', {})
      /\ Len(blocks') = New + 1 /\ blocks'[New + 1].role = q /\ ~Closed(blocks', New + 1)
  BY <1>1, <1>3, <1>4, <1>5, GraphAddBlock
<1>8. Graph(blocks', tmp_id', OpenT, OpenF, OpenL) /\ Changes(bs, blocks', E)
  BY <1>1, <1>2, <1>7 DEF E
<1>9. Changes(blocks, blocks', S)
  <2>1. Changes(blocks, blocks', S \cup E)
    BY <1>2, <1>4, <1>8, ChangesTransitive
  <2>2. QED
    BY <1>6, <2>1
<1>10. blocks'[New].role = r /\ ~Closed(blocks', New)
  <2>1. New \in 1 .. Len(bs)
    BY <1>2, <1>4
  <2>2. QED
    BY <1>4, <1>6, <1>8, <2>1 DEF Changes, KeepsRoles
<1>11. f \in FrameSet
  BY <1>3, FrameType DEF CondVals
<1>12. /\ f.kind = "while" /\ f.phase = "body" /\ f.node = n /\ f.check = New
       /\ f.body = New + 1 /\ f.const = TRUE
  BY DEF WhileFrame
<1>13. CurOpen'
  BY <1>1, <1>7 DEF CurOpen, HasValue, Leaves
<1> HIDE DEF f
<1>14. Waits(f) = {New} /\ Pending(f) = {New} /\ Behind(f) = {New}
  BY <1>11, <1>12, FrameBlocks
<1>15. FrameShape(f, blocks')
  <2>1. \A b \in Pending(f) : ~Closed(blocks', b)
    BY <1>10, <1>14
  <2>2. QED
    BY <1>3, <1>7, <1>10, <1>12, <2>1 DEF FrameShape, q
<1>16. OpensLists(f)
  BY <1>1, <1>12 DEF OpensLists
<1>17. \A c \in Waits(f) : cur <= c
  BY <1>2, <1>14
<1>18. \A b \in Behind(f) : b < Len(blocks')
  BY <1>2, <1>7, <1>14
<1>19. QED
  BY <1>1, <1>6, <1>8, <1>9, <1>11, <1>12, <1>13, <1>15, <1>16, <1>17, <1>18, CallFrames

-----------------------------------------------------------------------------
(* The steps to the next phase.                                            *)

LEMMA IcmpPlain ==
  ASSUME tmp_id \in Nat
  PROVE  \A i \in 1 .. Len(IcmpInsts(val)) : ~IsTerminateInst(IcmpInsts(val)[i])
<1>1. ~IsTerminateInst(ValInst(tmp_id))
  BY DEF IsTerminateInst, ValInst, Inst
<1>2. CASE val = "i32"
  <2>1. IcmpInsts(val) = <<ValInst(tmp_id)>>
    BY <1>2 DEF IcmpInsts
  <2>2. QED
    BY <1>1, <2>1
<1>3. CASE val # "i32"
  <2>1. IcmpInsts(val) = <<>>
    BY <1>3 DEF IcmpInsts
  <2>2. QED
    BY <2>1
<1>4. QED
  BY <1>2, <1>3

(* The conversion of an operand to i1.                                     *)
LEMMA IcmpKept ==
  ASSUME KInv, pc = "exprret"
  PROVE  LET bs == AddInsts(blocks, Asked(Top), IcmpInsts(val))
         IN /\ Graph(bs, AfterIcmp(val), OpenT, OpenF, OpenL) /\ Changes(blocks, bs, {})
            /\ Len(bs) = Len(blocks) /\ bs \in Seq(BlockSet)
            /\ Asked(Top) \in 1 .. Len(blocks) /\ AfterIcmp(val) \in Nat
            /\ val # "none" =>
                 /\ ~Closed(bs, Asked(Top)) /\ cur = Asked(Top)
                 /\ Last(true_stack) = <<>> /\ Last(false_stack) = <<>>
            /\ val = "none" => bs = blocks /\ Closed(blocks, Asked(Top))
<1> DEFINE x == Asked(Top)
           is == IcmpInsts(val)
           bs == AddInsts(blocks, x, is)
<1>1. /\ tmp_id \in Nat /\ TInv /\ TypeOK /\ CurOpen /\ blocks \in Seq(BlockSet)
      /\ Graph(blocks, tmp_id, OpenT, OpenF, OpenL) /\ val \in {"none", "i1", "i32"}
      /\ HasValue => Last(true_stack) = <<>> /\ Last(false_stack) = <<>>
  BY KeptFacts
<1>2. x \in 1 .. Len(blocks) /\ (val # "none" => cur = x)
  <2>1. 0 \in Nat /\ "end" \in Parts
    BY DEF Parts
  <2>2. QED
    BY <1>1, <2>1, NextBlockEffect
<1>3. is \in Seq(InstSet) /\ AfterIcmp(val) \in Nat /\ tmp_id <= AfterIcmp(val)
  <2>1. tmp_id <= AfterIcmp(val)
    BY <1>1 DEF AfterIcmp
  <2>2. QED
    BY <1>1, <2>1, ToBoolType
<1>4. Graph(blocks, AfterIcmp(val), OpenT, OpenF, OpenL)
  BY <1>1, <1>3, GraphLater
<1>5. \A i \in 1 .. Len(is) : ~IsTerminateInst(is[i])
  BY <1>1, IcmpPlain
<1>6. CASE val # "none"
  <2>1. HasValue
    BY <1>6 DEF HasValue
  <2>2. ~Closed(blocks, x)
    BY <1>1, <1>2, <1>6, <2>1 DEF CurOpen
  <2> HIDE DEF x, is
  <2>3. /\ Graph(bs, AfterIcmp(val), OpenT, OpenF, OpenL) /\ Changes(blocks, bs, {})
        /\ Len(bs) = Len(blocks) /\ ~Closed(bs, x)
    BY <1>2, <1>3, <1>4, <1>5, <2>2, GraphPlain
  <2>4. bs \in Seq(BlockSet)
    BY <2>3 DEF Graph
  <2>5. QED
    BY <1>1, <1>2, <1>3, <1>6, <2>1, <2>3, <2>4 DEF x, is
<1>7. CASE val = "none"
  <2>1. is = <<>>
    BY <1>7 DEF IcmpInsts
  <2>2. bs = blocks
    BY <1>1, <1>2, <2>1, AddNothing
  <2>3. Closed(blocks, x)
    BY <1>1, <1>7 DEF TInv, Terminated, Current
  <2>4. QED
    BY <1>1, <1>2, <1>3, <1>4, <1>7, <2>2, <2>3, ChangesReflexive
<1>8. QED
  BY <1>6, <1>7

(* ... and the block that comes after it.                                  *)
LEMMA NextBlockKept ==
  ASSUME KInv, pc = "exprret", NEW r \in RoleSet
  PROVE  LET bs == AddBlock(AddInsts(blocks, Asked(Top), IcmpInsts(val)), AfterIcmp(val), r)
         IN /\ Graph(bs, AfterIcmp(val) + 1, OpenT, OpenF, OpenL) /\ Changes(blocks, bs, {})
            /\ Len(bs) = New /\ bs[New].role = r /\ ~Closed(bs, New)
            /\ val # "none" => ~Closed(bs, Asked(Top))
<1> DEFINE b1 == AddInsts(blocks, Asked(Top), IcmpInsts(val))
           bs == AddBlock(b1, AfterIcmp(val), r)
           E == {}
<1>1. /\ Graph(b1, AfterIcmp(val), OpenT, OpenF, OpenL) /\ Changes(blocks, b1, {})
      /\ Len(b1) = Len(blocks) /\ b1 \in Seq(BlockSet)
      /\ Asked(Top) \in 1 .. Len(blocks) /\ AfterIcmp(val) \in Nat
      /\ val # "none" => ~Closed(b1, Asked(Top))
  BY IcmpKept
<1>2. New = Len(blocks) + 1 /\ blocks \in Seq(BlockSet)
  BY KeptFacts
<1> HIDE DEF b1
<1>3. /\ Graph(bs, AfterIcmp(val) + 1, OpenT, OpenF, OpenL) /\ Changes(b1, bs, {})
      /\ Len(bs) = New /\ bs[New].role = r /\ ~Closed(bs, New)
  BY <1>1, <1>2, GraphAddBlock
<1> HIDE DEF bs
<1>4. Changes(blocks, bs, {})
  <2>1. Changes(blocks, b1, E) /\ Changes(b1, bs, E) /\ E \cup E = E
    BY <1>1, <1>3
  <2> HIDE DEF E
  <2>2. Changes(blocks, bs, E \cup E)
    BY <1>2, <2>1, ChangesTransitive
  <2>3. QED
    BY <2>1, <2>2 DEF E
<1>5. val # "none" => ~Closed(bs, Asked(Top))
  BY <1>1, <1>3 DEF Changes
<1>6. QED
  BY <1>3, <1>4, <1>5 DEF bs, b1

(* The lists of the top frame apart from those below them.                 *)
LEMMA TopLists ==
  ASSUME KInv, frames # <<>>, Top.kind # "seq"
  PROVE  /\ Last(true_stack) \in Seq(Nat) /\ Last(false_stack) \in Seq(Nat)
         /\ true_stack = Append(Front(true_stack), Last(true_stack))
         /\ false_stack = Append(Front(false_stack), Last(false_stack))
         /\ Settled(Top, Last(true_stack)) /\ Settled(Top, Last(false_stack))
         /\ Stacked(Front(frames), Front(true_stack), ListKinds)
         /\ Stacked(Front(frames), Front(false_stack), ListKinds)
         /\ OpenT = TrueOpen(Front(frames), Front(true_stack)) \cup TrueOf(Top, Last(true_stack))
         /\ OpenF = FalseOpen(Front(frames), Front(false_stack)) \cup FalseOf(Top, Last(false_stack))
         /\ AllSettled(Front(frames), Front(true_stack))
         /\ AllSettled(Front(frames), Front(false_stack))
<1>1. /\ Stacked(frames, true_stack, ListKinds) /\ Stacked(frames, false_stack, ListKinds)
      /\ AllSettled(frames, true_stack) /\ AllSettled(frames, false_stack)
      /\ Top \in FrameSet
  BY KeptFacts, TopFacts
<1>2. Last(frames).kind \in ListKinds
  BY <1>1, FrameFields DEF ListKinds, Top
<1>3. /\ true_stack # <<>> /\ Last(true_stack) \in Seq(Nat)
      /\ Stacked(Front(frames), Front(true_stack), ListKinds)
      /\ OpenT = TrueOpen(Front(frames), Front(true_stack)) \cup TrueOf(Top, Last(true_stack))
      /\ AllSettled(Front(frames), Front(true_stack)) /\ Settled(Top, Last(true_stack))
  BY <1>1, <1>2, OpenTop DEF OpenT, Top
<1>4. /\ false_stack # <<>> /\ Last(false_stack) \in Seq(Nat)
      /\ Stacked(Front(frames), Front(false_stack), ListKinds)
      /\ OpenF = FalseOpen(Front(frames), Front(false_stack)) \cup FalseOf(Top, Last(false_stack))
      /\ AllSettled(Front(frames), Front(false_stack)) /\ Settled(Top, Last(false_stack))
  BY <1>1, <1>2, OpenTop DEF OpenF, Top
<1>5. /\ true_stack = Append(Front(true_stack), Last(true_stack))
      /\ false_stack = Append(Front(false_stack), Last(false_stack))
  BY <1>1, <1>3, <1>4, AppendFront DEF Stacked
<1>6. QED
  BY <1>3, <1>4, <1>5

(* An if statement whose condition is translated.                          *)
LEMMA IfThenKept ==
  ASSUME KInv, IfThen
  PROVE  Kept' /\ ResolvedStay
<1> DEFINE g == Top
           f == IfFrame("then", g.node, g.bb, g.hasElse, ToBool(val), New, 0, 0)
           r == Role(g.node, "then")
<1>1. /\ blocks' = AddBlock(AddInsts(blocks, g.bb, IcmpInsts(val)), AfterIcmp(val), r)
      /\ tmp_id' = AfterIcmp(val) + 1 /\ cur' = New /\ frames' = SetTop(f)
      /\ true_stack' = true_stack /\ false_stack' = false_stack
      /\ UNCHANGED <<break_stack, continue_stack>>
      /\ nodes' = nodes /\ pc' = "stmt" /\ pc = "exprret"
      /\ frames # <<>> /\ g.kind = "if" /\ g.phase = "cond"
  BY DEF IfThen, stacks, At
<1>2. /\ TypeOK /\ New = Len(blocks) + 1 /\ cur \in Nat /\ cur = Len(blocks)
  BY KeptFacts
<1>3. /\ g \in FrameSet /\ g.node > 0 /\ g.node \in Nat /\ g.bb \in Nat /\ g.hasElse \in BOOLEAN
  BY <1>1, TopFacts, FrameFields DEF FrameShape
<1>4. ToBool(val) \in CondVals /\ New \in Nat
  BY <1>2, ToBoolType
<1>5. f \in FrameSet
  BY <1>3, <1>4, FrameType
<1>6. /\ f.kind = "if" /\ f.phase = "then" /\ f.node = g.node /\ f.bb = g.bb
      /\ f.hasElse = g.hasElse /\ f.cond = ToBool(val) /\ f.then = New
  BY DEF IfFrame
<1>7. Asked(g) = g.bb /\ Waits(g) = {g.bb}
  BY <1>1, <1>3, FrameBlocks DEF Asked
<1>8. r \in RoleSet
  BY <1>3, RoleType DEF Parts
<1>9. /\ Graph(blocks', tmp_id', OpenT, OpenF, OpenL) /\ Changes(blocks, blocks', {})
      /\ Len(blocks') = New /\ blocks'[New].role = r /\ ~Closed(blocks', New)
      /\ val # "none" => ~Closed(blocks', g.bb)
  BY <1>1, <1>7, <1>8, NextBlockKept
<1>10. /\ g.bb \in 1 .. Len(blocks)
       /\ val # "none" => Last(true_stack) = <<>> /\ Last(false_stack) = <<>>
  BY <1>1, <1>7, IcmpKept
<1>11. /\ Last(true_stack) \in Seq(Nat) /\ Last(false_stack) \in Seq(Nat)
       /\ true_stack' = Append(Front(true_stack), Last(true_stack))
       /\ false_stack' = Append(Front(false_stack), Last(false_stack))
  BY <1>1, TopLists
<1>12. f.cond # "none" => val # "none"
  BY <1>6 DEF ToBool
<1>13. CurOpen' /\ ~HasValue'
  BY <1>1, <1>9 DEF CurOpen, HasValue, Leaves
<1> HIDE DEF f
<1>14. /\ Waits(f) = {g.bb} /\ Behind(f) = {g.bb}
       /\ Pending(f) = IF f.cond # "none" THEN {g.bb} ELSE {}
  BY <1>5, <1>6, FrameBlocks
<1>15. FrameShape(f, blocks')
  <2>1. \A b \in Pending(f) : ~Closed(blocks', b)
    BY <1>9, <1>12, <1>14
  <2>2. QED
    BY <1>3, <1>6, <1>9, <2>1 DEF FrameShape
<1>16. \A l : /\ TrueOf(f, l) = TrueOf(g, l) /\ FalseOf(f, l) = FalseOf(g, l)
              /\ l = <<>> \/ val = "none" => Settled(f, l)
  BY <1>1, <1>6, <1>12 DEF TrueOf, FalseOf, WantOf, Settled
<1>17. Clear(Front(frames), {})
  BY DEF Clear
<1>18. \A b \in Behind(f) : b < Len(blocks')
  BY <1>2, <1>9, <1>10, <1>14
<1>19. Settled(f, Last(true_stack)) /\ Settled(f, Last(false_stack))
  BY <1>10, <1>16
<1>20. \A c \in Waits(f) : c \in Waits(g) \/ cur <= c
  BY <1>7, <1>14
<1>21. f.kind = Top.kind /\ f.kind # "seq" /\ f.node = Top.node
  BY <1>1, <1>6
<1>22. /\ TrueOf(f, Last(true_stack)) = TrueOf(Top, Last(true_stack))
       /\ FalseOf(f, Last(false_stack)) = FalseOf(Top, Last(false_stack))
  BY <1>16
<1>23. f.kind = "cond" => f.want = Top.want
  BY <1>6
<1>24. QED
  BY <1>1, <1>5, <1>9, <1>11, <1>13, <1>15, <1>17, <1>18, <1>19, <1>20, <1>21, <1>22, <1>23,
     PhaseFrames

(* A loop whose condition is translated.                                   *)
LEMMA WhileBodyKept ==
  ASSUME KInv, WhileBody
  PROVE  Kept' /\ ResolvedStay
<1> DEFINE g == Top
           f == WhileFrame("body", g.node, g.check, g.const, ToBool(val), New)
           r == Role(g.node, "body")
<1>1. /\ blocks' = AddBlock(AddInsts(blocks, g.check, IcmpInsts(val)), AfterIcmp(val), r)
      /\ tmp_id' = AfterIcmp(val) + 1 /\ cur' = New /\ frames' = SetTop(f)
      /\ true_stack' = true_stack /\ false_stack' = false_stack
      /\ UNCHANGED <<break_stack, continue_stack>>
      /\ nodes' = nodes /\ pc' = "stmt" /\ pc = "exprret"
      /\ frames # <<>> /\ g.kind = "while" /\ g.phase = "cond"
  BY DEF WhileBody, stacks, At
<1>2. /\ TypeOK /\ New = Len(blocks) + 1 /\ cur \in Nat /\ cur = Len(blocks)
  BY KeptFacts
<1>3. /\ g \in FrameSet /\ g.node > 0 /\ g.node \in Nat /\ g.check \in Nat
      /\ g.const \in BOOLEAN /\ ~g.const /\ blocks[g.check].role = Role(g.node, "check")
  BY <1>1, TopFacts, FrameFields DEF FrameShape
<1>4. ToBool(val) \in CondVals /\ New \in Nat
  BY <1>2, ToBoolType
<1>5. f \in FrameSet
  BY <1>3, <1>4, FrameType
<1>6. /\ f.kind = "while" /\ f.phase = "body" /\ f.node = g.node /\ f.check = g.check
      /\ f.const = g.const /\ f.cond = ToBool(val) /\ f.body = New
  BY DEF WhileFrame
<1>7. Asked(g) = g.check /\ Waits(g) = {g.check}
  BY <1>1, <1>3, FrameBlocks DEF Asked
<1>8. r \in RoleSet
  BY <1>3, RoleType DEF Parts
<1>9. /\ Graph(blocks', tmp_id', OpenT, OpenF, OpenL) /\ Changes(blocks, blocks', {})
      /\ Len(blocks') = New /\ blocks'[New].role = r /\ ~Closed(blocks', New)
      /\ val # "none" => ~Closed(blocks', g.check)
  BY <1>1, <1>7, <1>8, NextBlockKept
<1>10. /\ g.check \in 1 .. Len(blocks)
       /\ val # "none" => Last(true_stack) = <<>> /\ Last(false_stack) = <<>>
  BY <1>1, <1>7, IcmpKept
<1>11. /\ Last(true_stack) \in Seq(Nat) /\ Last(false_stack) \in Seq(Nat)
       /\ true_stack' = Append(Front(true_stack), Last(true_stack))
       /\ false_stack' = Append(Front(false_stack), Last(false_stack))
  BY <1>1, TopLists
<1>12. f.cond # "none" => val # "none"
  BY <1>6 DEF ToBool
<1>13. CurOpen' /\ ~HasValue'
  BY <1>1, <1>9 DEF CurOpen, HasValue, Leaves
<1> HIDE DEF f
<1>14. /\ Waits(f) = {g.check} /\ Behind(f) = {g.check}
       /\ Pending(f) = IF f.cond # "none" THEN {g.check} ELSE {}
  BY <1>3, <1>5, <1>6, FrameBlocks
<1>15. FrameShape(f, blocks')
  <2>1. \A b \in Pending(f) : ~Closed(blocks', b)
    BY <1>9, <1>12, <1>14
  <2>2. blocks'[f.check].role = Role(f.node, "check")
    BY <1>3, <1>6, <1>9, <1>10 DEF Changes, KeepsRoles
  <2>3. QED
    BY <1>3, <1>6, <1>9, <2>1, <2>2 DEF FrameShape
<1>16. \A l : /\ TrueOf(f, l) = TrueOf(g, l) /\ FalseOf(f, l) = FalseOf(g, l)
              /\ l = <<>> \/ val = "none" => Settled(f, l)
  BY <1>1, <1>6, <1>12 DEF TrueOf, FalseOf, WantOf, Settled
<1>17. Clear(Front(frames), {})
  BY DEF Clear
<1>18. \A b \in Behind(f) : b < Len(blocks')
  BY <1>2, <1>9, <1>10, <1>14
<1>19. Settled(f, Last(true_stack)) /\ Settled(f, Last(false_stack))
  BY <1>10, <1>16
<1>20. \A c \in Waits(f) : c \in Waits(g) \/ cur <= c
  BY <1>7, <1>14
<1>21. f.kind = Top.kind /\ f.kind # "seq" /\ f.node = Top.node
  BY <1>1, <1>6
<1>22. /\ TrueOf(f, Last(true_stack)) = TrueOf(Top, Last(true_stack))
       /\ FalseOf(f, Last(false_stack)) = FalseOf(Top, Last(false_stack))
  BY <1>16
<1>23. f.kind = "cond" => f.want = Top.want
  BY <1>6
<1>24. QED
  BY <1>1, <1>5, <1>9, <1>11, <1>13, <1>15, <1>17, <1>18, <1>19, <1>20, <1>21, <1>22, <1>23,
     PhaseFrames

(* The first branch of an if-else ends: its last block waits for the end.  *)
LEMMA IfElseKept ==
  ASSUME KInv, IfElse
  PROVE  Kept' /\ ResolvedStay
<1> DEFINE g == Top
           f == IfFrame("else", g.node, g.bb, g.hasElse, g.cond, g.then, cur, New)
           r == Role(g.node, "else")
<1>1. /\ blocks' = AddBlock(blocks, tmp_id, r)
      /\ tmp_id' = tmp_id + 1 /\ cur' = New /\ frames' = SetTop(f)
      /\ true_stack' = true_stack /\ false_stack' = false_stack
      /\ UNCHANGED <<break_stack, continue_stack>>
      /\ nodes' = nodes /\ pc' = "stmt" /\ pc = "stmtret"
      /\ frames # <<>> /\ g.kind = "if" /\ g.phase = "then" /\ g.hasElse
  BY DEF IfElse, stacks, At
<1>2. /\ TypeOK /\ New = Len(blocks) + 1 /\ cur \in Nat /\ cur = Len(blocks)
      /\ tmp_id \in Nat /\ Graph(blocks, tmp_id, OpenT, OpenF, OpenL) /\ CurOpen
      /\ cur \in 1 .. Len(blocks) /\ blocks \in Seq(BlockSet)
  BY KeptFacts
<1>3. /\ g \in FrameSet /\ g.node > 0 /\ g.node \in Nat /\ g.bb \in Nat /\ g.hasElse \in BOOLEAN
      /\ g.cond \in CondVals /\ g.then \in Nat /\ FrameShape(g, blocks)
      /\ g.bb \in 1 .. Len(blocks) /\ g.then \in 1 .. Len(blocks)
      /\ \A b \in Behind(g) : b < Len(blocks)
  BY <1>1, TopFacts, FrameFields DEF FrameShape, FrameOK, TopShape
<1>4. New \in Nat
  BY <1>2
<1>5. f \in FrameSet
  BY <1>2, <1>3, <1>4, FrameType
<1>6. /\ f.kind = "if" /\ f.phase = "else" /\ f.node = g.node /\ f.bb = g.bb
      /\ f.hasElse = g.hasElse /\ f.cond = g.cond /\ f.then = g.then
      /\ f.thenEnd = cur /\ f.else = New
  BY DEF IfFrame
<1>7. /\ Waits(g) = {g.bb} /\ Behind(g) = {g.bb}
      /\ Pending(g) = IF g.cond # "none" THEN {g.bb} ELSE {}
  BY <1>1, <1>3, FrameBlocks
<1>8. r \in RoleSet
  BY <1>3, RoleType DEF Parts
<1>9. /\ Graph(blocks', tmp_id', OpenT, OpenF, OpenL) /\ Changes(blocks, blocks', {})
      /\ Len(blocks') = New /\ blocks'[New].role = r /\ ~Closed(blocks', New)
  BY <1>1, <1>2, <1>8, GraphAddBlock
<1>10. /\ Last(true_stack) \in Seq(Nat) /\ Last(false_stack) \in Seq(Nat)
       /\ true_stack' = Append(Front(true_stack), Last(true_stack))
       /\ false_stack' = Append(Front(false_stack), Last(false_stack))
       /\ Settled(g, Last(true_stack)) /\ Settled(g, Last(false_stack))
  BY <1>1, TopLists
<1>11. g.bb < cur
  BY <1>2, <1>3, <1>7
<1>12. CurOpen' /\ ~HasValue'
  BY <1>1, <1>9 DEF CurOpen, HasValue, Leaves
<1> HIDE DEF f
<1>13. /\ Waits(f) = {g.bb, cur} /\ Behind(f) = {g.bb, cur}
       /\ Pending(f) = IF f.cond # "none" THEN {g.bb} ELSE {}
  BY <1>1, <1>5, <1>6, FrameBlocks
<1>14. FrameShape(f, blocks')
  <2>1. \A b \in Pending(f) : ~Closed(blocks', b)
    <3>1. \A b \in Pending(g) : ~Closed(blocks, b)
      BY <1>3 DEF FrameShape
    <3>2. QED
      BY <1>3, <1>6, <1>7, <1>9, <1>13, <3>1 DEF Changes
  <2>2. Leaves(blocks', cur)
    <3>1. Leaves(blocks, cur)
      BY <1>1, <1>2 DEF CurOpen
    <3>2. QED
      BY <1>2, <1>9, <3>1 DEF Changes, Leaves
  <2>3. blocks'[f.then].role = Role(f.node, "then")
    BY <1>1, <1>3, <1>6, <1>9 DEF FrameShape, Changes, KeepsRoles
  <2>4. QED
    BY <1>1, <1>3, <1>6, <1>9, <1>11, <2>1, <2>2, <2>3 DEF FrameShape
<1>15. \A l : /\ TrueOf(f, l) = TrueOf(g, l) /\ FalseOf(f, l) = FalseOf(g, l)
              /\ Settled(g, l) => Settled(f, l)
  BY <1>1, <1>6 DEF TrueOf, FalseOf, WantOf, Settled
<1>16. Clear(Front(frames), {})
  BY DEF Clear
<1>17. \A b \in Behind(f) : b < Len(blocks')
  BY <1>2, <1>3, <1>9, <1>11, <1>13
<1>18. Settled(f, Last(true_stack)) /\ Settled(f, Last(false_stack))
  BY <1>10, <1>15
<1>19. \A c \in Waits(f) : c \in Waits(g) \/ cur <= c
  BY <1>2, <1>7, <1>13
<1>20. f.kind = Top.kind /\ f.kind # "seq" /\ f.node = Top.node
  BY <1>1, <1>6
<1>21. /\ TrueOf(f, Last(true_stack)) = TrueOf(Top, Last(true_stack))
       /\ FalseOf(f, Last(false_stack)) = FalseOf(Top, Last(false_stack))
  BY <1>15
<1>22. f.kind = "cond" => f.want = Top.want
  BY <1>6
<1>23. QED
  BY <1>1, <1>5, <1>9, <1>10, <1>12, <1>14, <1>16, <1>17, <1>18, <1>19, <1>20, <1>21, <1>22,
     PhaseFrames

(* The left operand of && or || is done: what it left open is set aside.   *)
LEMMA CondRhsKept ==
  ASSUME KInv, CondRhs
  PROVE  Kept' /\ ResolvedStay
<1> DEFINE g == Top
           lt == Last(true_stack)
           lf == Last(false_stack)
           f == CondFrame(g.op, "rhs", g.node, g.bb, g.lhs, New, ToBool(val), g.want, lt, lf)
           r == Role(g.node, "rhs")
           e == <<>>
<1>1. /\ blocks' = AddBlock(AddInsts(blocks, g.lhs, IcmpInsts(val)), AfterIcmp(val), r)
      /\ tmp_id' = AfterIcmp(val) + 1 /\ cur' = New /\ frames' = SetTop(f)
      /\ true_stack' = Push(Front(true_stack)) /\ false_stack' = Push(Front(false_stack))
      /\ UNCHANGED <<break_stack, continue_stack>>
      /\ nodes' = nodes /\ pc' = "expr" /\ pc = "exprret"
      /\ frames # <<>> /\ g.kind = "cond" /\ g.phase = "lhs"
  BY DEF CondRhs, At
<1>2. /\ TypeOK /\ New = Len(blocks) + 1 /\ cur \in Nat /\ cur = Len(blocks)
  BY KeptFacts
<1>3. /\ g \in FrameSet /\ g.node > 0 /\ g.node \in Nat /\ g.bb \in Nat /\ g.lhs \in Nat
      /\ g.op \in {"and", "or"} /\ g.want \in WantSet /\ g.lhs \in 1 .. Len(blocks)
      /\ g.bb \in 1 .. Len(blocks)
      /\ FrameShape(g, blocks)
  BY <1>1, TopFacts, FrameFields DEF FrameShape, FrameOK
<1>4. ToBool(val) \in CondVals /\ New \in Nat
  BY <1>2, ToBoolType
<1>5. /\ lt \in Seq(Nat) /\ lf \in Seq(Nat)
      /\ Settled(g, lt) /\ Settled(g, lf)
  BY <1>1, TopLists
<1>6. f \in FrameSet
  BY <1>3, <1>4, <1>5, FrameType
<1>7. /\ f.kind = "cond" /\ f.phase = "rhs" /\ f.node = g.node /\ f.bb = g.bb
      /\ f.op = g.op /\ f.lhs = g.lhs /\ f.rhs = New /\ f.cond = ToBool(val)
      /\ f.want = g.want /\ f.lhs_true = lt /\ f.lhs_false = lf
  BY DEF CondFrame
<1>8. /\ Asked(g) = g.lhs /\ Waits(g) = {g.bb, g.lhs} /\ Pending(g) = {g.bb}
  BY <1>1, <1>3, FrameBlocks DEF Asked
<1>9. r \in RoleSet
  BY <1>3, RoleType DEF Parts
<1>10. /\ Graph(blocks', tmp_id', OpenT, OpenF, OpenL) /\ Changes(blocks, blocks', {})
       /\ Len(blocks') = New /\ blocks'[New].role = r /\ ~Closed(blocks', New)
       /\ val # "none" => ~Closed(blocks', g.lhs)
  BY <1>1, <1>8, <1>9, NextBlockKept
<1>11. val # "none" => lt = <<>> /\ lf = <<>>
  BY <1>1, IcmpKept
<1>12. f.cond # "none" => val # "none"
  BY <1>7 DEF ToBool
<1>13. CurOpen'
  BY <1>1, <1>10 DEF CurOpen, HasValue, Leaves
<1>14. e \in Seq(Nat) /\ true_stack' = Append(Front(true_stack), e)
       /\ false_stack' = Append(Front(false_stack), e)
  BY <1>1 DEF Push
<1>15. TrueOf(f, e) = TrueOf(g, lt) /\ FalseOf(f, e) = FalseOf(g, lf)
  <2>1. g.lhs_true = <<>> /\ g.lhs_false = <<>>
    BY <1>1, <1>5 DEF Settled
  <2>2. WantOf(g) = LhsWant(f) /\ LhsWant(g) = LhsWant(f)
    BY <1>1, <1>7, Zenon DEF WantOf, LhsWant
  <2>3. \A q : Pairs(q, <<>>) = {}
    BY PairsSmall
  <2>4. QED
    BY <1>1, <1>7, <2>1, <2>2, <2>3 DEF TrueOf, FalseOf
<1>16. Settled(f, e) /\ Settled(f, e)
  BY <1>7, <1>11, <1>12 DEF Settled
<1>17. HasValue' => e = <<>> /\ e = <<>>
  OBVIOUS
<1> HIDE DEF f
<1>18. /\ Waits(f) = {g.bb, g.lhs, New} /\ Behind(f) = {g.bb, g.lhs, New} \ {New}
       /\ Pending(f) = IF f.cond # "none" THEN {g.bb, g.lhs} ELSE {g.bb}
  BY <1>6, <1>7, FrameBlocks
<1>19. FrameShape(f, blocks')
  <2>1. \A b \in Pending(f) : ~Closed(blocks', b)
    <3>1. ~Closed(blocks, g.bb)
      BY <1>3, <1>8 DEF FrameShape
    <3>2. QED
      BY <1>3, <1>10, <1>12, <1>18, <3>1 DEF Changes
  <2>2. f.bb < f.lhs /\ blocks'[f.lhs].role = Role(f.node, "lhs")
    BY <1>1, <1>3, <1>7, <1>10 DEF FrameShape, Changes, KeepsRoles
  <2>3. f.lhs < f.rhs /\ blocks'[f.rhs].role = Role(f.node, "rhs")
    BY <1>2, <1>3, <1>7, <1>10
  <2>4. f.want.t[1] < f.node /\ f.want.f[1] < f.node
    BY <1>1, <1>3, <1>7 DEF FrameShape
  <2>5. QED
    BY <1>3, <1>7, <2>1, <2>2, <2>3, <2>4 DEF FrameShape
<1>20. Clear(Front(frames), {})
  BY DEF Clear
<1>21. \A b \in Behind(f) : b < Len(blocks')
  BY <1>2, <1>3, <1>10, <1>18
<1>22. \A c \in Waits(f) : c \in Waits(g) \/ cur <= c
  BY <1>2, <1>8, <1>18
<1>23. f.kind = Top.kind /\ f.kind # "seq" /\ f.node = Top.node
  BY <1>1, <1>7
<1>24. f.kind = "cond" => f.want = Top.want
  BY <1>7
<1>25. /\ TrueOf(f, e) = TrueOf(Top, Last(true_stack))
       /\ FalseOf(f, e) = FalseOf(Top, Last(false_stack))
  BY <1>15
<1> HIDE DEF e
<1>26. QED
  BY <1>1, <1>6, <1>10, <1>13, <1>14, <1>16, <1>17, <1>19, <1>20, <1>21, <1>22, <1>23, <1>24,
     <1>25, PhaseFrames

(* What a statement returns to: the blocks it wired, and the new last one. *)
LEMMA WireReturn ==
  ASSUME KInv, NEW b0, NEW S0, NEW S, NEW n, NEW T, NEW F, NEW L,
         Changes(blocks, b0, S0), S0 \subseteq S, Wired(b0, blocks', S, n, T, F, L),
         Len(b0) = New, ~Closed(b0, New), \A x \in S : x # New
  PROVE  /\ Changes(blocks, blocks', S) /\ Graph(blocks', n, T, F, L)
         /\ ~Closed(blocks', New)
<1>1. /\ Graph(blocks', n, T, F, L) /\ Changes(b0, blocks', S)
  BY DEF Wired
<1>2. blocks \in Seq(BlockSet) /\ New = Len(blocks) + 1 /\ Len(blocks) \in Nat
  BY KeptFacts
<1>3. Changes(blocks, blocks', S)
  <2>1. Changes(blocks, blocks', S0 \cup S)
    BY <1>1, <1>2, ChangesTransitive
  <2>2. S0 \cup S = S
    OBVIOUS
  <2>3. QED
    BY <2>1, <2>2
<1>4. ~Closed(blocks', New)
  BY <1>1, <1>2 DEF Changes
<1>5. QED
  BY <1>1, <1>3, <1>4

(* An if or a loop returns: patching its list closes what it had open, and *)
(* nothing of the constructs around it.                                    *)
LEMMA TopCloses ==
  ASSUME KInv, frames # <<>>, Top.kind \in {"if", "while"}
  PROVE  /\ Closing(OpenT, TrueOpen(Front(frames), Front(true_stack)), WantOf(Top).t,
                    Last(true_stack))
         /\ Closing(OpenF, FalseOpen(Front(frames), Front(false_stack)), WantOf(Top).f,
                    Last(false_stack))
<1> DEFINE T2 == TrueOpen(Front(frames), Front(true_stack))
           F2 == FalseOpen(Front(frames), Front(false_stack))
           lt == Last(true_stack)
           lf == Last(false_stack)
<1>1. Top.kind # "seq" /\ Top.kind # "cond"
  OBVIOUS
<1>2. /\ lt \in Seq(Nat) /\ lf \in Seq(Nat)
      /\ OpenT = T2 \cup TrueOf(Top, lt) /\ OpenF = F2 \cup FalseOf(Top, lf)
  BY <1>1, TopLists
<1>3. /\ TrueOf(Top, lt) = Pairs(WantOf(Top).t, lt)
      /\ FalseOf(Top, lf) = Pairs(WantOf(Top).f, lf)
  BY <1>1 DEF TrueOf, FalseOf
<1>4. /\ Front(frames) \in Seq(FrameSet) /\ Top \in FrameSet
      /\ FramesShape(Front(frames), blocks, nodes)
      /\ TopShape(Front(frames), Top, blocks, nodes) /\ FrameShape(Top, blocks)
  BY TopFacts
<1>5. /\ \A p \in T2 : p[1][1] < Top.node
      /\ \A p \in F2 : p[1][1] < Top.node
  BY <1>1, <1>4, RolesBelow
<1>6. WantOf(Top).t[1] = Top.node /\ WantOf(Top).f[1] = Top.node /\ Top.node \in Nat
  <2>1. Top.node \in Nat
    BY <1>1, <1>4, WantRoles
  <2>2. QED
    BY <2>1 DEF WantOf, Role
<1> HIDE DEF T2, F2, lt, lf
<1>7. Closing(OpenT, T2, WantOf(Top).t, lt)
  <2>1. \A p \in T2 : p[1] # WantOf(Top).t
    BY <1>5, <1>6
  <2>2. \A p \in Pairs(WantOf(Top).t, lt) : p[1] = WantOf(Top).t /\ p[2] \in ToSet(lt)
    BY DEF Pairs
  <2>3. \A b \in ToSet(lt) : <<WantOf(Top).t, b>> \in Pairs(WantOf(Top).t, lt)
    BY DEF Pairs
  <2>4. QED
    BY <1>2, <1>3, <2>1, <2>2, <2>3 DEF Closing
<1>8. Closing(OpenF, F2, WantOf(Top).f, lf)
  <2>1. \A p \in F2 : p[1] # WantOf(Top).f
    BY <1>5, <1>6
  <2>2. \A p \in Pairs(WantOf(Top).f, lf) : p[1] = WantOf(Top).f /\ p[2] \in ToSet(lf)
    BY DEF Pairs
  <2>3. \A b \in ToSet(lf) : <<WantOf(Top).f, b>> \in Pairs(WantOf(Top).f, lf)
    BY DEF Pairs
  <2>4. QED
    BY <1>2, <1>3, <2>1, <2>2, <2>3 DEF Closing
<1>9. QED
  BY <1>7, <1>8 DEF T2, F2, lt, lf

(* The steps of the end of an if.                                          *)
ThenLabel  == blocks[Top.then].label
ElseLabel  == IF Top.hasElse THEN blocks[Top.else].label ELSE tmp_id
ThenEnd    == IF Top.hasElse THEN Top.thenEnd ELSE cur
EndRole    == Role(Top.node, "end")
Ended      == AddBlock(blocks, tmp_id, EndRole)
JoinedThen == JumpUnlessRet(Ended, ThenEnd, tmp_id, EndRole)
JoinedBoth ==
  IF Top.hasElse THEN JumpUnlessRet(JoinedThen, cur, tmp_id, EndRole) ELSE JoinedThen
IfTested ==
  IF Top.cond = "none" THEN JoinedBoth
  ELSE AddInst(JoinedBoth, Top.bb, CondBr(ThenLabel, ElseLabel, WantOf(Top)))
Untested == Top.hasElse /\ Top.cond # "none"

(* The blocks the end of an if joins are three, or two, and still open.    *)
LEMMA IfEndFacts ==
  ASSUME KInv, IfEnd
  PROVE  /\ frames # <<>> /\ Top.kind = "if" /\ Top.phase \in {"then", "else"}
         /\ Top.hasElse <=> Top.phase = "else"
         /\ Top.node \in Nat /\ Top.bb \in 1 .. Len(blocks) /\ ThenEnd \in 1 .. Len(blocks)
         /\ cur \in 1 .. Len(blocks) /\ cur = Len(blocks) /\ Len(blocks) \in Nat
         /\ Top.hasElse => ThenEnd \in Waits(Top) /\ ThenEnd < cur /\ Top.bb < ThenEnd
         /\ ~Top.hasElse => ThenEnd = cur
         /\ Top.bb \in Waits(Top) /\ Top.bb < cur
         /\ Leaves(blocks, ThenEnd) /\ Leaves(blocks, cur)
         /\ Top.cond # "none" => ~Closed(blocks, Top.bb)
         /\ ThenLabel \in LabelSet /\ ElseLabel \in LabelSet /\ tmp_id \in LabelSet
         /\ EndRole \in RoleSet /\ To(EndRole) \in WantSet /\ WantOf(Top) \in WantSet
         /\ HasRoleIn(blocks, ThenLabel, WantOf(Top).t)
         /\ Top.hasElse => HasRoleIn(blocks, ElseLabel, WantOf(Top).f)
         /\ ~Top.hasElse => ElseLabel = tmp_id /\ WantOf(Top).f = EndRole
<1> DEFINE g == Top
<1>1. /\ frames # <<>> /\ g.kind = "if" /\ pc = "stmtret"
      /\ (g.phase = "then" /\ ~g.hasElse) \/ g.phase = "else"
  BY DEF IfEnd, At
<1>2. /\ cur \in Nat /\ cur = Len(blocks) /\ CurOpen /\ cur \in 1 .. Len(blocks)
      /\ tmp_id \in Nat /\ blocks \in Seq(BlockSet) /\ Len(blocks) \in Nat
  BY KeptFacts
<1>3. /\ g \in FrameSet /\ FrameShape(g, blocks) /\ FrameOK(g, blocks)
      /\ \A b \in Behind(g) : b < Len(blocks)
  BY <1>1, TopFacts DEF TopShape
<1>4. /\ g.node \in Nat /\ g.bb \in Nat /\ g.hasElse \in BOOLEAN
      /\ g.phase = "else" => g.hasElse
  BY <1>1, <1>3, FrameFields DEF FrameShape
<1>5. /\ g.bb \in 1 .. Len(blocks) /\ g.then \in 1 .. Len(blocks)
      /\ g.hasElse => g.thenEnd \in 1 .. Len(blocks) /\ g.else \in 1 .. Len(blocks)
  BY <1>1, <1>3, <1>4 DEF FrameOK
<1>6. /\ Waits(g) = IF g.phase = "else" /\ g.hasElse THEN {g.bb, g.thenEnd} ELSE {g.bb}
      /\ Behind(g) = Waits(g)
      /\ Pending(g) = IF g.cond # "none" THEN {g.bb} ELSE {}
  BY <1>1, <1>3, FrameBlocks
<1>7. g.hasElse => /\ ThenEnd = g.thenEnd /\ g.thenEnd \in Waits(g) /\ g.thenEnd < cur
                   /\ g.bb < g.thenEnd /\ Leaves(blocks, g.thenEnd)
  BY <1>1, <1>2, <1>3, <1>4, <1>6 DEF FrameShape, ThenEnd
<1>8. ~g.hasElse => ThenEnd = cur
  BY DEF ThenEnd
<1>9. g.bb \in Waits(g) /\ g.bb < cur
  BY <1>2, <1>3, <1>6
<1>10. Leaves(blocks, cur)
  BY <1>1, <1>2 DEF CurOpen
<1>11. g.cond # "none" => ~Closed(blocks, g.bb)
  BY <1>3, <1>6 DEF FrameShape
<1>12. ThenLabel \in LabelSet /\ ElseLabel \in LabelSet /\ tmp_id \in LabelSet
  <2>1. tmp_id \in LabelSet
    BY <1>2 DEF LabelSet
  <2>2. \A b \in 1 .. Len(blocks) : blocks[b].label \in LabelSet
    BY <1>2, BlockType
  <2>3. QED
    BY <1>4, <1>5, <2>1, <2>2 DEF ThenLabel, ElseLabel
<1>13. EndRole \in RoleSet /\ To(EndRole) \in WantSet
  BY <1>4, RoleType DEF Parts, EndRole
<1>14. WantOf(g) \in WantSet
  BY <1>1, <1>3, WantRoles
<1>15. /\ WantOf(g).t = Role(g.node, "then")
       /\ g.hasElse => WantOf(g).f = Role(g.node, "else")
       /\ ~g.hasElse => WantOf(g).f = EndRole
  BY <1>1 DEF WantOf, EndRole
<1>16. HasRoleIn(blocks, ThenLabel, WantOf(g).t)
  BY <1>1, <1>3, <1>5, <1>15 DEF HasRoleIn, ThenLabel, FrameShape
<1>17. g.hasElse => HasRoleIn(blocks, ElseLabel, WantOf(g).f)
  BY <1>1, <1>3, <1>5, <1>15 DEF HasRoleIn, ElseLabel, FrameShape
<1>18. ~g.hasElse => ElseLabel = tmp_id
  BY DEF ElseLabel
<1>19. QED
  BY <1>1, <1>2, <1>4, <1>5, <1>7, <1>8, <1>9, <1>10, <1>11, <1>12, <1>13, <1>14, <1>15,
     <1>16, <1>17, <1>18

(* The joins and the test of an if.                                        *)
LEMMA IfEndWired ==
  ASSUME KInv, IfEnd, NEW S, S = {ThenEnd, cur, Top.bb}
  PROVE  /\ Wired(Ended, IfTested, S, tmp_id + 1, OpenT, OpenF, OpenL)
         /\ Changes(blocks, Ended, {}) /\ Len(Ended) = New /\ ~Closed(Ended, New)
         /\ HasRoleIn(Ended, ThenLabel, WantOf(Top).t)
         /\ HasRoleIn(Ended, ElseLabel, WantOf(Top).f)
<1> DEFINE E == {}
           S1 == {ThenEnd}
           S2 == {ThenEnd, cur}
<1>1. /\ blocks \in Seq(BlockSet) /\ tmp_id \in Nat /\ New = Len(blocks) + 1
      /\ Graph(blocks, tmp_id, OpenT, OpenF, OpenL)
  BY KeptFacts
<1>2. /\ Top.bb \in 1 .. Len(blocks) /\ ThenEnd \in 1 .. Len(blocks)
      /\ cur \in 1 .. Len(blocks) /\ Len(blocks) \in Nat
      /\ Top.hasElse => ThenEnd < cur /\ Top.bb < ThenEnd
      /\ ~Top.hasElse => ThenEnd = cur
      /\ Top.bb < cur
      /\ Leaves(blocks, ThenEnd) /\ Leaves(blocks, cur)
      /\ Top.cond # "none" => ~Closed(blocks, Top.bb)
      /\ ThenLabel \in LabelSet /\ ElseLabel \in LabelSet /\ tmp_id \in LabelSet
      /\ EndRole \in RoleSet /\ To(EndRole) \in WantSet /\ WantOf(Top) \in WantSet
      /\ HasRoleIn(blocks, ThenLabel, WantOf(Top).t)
      /\ Top.hasElse => HasRoleIn(blocks, ElseLabel, WantOf(Top).f)
      /\ ~Top.hasElse => ElseLabel = tmp_id /\ WantOf(Top).f = EndRole
  BY IfEndFacts
<1>3. /\ Graph(Ended, tmp_id + 1, OpenT, OpenF, OpenL) /\ Changes(blocks, Ended, {})
      /\ HasRoleIn(Ended, tmp_id, EndRole)
      /\ Len(Ended) = New /\ ~Closed(Ended, New)
  BY <1>1, <1>2, GraphAddBlock DEF Ended
<1>4. /\ \A b \in 1 .. Len(blocks) :
           /\ Closed(Ended, b) <=> Closed(blocks, b)
           /\ Leaves(Ended, b) <=> Leaves(blocks, b)
      /\ KeepsRoles(blocks, Ended)
  BY <1>3 DEF Changes, Leaves
<1>5. /\ HasRoleIn(Ended, ThenLabel, WantOf(Top).t)
      /\ HasRoleIn(Ended, ElseLabel, WantOf(Top).f)
  <2>1. \A l, r : HasRoleIn(blocks, l, r) => HasRoleIn(Ended, l, r)
    BY <1>1, <1>4, RolesKept
  <2>2. QED
    BY <1>2, <1>3, <2>1
<1>6. /\ ThenEnd \in 1 .. Len(Ended) /\ cur \in 1 .. Len(Ended) /\ Top.bb \in 1 .. Len(Ended)
      /\ Leaves(Ended, ThenEnd) /\ Leaves(Ended, cur)
      /\ Top.cond # "none" => ~Closed(Ended, Top.bb)
  BY <1>1, <1>2, <1>3, <1>4
<1>7. /\ E \subseteq S1 /\ S1 \subseteq S2 /\ S2 \subseteq S
      /\ ThenEnd \in S1 /\ cur \in S2 /\ Top.bb \in S
      /\ ThenEnd \notin E /\ (Top.hasElse => cur \notin S1) /\ Top.bb \notin S2
  BY <1>2
<1>8. ~Top.hasElse => S1 = S2
  BY <1>2
<1> HIDE DEF E, S1, S2
<1>9. Wired(Ended, Ended, E, tmp_id + 1, OpenT, OpenF, OpenL)
  BY <1>3, WireStart
<1>10. Wired(Ended, JoinedThen, S1, tmp_id + 1, OpenT, OpenF, OpenL)
  BY <1>2, <1>3, <1>6, <1>7, <1>9, WireJoin DEF JoinedThen
<1>11. Wired(Ended, JoinedBoth, S2, tmp_id + 1, OpenT, OpenF, OpenL)
  <2>1. CASE Top.hasElse
    <3>1. Wired(Ended, JumpUnlessRet(JoinedThen, cur, tmp_id, EndRole), S2, tmp_id + 1,
                OpenT, OpenF, OpenL)
      BY <1>2, <1>3, <1>6, <1>7, <1>10, <2>1, WireJoin
    <3>2. QED
      BY <2>1, <3>1 DEF JoinedBoth
  <2>2. CASE ~Top.hasElse
    BY <1>8, <1>10, <2>2 DEF JoinedBoth
  <2>3. QED
    BY <2>1, <2>2
<1>12. Wired(Ended, IfTested, S, tmp_id + 1, OpenT, OpenF, OpenL)
  <2>1. CASE Top.cond = "none"
    <3>1. IfTested = JoinedBoth
      BY <2>1 DEF IfTested
    <3>2. Changes(Ended, JoinedBoth, S2) /\ Ended \in Seq(BlockSet)
          /\ Graph(JoinedBoth, tmp_id + 1, OpenT, OpenF, OpenL)
      BY <1>11 DEF Wired
    <3>3. Changes(Ended, JoinedBoth, S)
      BY <1>7, <3>2, ChangesMore
    <3>4. QED
      BY <3>1, <3>2, <3>3 DEF Wired
  <2>2. CASE Top.cond # "none"
    <3>1. ~Closed(Ended, Top.bb)
      BY <1>6, <2>2
    <3>2. Wired(Ended, AddInst(JoinedBoth, Top.bb, CondBr(ThenLabel, ElseLabel, WantOf(Top))),
                S, tmp_id + 1, OpenT, OpenF, OpenL)
      BY <1>2, <1>5, <1>6, <1>7, <1>11, <3>1, WireTest
    <3>3. QED
      BY <2>2, <3>2 DEF IfTested
  <2>3. QED
    BY <2>1, <2>2
<1>13. QED
  BY <1>3, <1>5, <1>12

(* The end of an if statement, in each of its forms.                       *)
LEMMA IfEndKept ==
  ASSUME KInv, IfEnd
  PROVE  Kept' /\ ResolvedStay
<1> DEFINE lt == Last(true_stack)
           lf == Last(false_stack)
           T2 == TrueOpen(Front(frames), Front(true_stack))
           F2 == FalseOpen(Front(frames), Front(false_stack))
           S == {ThenEnd, cur, Top.bb}
           n == tmp_id + 1
           E == {}
<1>1. /\ blocks' = IF Untested THEN IfTested
                   ELSE SetFalse(SetTrue(IfTested, lt, ThenLabel), lf, ElseLabel)
      /\ true_stack' = Front(true_stack) /\ false_stack' = Front(false_stack)
      /\ break_stack' = break_stack /\ continue_stack' = continue_stack
      /\ frames' = Front(frames) /\ cur' = New /\ nodes' = nodes /\ tmp_id' = n
      /\ pc' = "stmtret"
  <2>1. frames # <<>> /\ Top.kind = "if"
    BY IfEndFacts
  <2>2. Want = WantOf(Top)
    BY <2>1, WantIsWantOf
  <2>3. QED
    BY <2>2, Zenon DEF IfEnd, PopIf, Untested, IfTested, JoinedBoth, JoinedThen, Ended, EndRole,
       ThenEnd, ElseLabel, ThenLabel, AddInst
<1>2. /\ frames # <<>> /\ Top.kind = "if" /\ Top.phase \in {"then", "else"}
      /\ Top.bb \in Waits(Top) /\ (Top.hasElse => ThenEnd \in Waits(Top))
      /\ (~Top.hasElse => ThenEnd = cur)
      /\ Top.bb \in 1 .. Len(blocks) /\ ThenEnd \in 1 .. Len(blocks) /\ cur \in 1 .. Len(blocks)
      /\ ThenLabel \in LabelSet /\ ElseLabel \in LabelSet
  BY IfEndFacts
<1>3. New = Len(blocks) + 1 /\ Len(blocks) \in Nat
  BY KeptFacts
<1>4. /\ Wired(Ended, IfTested, S, n, OpenT, OpenF, OpenL)
      /\ Changes(blocks, Ended, {}) /\ Len(Ended) = New /\ ~Closed(Ended, New)
      /\ HasRoleIn(Ended, ThenLabel, WantOf(Top).t)
      /\ HasRoleIn(Ended, ElseLabel, WantOf(Top).f)
  BY IfEndWired
<1>5. /\ Closing(OpenT, T2, WantOf(Top).t, lt) /\ Closing(OpenF, F2, WantOf(Top).f, lf)
  BY <1>2, TopCloses
<1>6. OpenL = LoopOpen(Front(frames), break_stack, continue_stack)
  <2>1. /\ Stacked(frames, break_stack, LoopKinds) /\ Stacked(frames, continue_stack, LoopKinds)
    BY KeptFacts
  <2>2. frames # <<>> /\ Last(frames).kind # "while"
    BY <1>2 DEF Top
  <2>3. QED
    BY <2>1, <2>2, LoopOpenBelow DEF OpenL
<1>7. AllSettled(Front(frames), Front(true_stack)) /\ AllSettled(Front(frames), Front(false_stack))
      /\ Settled(Top, lt) /\ Settled(Top, lf)
      /\ OpenT = T2 \cup TrueOf(Top, lt) /\ OpenF = F2 \cup FalseOf(Top, lf)
  BY <1>2, TopLists
<1>8. Clear(Front(frames), S)
  BY <1>2, <1>3, ClearTop
<1>9. (\A x \in S : x # New) /\ Changes(blocks, Ended, E) /\ E \subseteq S
  BY <1>2, <1>3, <1>4
<1> HIDE DEF S, n, T2, F2, E
<1>10. Wired(Ended, blocks', S, n, T2, F2, OpenL)
  <2>1. CASE Untested
    <3>1. lt = <<>> /\ lf = <<>>
      BY <1>2, <1>7, <2>1 DEF Settled, Untested
    <3>2. TrueOf(Top, lt) = {} /\ FalseOf(Top, lf) = {}
      BY <1>2, <3>1, PairsSmall DEF TrueOf, FalseOf
    <3>3. T2 = OpenT /\ F2 = OpenF
      BY <1>7, <3>2
    <3>4. QED
      BY <1>1, <1>4, <2>1, <3>3
  <2>2. CASE ~Untested
    <3>1. Wired(Ended, SetTrue(IfTested, lt, ThenLabel), S, n, T2, OpenF, OpenL)
      BY <1>2, <1>4, <1>5, WirePatch
    <3>2. Wired(Ended, SetFalse(SetTrue(IfTested, lt, ThenLabel), lf, ElseLabel),
                S, n, T2, F2, OpenL)
      BY <1>2, <1>4, <1>5, <3>1, WirePatch
    <3>3. QED
      BY <1>1, <2>2, <3>2
  <2>3. QED
    BY <2>1, <2>2
<1>11. /\ Changes(blocks, blocks', S) /\ Graph(blocks', n, T2, F2, OpenL)
       /\ ~Closed(blocks', New)
  BY <1>4, <1>9, <1>10, WireReturn
<1>12. ~HasValue' /\ CurOpen'
  BY <1>1, <1>11 DEF HasValue, CurOpen, Leaves
<1>13. Graph(blocks', tmp_id', TrueOpen(Front(frames), true_stack'),
             FalseOpen(Front(frames), false_stack'),
             LoopOpen(Front(frames), break_stack', continue_stack'))
  BY <1>1, <1>6, <1>11 DEF T2, F2
<1>14. AllSettled(Front(frames), true_stack') /\ AllSettled(Front(frames), false_stack')
  BY <1>1, <1>7
<1>15. QED
  BY <1>1, <1>2, <1>8, <1>11, <1>12, <1>13, <1>14, ReturnFrames

(* A loop returns: repairing its breaks, then its continues, closes what   *)
(* it had open, and no jump of a loop around it.                           *)
LEMMA LoopCloses ==
  ASSUME KInv, frames # <<>>, Top.kind = "while"
  PROVE  LET L2 == LoopOpen(Front(frames), Front(break_stack), Front(continue_stack))
             L1 == L2 \cup Pairs(Role(Top.node, "check"), Last(continue_stack))
         IN /\ Closing(OpenL, L1, Role(Top.node, "end"), Last(break_stack))
            /\ Closing(L1, L2, Role(Top.node, "check"), Last(continue_stack))
            /\ \A b \in ToSet(Last(break_stack)) \cup ToSet(Last(continue_stack)) :
                 Top.check <= b /\ b \in 1 .. Len(blocks)
<1> DEFINE G == Front(frames)
           bl == Last(break_stack)
           cl == Last(continue_stack)
           e  == Role(Top.node, "end")
           c  == Role(Top.node, "check")
           A  == LoopOf(G, Front(break_stack), "end")
           B  == LoopOf(G, Front(continue_stack), "check")
           L2 == LoopOpen(G, Front(break_stack), Front(continue_stack))
           L1 == L2 \cup Pairs(c, cl)
<1>1. /\ Stacked(frames, break_stack, LoopKinds) /\ Stacked(frames, continue_stack, LoopKinds)
      /\ Graph(blocks, tmp_id, OpenT, OpenF, OpenL) /\ NInv /\ frames \in Seq(FrameSet)
  BY KeptFacts
<1>2. Last(frames).kind = "while" /\ Last(frames).kind # "seq"
  BY DEF Top
<1>3. /\ bl \in Seq(Nat) /\ cl \in Seq(Nat)
      /\ LoopOf(frames, break_stack, "end") = A \cup Pairs(e, bl)
      /\ LoopOf(frames, continue_stack, "check") = B \cup Pairs(c, cl)
  BY <1>1, <1>2, LoopOfTop DEF Top
<1>4. /\ Front(frames) \in Seq(FrameSet) /\ Top \in FrameSet
      /\ FramesShape(Front(frames), blocks, nodes)
      /\ TopShape(Front(frames), Top, blocks, nodes)
  BY TopFacts
<1>5. /\ \A p \in A : p[1][1] < Top.node
      /\ \A p \in B : p[1][1] < Top.node
  BY <1>4, RolesBelow
<1>6. /\ e[1] = Top.node /\ c[1] = Top.node /\ e # c /\ Top.node \in Nat
  BY <1>4, FrameFields DEF Role
<1>7. /\ \A b \in ToSet(bl) : Top.check <= b
      /\ \A b \in ToSet(cl) : Top.check <= b
  <2>1. LoopStack(frames, break_stack) /\ LoopStack(frames, continue_stack)
    BY <1>1 DEF LoopStack, NInv, Stacked
  <2>2. QED
    BY <1>1, <1>2, <2>1, LoopListsPop DEF Top
<1> HIDE DEF bl, cl, e, c, A, B
<1>8. L2 = A \cup B /\ OpenL = (A \cup Pairs(e, bl)) \cup (B \cup Pairs(c, cl))
  BY <1>3 DEF LoopOpen, OpenL, A, B
<1> HIDE DEF L2, L1
<1>9. /\ L1 = L2 \cup Pairs(c, cl) /\ OpenL = L1 \cup Pairs(e, bl)
  BY <1>8 DEF L1
<1>10. /\ \A p \in L2 : p[1] # e /\ p[1] # c
       /\ \A p \in Pairs(e, bl) : p[1] = e /\ p[2] \in ToSet(bl)
       /\ \A p \in Pairs(c, cl) : p[1] = c /\ p[2] \in ToSet(cl)
       /\ \A b \in ToSet(bl) : <<e, b>> \in Pairs(e, bl)
       /\ \A b \in ToSet(cl) : <<c, b>> \in Pairs(c, cl)
  <2>1. \A p \in L2 : p[1] # e /\ p[1] # c
    BY <1>5, <1>6, <1>8
  <2>2. QED
    BY <2>1 DEF Pairs
<1>11. Closing(OpenL, L1, e, bl)
  BY <1>3, <1>6, <1>9, <1>10 DEF Closing
<1>12. Closing(L1, L2, c, cl)
  BY <1>3, <1>9, <1>10 DEF Closing
<1>13. \A b \in ToSet(bl) \cup ToSet(cl) : b \in 1 .. Len(blocks)
  <2>1. \A p \in OpenL : p[2] \in 1 .. Len(blocks)
    BY <1>1 DEF Graph, WaitsLoop
  <2>2. ASSUME NEW b \in ToSet(bl) PROVE b \in 1 .. Len(blocks)
    <3>1. <<e, b>> \in OpenL
      BY <1>9, <1>10
    <3>2. <<e, b>>[2] = b
      OBVIOUS
    <3>3. QED
      BY <2>1, <3>1, <3>2
  <2>3. ASSUME NEW b \in ToSet(cl) PROVE b \in 1 .. Len(blocks)
    <3>1. <<c, b>> \in OpenL
      BY <1>9, <1>10
    <3>2. <<c, b>>[2] = b
      OBVIOUS
    <3>3. QED
      BY <2>1, <3>1, <3>2
  <2>4. QED
    BY <2>2, <2>3
<1>14. QED
  BY <1>7, <1>11, <1>12, <1>13 DEF L1, L2, e, c, bl, cl

(* The blocks the end of a loop wires.                                     *)
LEMMA LoopEndFacts ==
  ASSUME KInv, WhileEnd
  PROVE  /\ Top.check \in 1 .. Len(blocks) /\ Top.check < cur /\ Top.check \in Waits(Top)
         /\ cur = Len(blocks) /\ Len(blocks) \in Nat /\ cur \in 1 .. Len(blocks)
         /\ Leaves(blocks, cur)
         /\ Top.const \/ Top.cond # "none" => ~Closed(blocks, Top.check)
         /\ HasRoleIn(blocks, CheckLabel, Role(Top.node, "check"))
         /\ HasRoleIn(blocks, BodyLabel, Role(Top.node, "body"))
         /\ Want = WantOf(Top)
         /\ WantOf(Top).t = Role(Top.node, "body") /\ WantOf(Top).f = Role(Top.node, "end")
<1>1. TInv
  BY KeptFacts
<1>2. /\ frames # <<>> /\ Top.kind = "while" /\ Top.phase = "body" /\ pc = "stmtret"
      /\ Top.check \in 1 .. Len(blocks) /\ Top.body \in 1 .. Len(blocks)
  BY <1>1, LoopEndTypes
<1>3. /\ cur \in Nat /\ cur = Len(blocks) /\ CurOpen /\ cur \in 1 .. Len(blocks)
      /\ Len(blocks) \in Nat
  BY KeptFacts
<1>4. /\ Top \in FrameSet /\ FrameShape(Top, blocks) /\ \A b \in Behind(Top) : b < Len(blocks)
  BY <1>2, TopFacts DEF TopShape
<1>5. /\ Waits(Top) = {Top.check} /\ Behind(Top) = {Top.check}
      /\ Pending(Top) = IF Top.const \/ Top.cond # "none" THEN {Top.check} ELSE {}
  BY <1>2, <1>4, FrameBlocks
<1>6. /\ blocks[Top.check].role = Role(Top.node, "check")
      /\ blocks[Top.body].role = Role(Top.node, "body")
      /\ \A b \in Pending(Top) : ~Closed(blocks, b)
  BY <1>2, <1>4 DEF FrameShape
<1>7. /\ HasRoleIn(blocks, CheckLabel, Role(Top.node, "check"))
      /\ HasRoleIn(blocks, BodyLabel, Role(Top.node, "body"))
  BY <1>2, <1>6 DEF HasRoleIn, CheckLabel, BodyLabel
<1>8. Want = WantOf(Top)
  BY <1>2, WantIsWantOf
<1>9. WantOf(Top).t = Role(Top.node, "body") /\ WantOf(Top).f = Role(Top.node, "end")
  BY <1>2 DEF WantOf
<1>10. Leaves(blocks, cur)
  BY <1>2, <1>3 DEF CurOpen
<1>11. QED
  BY <1>2, <1>3, <1>4, <1>5, <1>6, <1>7, <1>8, <1>9, <1>10

(* The back edge of a loop, its end block and its test.                    *)
LEMMA LoopEndWired ==
  ASSUME KInv, WhileEnd, NEW S0, S0 = {cur}, NEW S1, S1 = {cur, Top.check}
  PROVE  /\ Wired(WithEnd, Retested, S1, tmp_id + 1, OpenT, OpenF, OpenL)
         /\ Changes(blocks, WithEnd, S0) /\ Len(WithEnd) = New /\ ~Closed(WithEnd, New)
         /\ HasRoleIn(WithEnd, CheckLabel, Role(Top.node, "check"))
         /\ HasRoleIn(WithEnd, BodyLabel, Role(Top.node, "body"))
         /\ HasRoleIn(WithEnd, tmp_id, Role(Top.node, "end"))
<1> DEFINE E == {}
           rc == Role(Top.node, "check")
           rb == Role(Top.node, "body")
           re == Role(Top.node, "end")
           n  == tmp_id + 1
<1>1. /\ blocks \in Seq(BlockSet) /\ tmp_id \in Nat /\ New = Len(blocks) + 1 /\ TInv
      /\ Graph(blocks, tmp_id, OpenT, OpenF, OpenL)
  BY KeptFacts
<1>2. /\ Want \in WantSet /\ Top.const \in BOOLEAN
      /\ rc \in RoleSet /\ To(rc) \in WantSet /\ rb \in RoleSet /\ To(rb) \in WantSet
      /\ re \in RoleSet /\ To(re) \in WantSet
      /\ CheckLabel \in LabelSet /\ BodyLabel \in LabelSet /\ tmp_id \in LabelSet
  BY <1>1, LoopEndTypes
<1>3. /\ Top.check \in 1 .. Len(blocks) /\ Top.check < cur
      /\ cur \in 1 .. Len(blocks) /\ Len(blocks) \in Nat /\ cur = Len(blocks)
      /\ Leaves(blocks, cur)
      /\ Top.const \/ Top.cond # "none" => ~Closed(blocks, Top.check)
      /\ HasRoleIn(blocks, CheckLabel, rc) /\ HasRoleIn(blocks, BodyLabel, rb)
      /\ Want.t = rb /\ Want.f = re
  BY LoopEndFacts
<1>4. /\ E \subseteq S0 /\ cur \in S0 /\ cur \notin E /\ E \subseteq S1 /\ S0 \subseteq S1
      /\ Top.check \in S1 /\ Top.check \notin S0 /\ New \notin S0 /\ S0 \cup E = S0
      /\ Top.check \notin E
  BY <1>1, <1>3
<1> HIDE DEF E, rc, rb, re, n
<1>5. Wired(blocks, blocks, E, tmp_id, OpenT, OpenF, OpenL)
  BY <1>1, WireStart
<1>6. Wired(blocks, Looped, S0, tmp_id, OpenT, OpenF, OpenL)
  BY <1>2, <1>3, <1>4, <1>5, WireJoin DEF Looped, rc
<1>7. Graph(Looped, tmp_id, OpenT, OpenF, OpenL) /\ Changes(blocks, Looped, S0)
  BY <1>6 DEF Wired
<1>8. Looped \in Seq(BlockSet) /\ Len(Looped) = Len(blocks)
  <2>1. /\ Grows(blocks, JumpUnlessRet(blocks, cur, CheckLabel, rc))
        /\ Len(JumpUnlessRet(blocks, cur, CheckLabel, rc)) = Len(blocks)
    BY <1>1, <1>2, <1>3, JumpUnlessRetGrows
  <2>2. Looped = JumpUnlessRet(blocks, cur, CheckLabel, rc)
    BY DEF Looped, rc
  <2>3. QED
    BY <2>1, <2>2 DEF Grows
<1>9. /\ Graph(WithEnd, n, OpenT, OpenF, OpenL) /\ Changes(Looped, WithEnd, E)
      /\ HasRoleIn(WithEnd, tmp_id, re)
      /\ Len(WithEnd) = New /\ ~Closed(WithEnd, New)
  BY <1>1, <1>2, <1>7, <1>8, GraphAddBlock DEF WithEnd, n, re, E
<1>10. Changes(blocks, WithEnd, S0)
  <2>1. Changes(blocks, WithEnd, S0 \cup E)
    BY <1>1, <1>7, <1>9, ChangesTransitive
  <2>2. QED
    BY <1>4, <2>1
<1>11. HasRoleIn(WithEnd, CheckLabel, rc) /\ HasRoleIn(WithEnd, BodyLabel, rb)
  <2>1. KeepsRoles(blocks, WithEnd)
    BY <1>10 DEF Changes
  <2>2. QED
    BY <1>1, <1>3, <2>1, RolesKept
<1>12. /\ Top.check \in 1 .. Len(WithEnd)
       /\ Top.const \/ Top.cond # "none" => ~Closed(WithEnd, Top.check)
  BY <1>1, <1>3, <1>4, <1>9, <1>10 DEF Changes
<1>13. Wired(WithEnd, WithEnd, E, n, OpenT, OpenF, OpenL)
  BY <1>9, WireStart
<1>14. Wired(WithEnd, Retested, S1, n, OpenT, OpenF, OpenL)
  <2>1. CASE Top.const
    <3>1. ~Closed(WithEnd, Top.check)
      BY <1>12, <2>1
    <3>2. Wired(WithEnd, AddInst(WithEnd, Top.check, BrInst(BodyLabel, To(rb))), S1, n,
                OpenT, OpenF, OpenL)
      BY <1>2, <1>4, <1>11, <1>12, <1>13, <3>1, WireBr
    <3>3. QED
      BY <2>1, <3>2 DEF Retested, AddInst, rb
  <2>2. CASE ~Top.const /\ Top.cond # "none"
    <3>1. ~Closed(WithEnd, Top.check)
      BY <1>12, <2>2
    <3>2. HasRoleIn(WithEnd, BodyLabel, Want.t) /\ HasRoleIn(WithEnd, tmp_id, Want.f)
      BY <1>3, <1>9, <1>11
    <3>3. Wired(WithEnd, AddInst(WithEnd, Top.check, CondBr(BodyLabel, tmp_id, Want)), S1, n,
                OpenT, OpenF, OpenL)
      BY <1>2, <1>4, <1>12, <1>13, <3>1, <3>2, WireTest
    <3>4. QED
      BY <2>2, <3>3 DEF Retested, AddInst
  <2>3. CASE ~Top.const /\ Top.cond = "none"
    <3>1. Retested = WithEnd
      BY <2>3 DEF Retested
    <3>2. Changes(WithEnd, WithEnd, E) /\ WithEnd \in Seq(BlockSet)
      BY <1>13 DEF Wired
    <3>3. Changes(WithEnd, WithEnd, S1)
      BY <1>4, <3>2, ChangesMore
    <3>4. QED
      BY <1>9, <3>1, <3>2, <3>3 DEF Wired
  <2>4. QED
    BY <2>1, <2>2, <2>3
<1>15. QED
  BY <1>9, <1>10, <1>11, <1>14 DEF n, rc, rb, re

(* The end of a loop.                                                      *)
LEMMA WhileEndKept ==
  ASSUME KInv, WhileEnd
  PROVE  Kept' /\ ResolvedStay
<1> DEFINE G  == Front(frames)
           lt == Last(true_stack)
           lf == Last(false_stack)
           bl == Last(break_stack)
           cl == Last(continue_stack)
           T2 == TrueOpen(G, Front(true_stack))
           F2 == FalseOpen(G, Front(false_stack))
           L2 == LoopOpen(G, Front(break_stack), Front(continue_stack))
           L1 == L2 \cup Pairs(Role(Top.node, "check"), cl)
           S0 == {cur}
           S1 == {cur, Top.check}
           S2 == {cur, Top.check} \cup ToSet(bl)
           S3 == {cur, Top.check} \cup (ToSet(bl) \cup ToSet(cl))
           n  == tmp_id + 1
<1>1. /\ true_stack' = Front(true_stack) /\ false_stack' = Front(false_stack)
      /\ break_stack' = Front(break_stack) /\ continue_stack' = Front(continue_stack)
      /\ cur' = New /\ nodes' = nodes /\ tmp_id' = n
  BY DEF WhileEnd
<1>2. New = Len(blocks) + 1 /\ TInv /\ cur \in Nat
  BY KeptFacts
<1>3. /\ frames # <<>> /\ Top.kind = "while" /\ Top.kind # "seq"
      /\ pc' = "stmtret" /\ frames' = G
      /\ CheckLabel \in LabelSet /\ BodyLabel \in LabelSet /\ tmp_id \in LabelSet
      /\ blocks' = SetFalse(SetTrue(Continued, lt, BodyLabel), lf, tmp_id)
  BY <1>2, LoopEndTypes
<1>4. /\ Top.check \in 1 .. Len(blocks) /\ Top.check < cur /\ Top.check \in Waits(Top)
      /\ cur = Len(blocks) /\ Len(blocks) \in Nat
      /\ WantOf(Top).t = Role(Top.node, "body") /\ WantOf(Top).f = Role(Top.node, "end")
  BY LoopEndFacts
<1>5. /\ Wired(WithEnd, Retested, S1, n, OpenT, OpenF, OpenL)
      /\ Changes(blocks, WithEnd, S0) /\ Len(WithEnd) = New /\ ~Closed(WithEnd, New)
      /\ HasRoleIn(WithEnd, CheckLabel, Role(Top.node, "check"))
      /\ HasRoleIn(WithEnd, BodyLabel, Role(Top.node, "body"))
      /\ HasRoleIn(WithEnd, tmp_id, Role(Top.node, "end"))
  BY LoopEndWired
<1>6. /\ Closing(OpenT, T2, WantOf(Top).t, lt) /\ Closing(OpenF, F2, WantOf(Top).f, lf)
  BY <1>3, TopCloses
<1>7. /\ Closing(OpenL, L1, Role(Top.node, "end"), bl)
      /\ Closing(L1, L2, Role(Top.node, "check"), cl)
      /\ \A b \in ToSet(bl) \cup ToSet(cl) : Top.check <= b /\ b \in 1 .. Len(blocks)
  BY <1>3, LoopCloses
<1>8. AllSettled(G, Front(true_stack)) /\ AllSettled(G, Front(false_stack))
  BY <1>3, TopLists
<1>9. \A x \in S3 : x \in Int /\ x # New /\ (cur <= x \/ \E c \in Waits(Top) : c <= x)
  <2>1. ASSUME NEW x \in S3
        PROVE  x \in Int /\ x # New /\ (cur <= x \/ \E c \in Waits(Top) : c <= x)
    <3>1. CASE x = cur
      BY <1>2, <1>4, <3>1
    <3>2. CASE x = Top.check
      BY <1>2, <1>4, <3>2
    <3>3. CASE x \in ToSet(bl) \cup ToSet(cl)
      BY <1>2, <1>4, <1>7, <3>3
    <3>4. QED
      BY <3>1, <3>2, <3>3
  <2>2. QED
    BY <2>1
<1>10. Clear(G, S3)
  BY <1>3, <1>9, ClearTop
<1>11. /\ S0 \subseteq S3 /\ S1 \subseteq S2 /\ S2 \subseteq S3
       /\ ToSet(bl) \subseteq S2 /\ ToSet(cl) \subseteq S3
  OBVIOUS
<1> HIDE DEF S0, S1, S2, S3, T2, F2, L2, L1, n, bl, cl, lt, lf
<1>12. Wired(WithEnd, Broken, S2, n, OpenT, OpenF, L1)
  BY <1>3, <1>5, <1>7, <1>11, WireClose DEF Broken, bl
<1>13. Wired(WithEnd, Continued, S3, n, OpenT, OpenF, L2)
  BY <1>3, <1>5, <1>7, <1>11, <1>12, WireClose DEF Continued, cl
<1>14. Wired(WithEnd, SetTrue(Continued, lt, BodyLabel), S3, n, T2, OpenF, L2)
  BY <1>3, <1>4, <1>5, <1>6, <1>13, WirePatch
<1>15. Wired(WithEnd, blocks', S3, n, T2, F2, L2)
  <2>1. Wired(WithEnd, SetFalse(SetTrue(Continued, lt, BodyLabel), lf, tmp_id), S3, n, T2, F2, L2)
    BY <1>3, <1>4, <1>5, <1>6, <1>14, WirePatch
  <2>2. QED
    BY <1>3, <2>1
<1>16. /\ Changes(blocks, blocks', S3) /\ Graph(blocks', n, T2, F2, L2)
       /\ ~Closed(blocks', New)
  BY <1>5, <1>9, <1>11, <1>15, WireReturn
<1>17. ~HasValue' /\ CurOpen'
  BY <1>1, <1>3, <1>16 DEF HasValue, CurOpen, Leaves
<1>18. Graph(blocks', tmp_id', TrueOpen(Front(frames), true_stack'),
             FalseOpen(Front(frames), false_stack'),
             LoopOpen(Front(frames), break_stack', continue_stack'))
  BY <1>1, <1>16 DEF T2, F2, L2
<1>19. AllSettled(Front(frames), true_stack') /\ AllSettled(Front(frames), false_stack')
  BY <1>1, <1>8
<1>20. QED
  BY <1>1, <1>3, <1>10, <1>16, <1>17, <1>18, <1>19, ReturnFrames

(* One side of a branch finds its target, or waits for it.                 *)
Side(bs, x, l, r, T, T2) ==
  \/ T2 = T /\ HasRoleIn(bs, l, r)
  \/ T2 = T \cup {<<r, x>>} /\ Unresolved(bs, l, r)

(* A chain goes on with a conditional jump of which each side goes to a    *)
(* label or is left open.                                                  *)
LEMMA WireSides ==
  ASSUME NEW b0, NEW bs, NEW S, NEW n, NEW T, NEW F, NEW L, NEW x, NEW l, NEW w,
         NEW S2, NEW T2, NEW F2,
         Wired(b0, bs, S, n, T, F, L), S \subseteq S2, x \in S2, x \notin S,
         x \in 1 .. Len(b0), ~Closed(b0, x), l \in LabelSet, w \in WantSet,
         Side(b0, x, l, w.t, T, T2), Side(b0, x, l, w.f, F, F2)
  PROVE  Wired(b0, AddInst(bs, x, CondBr(l, l, w)), S2, n, T2, F2, L)
<1> DEFINE j == CondBr(l, l, w)
<1>1. j \in InstSet /\ j.op = "cbr" /\ j.t = l /\ j.f = l /\ j.want = w
  BY InstType DEF CondBr, Inst
<1>2. IsTerminateInst(j) /\ IsBr(j)
  BY <1>1 DEF IsTerminateInst, IsBr
<1>3. \A a, r : /\ HasRoleIn(b0, a, r) => HasRoleIn(bs, a, r)
                /\ Unresolved(b0, a, r) => Unresolved(bs, a, r)
  BY WireFacts
<1> HIDE DEF j
<1>4. Side(bs, x, l, w.t, T, T2) /\ Side(bs, x, l, w.f, F, F2)
  BY <1>3 DEF Side
<1>5. Awaited(bs, x, j, T, F, L, T2, F2, L)
  BY <1>1, <1>2, <1>4 DEF Awaited, Side
<1>6. Wired(b0, AddInst(bs, x, j), S2, n, T2, F2, L)
  BY <1>1, <1>2, <1>5, WireJump
<1>7. QED
  BY <1>6 DEF j

(* What linking the left operand of an operator leaves open.               *)
LinkOpen(f, T, F, T2, F2) ==
  CASE f.cond # "none" /\ f.op = "and" -> T2 = T /\ F2 = F \cup {<<f.want.f, f.lhs>>}
    [] f.cond # "none" /\ f.op = "or"  -> F2 = F /\ T2 = T \cup {<<f.want.t, f.lhs>>}
    [] f.cond = "none" /\ f.op = "and" ->
         F2 = F /\ Closing(T, T2, Role(f.node, "rhs"), f.lhs_true)
    [] OTHER -> T2 = T /\ Closing(F, F2, Role(f.node, "rhs"), f.lhs_false)

(* An operator that awaits its right operand: the block of the operand is  *)
(* the target of the left one, and not yet that of what leaves.            *)
Linked(f, bs, l) ==
  /\ f.kind = "cond" /\ f.op \in {"and", "or"} /\ f.want \in WantSet /\ LhsWant(f) \in WantSet
  /\ f.lhs \in 1 .. Len(bs) /\ f.rhs \in 1 .. Len(bs) /\ l \in LabelSet
  /\ f.cond # "none" => ~Closed(bs, f.lhs)
  /\ HasRoleIn(bs, l, Role(f.node, "rhs"))
  /\ Unresolved(bs, l, f.want.t) /\ Unresolved(bs, l, f.want.f)

(* The jump after the left operand of && or ||,                            *)
LEMMA LinkLhsWired ==
  ASSUME NEW b0, NEW bs, NEW S, NEW n, NEW T, NEW F, NEW L, NEW f, NEW l,
         NEW S2, NEW T2, NEW F2, Wired(b0, bs, S, n, T, F, L), Linked(f, b0, l),
         S \subseteq S2, f.lhs \in S2, f.lhs \notin S, LinkOpen(f, T, F, T2, F2)
  PROVE  Wired(b0, LinkLhs(bs, f, l), S2, n, T2, F2, L)
<1>1. /\ f.op \in {"and", "or"} /\ f.lhs \in 1 .. Len(b0) /\ l \in LabelSet
      /\ LhsWant(f) \in WantSet /\ HasRoleIn(b0, l, Role(f.node, "rhs"))
      /\ Unresolved(b0, l, f.want.t) /\ Unresolved(b0, l, f.want.f)
      /\ f.cond # "none" => ~Closed(b0, f.lhs)
  BY DEF Linked
<1>2. /\ f.op = "and" => LhsWant(f).t = Role(f.node, "rhs") /\ LhsWant(f).f = f.want.f
      /\ f.op = "or" => LhsWant(f).f = Role(f.node, "rhs") /\ LhsWant(f).t = f.want.t
  BY DEF LhsWant
<1>3. b0 \in Seq(BlockSet) /\ Changes(b0, bs, S) /\ Graph(bs, n, T, F, L)
  BY DEF Wired
<1>4. CASE f.cond # "none"
  <2>1. Side(b0, f.lhs, l, LhsWant(f).t, T, T2) /\ Side(b0, f.lhs, l, LhsWant(f).f, F, F2)
    <3>1. CASE f.op = "and"
      <4>1. T2 = T /\ F2 = F \cup {<<f.want.f, f.lhs>>}
        BY <1>4, <3>1 DEF LinkOpen
      <4>2. QED
        BY <1>1, <1>2, <3>1, <4>1 DEF Side
    <3>2. CASE f.op = "or"
      <4>1. F2 = F /\ T2 = T \cup {<<f.want.t, f.lhs>>}
        BY <1>4, <3>2 DEF LinkOpen
      <4>2. QED
        BY <1>1, <1>2, <3>2, <4>1 DEF Side
    <3>3. QED
      BY <1>1, <3>1, <3>2
  <2>2. ~Closed(b0, f.lhs)
    BY <1>1, <1>4
  <2>3. Wired(b0, AddInst(bs, f.lhs, CondBr(l, l, LhsWant(f))), S2, n, T2, F2, L)
    BY <1>1, <2>1, <2>2, WireSides
  <2>4. LinkLhs(bs, f, l) = AddInst(bs, f.lhs, CondBr(l, l, LhsWant(f)))
    BY <1>4 DEF LinkLhs, AddInst
  <2>5. QED
    BY <2>3, <2>4
<1>5. CASE f.cond = "none"
  <2>1. Wired(b0, LinkLhs(bs, f, l), S, n, T2, F2, L)
    <3>1. CASE f.op = "and"
      <4>1. F2 = F /\ Closing(T, T2, Role(f.node, "rhs"), f.lhs_true)
        BY <1>5, <3>1 DEF LinkOpen
      <4>2. Wired(b0, SetTrue(bs, f.lhs_true, l), S, n, T2, F, L)
        BY <1>1, <4>1, WirePatch
      <4>3. QED
        BY <1>5, <3>1, <4>1, <4>2 DEF LinkLhs
    <3>2. CASE f.op = "or"
      <4>1. T2 = T /\ Closing(F, F2, Role(f.node, "rhs"), f.lhs_false)
        BY <1>5, <3>2 DEF LinkOpen
      <4>2. Wired(b0, SetFalse(bs, f.lhs_false, l), S, n, T, F2, L)
        BY <1>1, <4>1, WirePatch
      <4>3. QED
        BY <1>5, <3>2, <4>1, <4>2 DEF LinkLhs
    <3>3. QED
      BY <1>1, <3>1, <3>2
  <2>2. Changes(b0, LinkLhs(bs, f, l), S2)
    BY <2>1, ChangesMore DEF Wired
  <2>3. QED
    BY <2>1, <2>2 DEF Wired
<1>6. QED
  BY <1>4, <1>5

(* ... and the right operand.                                              *)
LEMMA LinkRhsWired ==
  ASSUME NEW b0, NEW bs, NEW S, NEW n, NEW T, NEW F, NEW L, NEW f, NEW l, NEW v,
         NEW S2, NEW T2, NEW F2, Wired(b0, bs, S, n, T, F, L), Linked(f, b0, l),
         S \subseteq S2, f.rhs \in S2, f.rhs \notin S,
         v # "none" => /\ ~Closed(b0, f.rhs)
                       /\ T2 = T \cup {<<f.want.t, f.rhs>>}
                       /\ F2 = F \cup {<<f.want.f, f.rhs>>},
         v = "none" => T2 = T /\ F2 = F
  PROVE  Wired(b0, LinkRhs(bs, f, v, l), S2, n, T2, F2, L)
<1>1. /\ f.rhs \in 1 .. Len(b0) /\ l \in LabelSet /\ f.want \in WantSet
      /\ Unresolved(b0, l, f.want.t) /\ Unresolved(b0, l, f.want.f)
  BY DEF Linked
<1>2. CASE v # "none"
  <2>1. Side(b0, f.rhs, l, f.want.t, T, T2) /\ Side(b0, f.rhs, l, f.want.f, F, F2)
    BY <1>1, <1>2 DEF Side
  <2>2. ~Closed(b0, f.rhs)
    BY <1>2
  <2>3. Wired(b0, AddInst(bs, f.rhs, CondBr(l, l, f.want)), S2, n, T2, F2, L)
    BY <1>1, <2>1, <2>2, WireSides
  <2>4. QED
    BY <1>2, <2>3 DEF LinkRhs, AddInst
<1>3. CASE v = "none"
  <2>1. LinkRhs(bs, f, v, l) = bs /\ T2 = T /\ F2 = F
    BY <1>3 DEF LinkRhs
  <2>2. Changes(b0, bs, S2)
    BY ChangesMore DEF Wired
  <2>3. QED
    BY <2>1, <2>2 DEF Wired
<1>4. QED
  BY <1>2, <1>3

(* What is open around an operator, after its left operand is linked, and  *)
(* after its right one.                                                    *)
AroundT == TrueOpen(Front(frames), Front(true_stack))
AroundF == FalseOpen(Front(frames), Front(false_stack))
LhsT == AroundT \cup (Pairs(Top.want.t, Last(true_stack))
                        \cup Pairs(Top.want.t, LhsTrueLeaving(Top)))
LhsF == AroundF \cup (Pairs(Top.want.f, Last(false_stack))
                        \cup Pairs(Top.want.f, LhsFalseLeaving(Top)))
LeavingT == LhsTrueLeaving(Top) \o RhsLeaving(Top, val, Last(true_stack))
LeavingF == LhsFalseLeaving(Top) \o RhsLeaving(Top, val, Last(false_stack))
RhsT == AroundT \cup Pairs(Top.want.t, LeavingT)
RhsF == AroundF \cup Pairs(Top.want.f, LeavingF)

(* The operator that ends, its operands, and the frame it returns to.      *)
LEMMA CondEndFacts ==
  ASSUME KInv, CondEnd
  PROVE  /\ frames # <<>> /\ Top.kind = "cond" /\ Top.phase = "rhs" /\ Top \in FrameSet
         /\ pc = "exprret" /\ Asked(Top) = Top.rhs
         /\ Top.node \in Nat /\ Top.op \in {"and", "or"}
         /\ Top.want \in WantSet /\ LhsWant(Top) \in WantSet
         /\ Top.want.t[1] < Top.node /\ Top.want.f[1] < Top.node
         /\ Top.want.t[1] \in Nat /\ Top.want.f[1] \in Nat
         /\ Top.bb \in 1 .. Len(blocks) /\ Top.lhs \in 1 .. Len(blocks)
         /\ Top.rhs \in 1 .. Len(blocks) /\ Top.bb < Top.lhs /\ Top.lhs < Top.rhs
         /\ blocks[Top.lhs].role = Role(Top.node, "lhs")
         /\ blocks[Top.rhs].role = Role(Top.node, "rhs")
         /\ ~Closed(blocks, Top.bb) /\ (Top.cond # "none" => ~Closed(blocks, Top.lhs))
         /\ Waits(Top) = {Top.bb, Top.lhs, Top.rhs}
         /\ Top.lhs_true \in Seq(Nat) /\ Top.lhs_false \in Seq(Nat)
<1> DEFINE f == Top
<1>1. frames # <<>> /\ f.kind = "cond" /\ f.phase = "rhs" /\ pc = "exprret"
  BY DEF CondEnd, At
<1>2. /\ f \in FrameSet /\ FrameShape(f, blocks) /\ FrameOK(f, blocks)
  BY <1>1, TopFacts
<1>3. /\ f.node \in Nat /\ f.op \in {"and", "or"} /\ f.want \in WantSet
      /\ f.lhs_true \in Seq(Nat) /\ f.lhs_false \in Seq(Nat)
  BY <1>1, <1>2, FrameFields
<1>4. LhsWant(f) \in WantSet
  BY <1>1, <1>2, WantRoles
<1>5. /\ Waits(f) = {f.bb, f.lhs, f.rhs}
      /\ Pending(f) = IF f.cond # "none" THEN {f.bb, f.lhs} ELSE {f.bb}
  BY <1>1, <1>2, FrameBlocks
<1>6. f.want.t[1] \in Nat /\ f.want.f[1] \in Nat
  BY <1>3 DEF WantSet, RoleSet
<1>7. /\ f.want.t[1] < f.node /\ f.want.f[1] < f.node /\ f.bb < f.lhs /\ f.lhs < f.rhs
      /\ blocks[f.lhs].role = Role(f.node, "lhs") /\ blocks[f.rhs].role = Role(f.node, "rhs")
      /\ \A b \in Pending(f) : ~Closed(blocks, b)
  BY <1>1, <1>2 DEF FrameShape
<1>8. f.bb \in 1 .. Len(blocks) /\ f.lhs \in 1 .. Len(blocks) /\ f.rhs \in 1 .. Len(blocks)
  BY <1>1, <1>2 DEF FrameOK
<1>9. Asked(f) = f.rhs
  BY <1>1 DEF Asked
<1>10. QED
  BY <1>1, <1>2, <1>3, <1>4, <1>5, <1>6, <1>7, <1>8, <1>9

(* Linking the operands moves what they left open to the lists around.     *)
LEMMA OperatorOpen ==
  ASSUME KInv, CondEnd
  PROVE  /\ LinkOpen(Top, OpenT, OpenF, LhsT, LhsF)
         /\ val # "none" => /\ RhsT = LhsT \cup {<<Top.want.t, Top.rhs>>}
                            /\ RhsF = LhsF \cup {<<Top.want.f, Top.rhs>>}
         /\ val = "none" => RhsT = LhsT /\ RhsF = LhsF
         /\ LeavingT \in Seq(Nat) /\ LeavingF \in Seq(Nat)
<1> DEFINE f == Top
           lt == Last(true_stack)
           lf == Last(false_stack)
           r == Role(f.node, "rhs")
<1>1. /\ frames # <<>> /\ f.kind = "cond" /\ f.phase = "rhs" /\ pc = "exprret"
      /\ f.node \in Nat /\ f.op \in {"and", "or"}
      /\ f.want.t[1] < f.node /\ f.want.f[1] < f.node
      /\ f.want.t[1] \in Nat /\ f.want.f[1] \in Nat
      /\ f.lhs_true \in Seq(Nat) /\ f.lhs_false \in Seq(Nat)
      /\ f.lhs \in Nat /\ f.rhs \in Nat
  BY CondEndFacts
<1>2. /\ lt \in Seq(Nat) /\ lf \in Seq(Nat) /\ Settled(f, lt)
      /\ OpenT = AroundT \cup TrueOf(f, lt) /\ OpenF = AroundF \cup FalseOf(f, lf)
  BY <1>1, TopLists DEF AroundT, AroundF
<1>3. val # "none" => lt = <<>> /\ lf = <<>>
  BY <1>1, IcmpKept
<1>4. f.cond # "none" => f.lhs_true = <<>> /\ f.lhs_false = <<>>
  BY <1>1, <1>2 DEF Settled
<1>5. /\ OpenT = AroundT \cup (Pairs(f.want.t, lt) \cup Pairs(LhsWant(f).t, f.lhs_true))
      /\ OpenF = AroundF \cup (Pairs(f.want.f, lf) \cup Pairs(LhsWant(f).f, f.lhs_false))
  BY <1>1, <1>2 DEF TrueOf, FalseOf, WantOf
<1>6. /\ f.op = "and" => LhsWant(f).t = r /\ LhsWant(f).f = f.want.f
      /\ f.op = "or" => LhsWant(f).f = r /\ LhsWant(f).t = f.want.t
  BY DEF LhsWant
<1>7. /\ f.op = "and" => LhsTrueLeaving(f) = <<>>
      /\ f.op = "or" => LhsFalseLeaving(f) = <<>>
      /\ f.op = "or" /\ f.cond = "none" => LhsTrueLeaving(f) = f.lhs_true
      /\ f.op = "and" /\ f.cond = "none" => LhsFalseLeaving(f) = f.lhs_false
      /\ f.op = "or" /\ f.cond # "none" => LhsTrueLeaving(f) = <<f.lhs>>
      /\ f.op = "and" /\ f.cond # "none" => LhsFalseLeaving(f) = <<f.lhs>>
  BY DEF LhsTrueLeaving, LhsFalseLeaving
<1>8. \A q : Pairs(q, <<>>) = {} /\ \A b : Pairs(q, <<b>>) = {<<q, b>>}
  BY PairsSmall
<1>9. /\ \A p \in AroundT : p[1] # r
      /\ \A p \in AroundF : p[1] # r
      /\ f.want.t # r /\ f.want.f # r
  <2>1. /\ Front(frames) \in Seq(FrameSet) /\ f \in FrameSet
        /\ FramesShape(Front(frames), blocks, nodes)
        /\ TopShape(Front(frames), f, blocks, nodes)
    BY <1>1, TopFacts
  <2>2. /\ \A p \in AroundT : p[1][1] < f.node
        /\ \A p \in AroundF : p[1][1] < f.node
    BY <1>1, <2>1, RolesBelow DEF AroundT, AroundF
  <2>3. r[1] = f.node
    BY DEF Role
  <2>4. QED
    BY <1>1, <2>2, <2>3
<1>10. \A q, l : /\ \A p \in Pairs(q, l) : p[1] = q /\ p[2] \in ToSet(l)
                 /\ \A b \in ToSet(l) : <<q, b>> \in Pairs(q, l)
  BY DEF Pairs
<1>11. LhsTrueLeaving(f) \in Seq(Nat) /\ LhsFalseLeaving(f) \in Seq(Nat)
  BY <1>1 DEF LhsTrueLeaving, LhsFalseLeaving
<1>12. /\ val = "none" => /\ RhsLeaving(f, val, lt) = lt
                          /\ RhsLeaving(f, val, lf) = lf
       /\ val # "none" => /\ RhsLeaving(f, val, lt) = <<f.rhs>>
                          /\ RhsLeaving(f, val, lf) = <<f.rhs>>
  BY DEF RhsLeaving
<1>13. RhsLeaving(f, val, lt) \in Seq(Nat) /\ RhsLeaving(f, val, lf) \in Seq(Nat)
  <2>1. <<f.rhs>> \in Seq(Nat)
    BY <1>1
  <2>2. CASE val = "none"
    BY <1>2, <1>12, <2>2
  <2>3. CASE val # "none"
    BY <1>12, <2>1, <2>3, Zenon
  <2>4. QED
    BY <2>2, <2>3
<1>14. /\ LhsT = AroundT \cup (Pairs(f.want.t, lt) \cup Pairs(f.want.t, LhsTrueLeaving(f)))
       /\ LhsF = AroundF \cup (Pairs(f.want.f, lf) \cup Pairs(f.want.f, LhsFalseLeaving(f)))
       /\ LeavingT = LhsTrueLeaving(f) \o RhsLeaving(f, val, lt)
       /\ LeavingF = LhsFalseLeaving(f) \o RhsLeaving(f, val, lf)
  BY DEF LhsT, LhsF, LeavingT, LeavingF
<1> HIDE DEF lt, lf, r
<1>15. LinkOpen(f, OpenT, OpenF, LhsT, LhsF)
  <2>1. CASE f.cond # "none" /\ f.op = "and"
    <3>1. LhsT = OpenT
      BY <1>4, <1>5, <1>7, <1>8, <1>14, <2>1
    <3>2. LhsF = OpenF \cup {<<f.want.f, f.lhs>>}
      BY <1>4, <1>5, <1>7, <1>8, <1>14, <2>1
    <3>3. QED
      BY <2>1, <3>1, <3>2 DEF LinkOpen
  <2>2. CASE f.cond # "none" /\ f.op = "or"
    <3>1. LhsF = OpenF
      BY <1>4, <1>5, <1>7, <1>8, <1>14, <2>2
    <3>2. LhsT = OpenT \cup {<<f.want.t, f.lhs>>}
      BY <1>4, <1>5, <1>7, <1>8, <1>14, <2>2
    <3>3. QED
      BY <2>2, <3>1, <3>2 DEF LinkOpen
  <2>3. CASE f.cond = "none" /\ f.op = "and"
    <3>1. LhsF = OpenF
      BY <1>5, <1>6, <1>7, <1>14, <2>3
    <3>2. LhsT = AroundT \cup Pairs(f.want.t, lt)
      BY <1>7, <1>8, <1>14, <2>3
    <3>3. OpenT = LhsT \cup Pairs(r, f.lhs_true)
      BY <1>5, <1>6, <2>3, <3>2
    <3>4. \A p \in LhsT : p[1] # r
      BY <1>9, <1>10, <3>2
    <3>5. Closing(OpenT, LhsT, r, f.lhs_true)
      BY <1>1, <1>10, <3>3, <3>4 DEF Closing
    <3>6. QED
      BY <2>3, <3>1, <3>5 DEF LinkOpen, r
  <2>4. CASE f.cond = "none" /\ f.op = "or"
    <3>1. LhsT = OpenT
      BY <1>5, <1>6, <1>7, <1>14, <2>4
    <3>2. LhsF = AroundF \cup Pairs(f.want.f, lf)
      BY <1>7, <1>8, <1>14, <2>4
    <3>3. OpenF = LhsF \cup Pairs(r, f.lhs_false)
      BY <1>5, <1>6, <2>4, <3>2
    <3>4. \A p \in LhsF : p[1] # r
      BY <1>9, <1>10, <3>2
    <3>5. Closing(OpenF, LhsF, r, f.lhs_false)
      BY <1>1, <1>10, <3>3, <3>4 DEF Closing
    <3>6. QED
      BY <2>4, <3>1, <3>5 DEF LinkOpen, r
  <2>5. QED
    BY <1>1, <2>1, <2>2, <2>3, <2>4
<1>16. /\ Pairs(f.want.t, LeavingT)
            = Pairs(f.want.t, LhsTrueLeaving(f)) \cup Pairs(f.want.t, RhsLeaving(f, val, lt))
       /\ Pairs(f.want.f, LeavingF)
            = Pairs(f.want.f, LhsFalseLeaving(f)) \cup Pairs(f.want.f, RhsLeaving(f, val, lf))
  BY <1>11, <1>13, <1>14, PairsConcat
<1>17. /\ RhsT = AroundT \cup Pairs(f.want.t, LeavingT)
       /\ RhsF = AroundF \cup Pairs(f.want.f, LeavingF)
  BY DEF RhsT, RhsF
<1>18. val # "none" => /\ RhsT = LhsT \cup {<<f.want.t, f.rhs>>}
                       /\ RhsF = LhsF \cup {<<f.want.f, f.rhs>>}
  BY <1>3, <1>8, <1>12, <1>14, <1>16, <1>17
<1>19. val = "none" => RhsT = LhsT /\ RhsF = LhsF
  BY <1>12, <1>14, <1>16, <1>17
<1>20. LeavingT \in Seq(Nat) /\ LeavingF \in Seq(Nat)
  BY <1>11, <1>13, <1>14
<1>21. QED
  BY <1>15, <1>18, <1>19, <1>20

(* The jump into the operator and the links of its operands.               *)
LEMMA CondEndWired ==
  ASSUME KInv, CondEnd, NEW S, S = {Top.bb, Top.lhs, Top.rhs}
  PROVE  /\ Graph(blocks', AfterIcmp(val), RhsT, RhsF, OpenL) /\ Changes(blocks, blocks', S)
<1> DEFINE f == Top
           E == {}
           S1 == {f.bb}
           S2 == {f.bb, f.lhs}
           n == AfterIcmp(val)
           l == blocks[f.rhs].label
           k == blocks[f.lhs].label
           r == Role(f.node, "lhs")
           icmp == AddInsts(blocks, f.rhs, IcmpInsts(val))
           enter == AddInst(icmp, f.bb, BrInst(k, To(r)))
<1>1. blocks' = LinkRhs(LinkLhs(enter, f, l), f, val, l)
  BY DEF CondEnd, AddInst
<1>2. /\ frames # <<>> /\ f.kind = "cond" /\ pc = "exprret" /\ Asked(f) = f.rhs
      /\ f.node \in Nat /\ f.op \in {"and", "or"}
      /\ f.want \in WantSet /\ LhsWant(f) \in WantSet
      /\ f.want.t[1] < f.node /\ f.want.f[1] < f.node
      /\ f.want.t[1] \in Nat /\ f.want.f[1] \in Nat
      /\ f.bb \in 1 .. Len(blocks) /\ f.lhs \in 1 .. Len(blocks)
      /\ f.rhs \in 1 .. Len(blocks) /\ f.bb < f.lhs /\ f.lhs < f.rhs
      /\ blocks[f.lhs].role = Role(f.node, "lhs")
      /\ blocks[f.rhs].role = Role(f.node, "rhs")
      /\ ~Closed(blocks, f.bb) /\ (f.cond # "none" => ~Closed(blocks, f.lhs))
  BY CondEndFacts
<1>3. /\ LinkOpen(f, OpenT, OpenF, LhsT, LhsF)
      /\ val # "none" => /\ RhsT = LhsT \cup {<<f.want.t, f.rhs>>}
                         /\ RhsF = LhsF \cup {<<f.want.f, f.rhs>>}
      /\ val = "none" => RhsT = LhsT /\ RhsF = LhsF
  BY OperatorOpen
<1>4. blocks \in Seq(BlockSet) /\ Len(blocks) \in Nat
  BY KeptFacts
<1>5. l \in LabelSet /\ k \in LabelSet
  BY <1>2, <1>4, BlockType
<1>6. r \in RoleSet /\ To(r) \in WantSet
  BY <1>2, RoleType DEF Parts
<1>7. /\ Graph(icmp, n, OpenT, OpenF, OpenL) /\ Changes(blocks, icmp, E)
      /\ Len(icmp) = Len(blocks) /\ icmp \in Seq(BlockSet)
      /\ val # "none" => ~Closed(icmp, f.rhs)
  BY <1>2, IcmpKept
<1>8. /\ HasRoleIn(icmp, k, r) /\ HasRoleIn(icmp, l, Role(f.node, "rhs"))
      /\ Unresolved(icmp, l, f.want.t) /\ Unresolved(icmp, l, f.want.f)
  <2>1. /\ icmp[f.lhs].label = k /\ icmp[f.lhs].role = r
        /\ icmp[f.rhs].label = l /\ icmp[f.rhs].role = Role(f.node, "rhs")
    BY <1>2, <1>7 DEF Changes, KeepsRoles
  <2>2. Role(f.node, "rhs") # f.want.t /\ Role(f.node, "rhs") # f.want.f
    <3>1. Role(f.node, "rhs")[1] = f.node
      BY DEF Role
    <3>2. QED
      BY <1>2, <3>1
  <2> HIDE DEF icmp, l, k, r
  <2>3. QED
    BY <1>2, <1>7, <2>1, <2>2 DEF HasRoleIn, Unresolved
<1>9. ~Closed(icmp, f.bb) /\ (f.cond # "none" => ~Closed(icmp, f.lhs))
  BY <1>2, <1>7 DEF Changes
<1>10. Linked(f, icmp, l)
  BY <1>2, <1>5, <1>7, <1>8, <1>9 DEF Linked
<1>11. /\ E \subseteq S1 /\ S1 \subseteq S2 /\ S2 \subseteq S /\ E \cup S = S
       /\ f.bb \in S1 /\ f.bb \notin E /\ f.lhs \in S2 /\ f.lhs \notin S1
       /\ f.rhs \in S /\ f.rhs \notin S2 /\ f.bb \in 1 .. Len(icmp)
  BY <1>2, <1>4, <1>7
<1> HIDE DEF E, S1, S2, n, l, k, r, icmp
<1>12. Wired(icmp, icmp, E, n, OpenT, OpenF, OpenL)
  BY <1>7, WireStart
<1>13. Wired(icmp, enter, S1, n, OpenT, OpenF, OpenL)
  BY <1>5, <1>6, <1>8, <1>9, <1>11, <1>12, WireBr
<1> HIDE DEF enter
<1>14. Wired(icmp, LinkLhs(enter, f, l), S2, n, LhsT, LhsF, OpenL)
  BY <1>3, <1>10, <1>11, <1>13, LinkLhsWired
<1>15. Wired(icmp, LinkRhs(LinkLhs(enter, f, l), f, val, l), S, n, RhsT, RhsF, OpenL)
  BY <1>3, <1>7, <1>10, <1>11, <1>14, LinkRhsWired
<1>16. Graph(blocks', n, RhsT, RhsF, OpenL) /\ Changes(icmp, blocks', S)
  BY <1>1, <1>15 DEF Wired
<1>17. Changes(blocks, blocks', S)
  <2>1. Changes(blocks, blocks', E \cup S)
    BY <1>4, <1>7, <1>16, ChangesTransitive
  <2>2. QED
    BY <1>11, <2>1
<1>18. QED
  BY <1>16, <1>17 DEF n

(* The operator returns: what leaves it waits in the lists around it.      *)
LEMMA CondEndKept ==
  ASSUME KInv, CondEnd
  PROVE  Kept' /\ ResolvedStay
<1> DEFINE G == Front(frames)
           St == Front(true_stack)
           Sf == Front(false_stack)
           S == {Top.bb, Top.lhs, Top.rhs}
<1>1. /\ true_stack' = AddTop(St, LeavingT) /\ false_stack' = AddTop(Sf, LeavingF)
      /\ break_stack' = break_stack /\ continue_stack' = continue_stack
      /\ frames' = G /\ nodes' = nodes /\ tmp_id' = AfterIcmp(val)
      /\ pc' = "exprret" /\ val' = "none"
  BY DEF CondEnd, LeavingT, LeavingF
<1>2. /\ frames # <<>> /\ Top.kind = "cond" /\ Top.kind # "seq" /\ Top \in FrameSet
      /\ Waits(Top) = S /\ \A x \in S : x \in Int
  BY CondEndFacts
<1>3. /\ frames \in Seq(FrameSet) /\ Len(frames) \in Nat /\ FramesOK(blocks, frames)
      /\ Stacked(frames, break_stack, LoopKinds) /\ Stacked(frames, continue_stack, LoopKinds)
  BY KeptFacts
<1>4. /\ Stacked(G, St, ListKinds) /\ Stacked(G, Sf, ListKinds)
      /\ AllSettled(G, St) /\ AllSettled(G, Sf)
  BY <1>2, TopLists
<1>5. G # <<>> /\ Awaits(Last(G)) /\ Last(G).kind \in ListKinds
  <2>1. Top = frames[Len(frames)] /\ Len(frames) > 0
    BY <1>2, <1>3, LastIsElement DEF Top
  <2>2. Len(frames) > 1 /\ Awaits(frames[Len(frames) - 1])
    BY <1>2, <1>3, <2>1 DEF FramesOK
  <2>3. /\ Len(G) = Len(frames) - 1 /\ G \in Seq(FrameSet)
        /\ \A i \in 1 .. Len(frames) - 1 : G[i] = frames[i]
    BY <1>2, <1>3, FrontIsSeq
  <2>4. G # <<>>
    BY <2>2, <2>3
  <2>5. Last(G) = frames[Len(frames) - 1]
    BY <2>2, <2>3, <2>4, LastIsElement
  <2>6. QED
    BY <2>2, <2>4, <2>5 DEF Awaits, ListKinds
<1>6. Top.want = WantOf(Last(G))
  BY <1>2, <1>5, TopFacts DEF TopShape
<1>7. LeavingT \in Seq(Nat) /\ LeavingF \in Seq(Nat)
  BY OperatorOpen
<1>8. /\ TrueOpen(G, AddTop(St, LeavingT)) = RhsT
      /\ AllSettled(G, AddTop(St, LeavingT))
  BY <1>4, <1>5, <1>6, <1>7, OpenAdd DEF RhsT, AroundT
<1>9. /\ FalseOpen(G, AddTop(Sf, LeavingF)) = RhsF
      /\ AllSettled(G, AddTop(Sf, LeavingF))
  BY <1>4, <1>5, <1>6, <1>7, OpenAdd DEF RhsF, AroundF
<1>10. OpenL = LoopOpen(G, break_stack, continue_stack)
  <2>1. Stacked(frames, break_stack, LoopKinds) /\ Stacked(frames, continue_stack, LoopKinds)
    BY KeptFacts
  <2>2. frames # <<>> /\ Last(frames).kind # "while"
    BY <1>2 DEF Top
  <2>3. QED
    BY <2>1, <2>2, LoopOpenBelow DEF OpenL
<1>11. Graph(blocks', AfterIcmp(val), RhsT, RhsF, OpenL) /\ Changes(blocks, blocks', S)
  BY CondEndWired
<1>12. Clear(G, S)
  <2>1. \A x \in S : x \in Int /\ (cur <= x \/ \E c \in Waits(Top) : c <= x)
    BY <1>2
  <2>2. QED
    BY <1>2, <2>1, ClearTop
<1>13. ~HasValue' /\ CurOpen'
  BY <1>1 DEF HasValue, CurOpen
<1>14. Graph(blocks', tmp_id', TrueOpen(Front(frames), true_stack'),
             FalseOpen(Front(frames), false_stack'),
             LoopOpen(Front(frames), break_stack', continue_stack'))
  BY <1>1, <1>8, <1>9, <1>10, <1>11
<1>15. AllSettled(Front(frames), true_stack') /\ AllSettled(Front(frames), false_stack')
  BY <1>1, <1>8, <1>9
<1>16. QED
  BY <1>1, <1>2, <1>11, <1>12, <1>13, <1>14, <1>15, ReturnFrames

-----------------------------------------------------------------------------
(* Every step, and every behaviour.                                        *)

(* The first block of a function.                                          *)
LEMMA InitKept ==
  ASSUME Init, ~DeadCode
  PROVE  KInv
<1>1. NInv
  BY InitNInv
<1>2. /\ blocks \in Seq(BlockSet) /\ Len(blocks) = 1 /\ NumParams \in Nat
      /\ tmp_id = 2 * NumParams /\ blocks[1].label = -1 /\ blocks[1].insts = ParamSpills
  BY <1>1, NumParamsAssumption DEF Init, Block, EntryLabel, NInv, TInv, IInv, TypeOK
<1>3. /\ Len(frames) = 1 /\ frames[1] = SeqFrame /\ SeqFrame.kind = "seq" /\ SeqFrame \in FrameSet
      /\ pc = "stmtret" /\ cur = 1
  BY FrameType DEF Init
<1>4. \A i \in 1 .. Len(ParamSpills) : ~IsTerminateInst(ParamSpills[i])
  <2>1. \A k \in 1 .. 2 * NumParams :
          ParamSpills[k] = IF k % 2 = 1 THEN ValInst(NumParams + k \div 2) ELSE StoreInst
    BY <1>2 DEF ParamSpills
  <2>2. \A i : ~IsTerminateInst(ValInst(i)) /\ ~IsTerminateInst(StoreInst)
    BY DEF ValInst, StoreInst, Inst, IsTerminateInst
  <2>3. Len(ParamSpills) = 2 * NumParams
    <3>1. 2 * NumParams \in Nat
      BY <1>2
    <3>2. DOMAIN ParamSpills = 1 .. 2 * NumParams
      BY DEF ParamSpills
    <3>3. ParamSpills \in Seq(InstSet)
      BY <1>2, BackType
    <3>4. QED
      BY <3>1, <3>2, <3>3
  <2>4. QED
    BY <2>1, <2>2, <2>3
<1>5. /\ blocks[1].insts \in Seq(InstSet)
      /\ blocks[1].insts # <<>> =>
           /\ Back(blocks, 1) = blocks[1].insts[Len(blocks[1].insts)]
           /\ Len(blocks[1].insts) > 0 /\ Len(blocks[1].insts) \in Nat
  BY <1>2, BackType
<1>6. ~Closed(blocks, 1)
  BY <1>2, <1>4, <1>5 DEF Closed, Back
<1>7. \A st, K : K \in {ListKinds, LoopKinds} => Rows(frames, st, K) = {}
  BY <1>3 DEF Rows, ListKinds, LoopKinds
<1>8. /\ TrueOpen(frames, true_stack) = {} /\ FalseOpen(frames, false_stack) = {}
      /\ LoopOpen(frames, break_stack, continue_stack) = {}
      /\ AllSettled(frames, true_stack) /\ AllSettled(frames, false_stack)
  BY <1>7 DEF TrueOpen, FalseOpen, LoopOpen, LoopOf, AllSettled
<1>9. Graph(blocks, tmp_id, {}, {}, {})
  <2>1. LabelsApart(blocks, tmp_id)
    BY <1>2 DEF LabelsApart
  <2>2. OneTerminator(blocks)
    BY <1>2, <1>4, <1>5 DEF OneTerminator
  <2>3. \A b \in 1 .. Len(blocks) : ~Closed(blocks, b)
    BY <1>2, <1>6
  <2>4. QED
    BY <1>2, <2>1, <2>2, <2>3 DEF Graph
<1>10. FramesShape(frames, blocks, nodes)
  <2>1. Pending(SeqFrame) = {} /\ Behind(SeqFrame) = {}
    BY <1>3, FrameBlocks
  <2>2. QED
    BY <1>3, <2>1 DEF FramesShape, FrameShape
<1>11. CurOpen /\ ~HasValue
  BY <1>3, <1>6 DEF CurOpen, HasValue, Leaves
<1>12. QED
  BY <1>1, <1>8, <1>9, <1>10, <1>11 DEF KInv, Kept

(* Every step keeps the invariant's parts and the resolved jumps.          *)
LEMMA NextKept ==
  ASSUME KInv, Next
  PROVE  Kept' /\ ResolvedStay
<1> USE StmtValsAssumption
<1>1. CASE NullStmt \/ NextStmt \/ (\E absent \in BOOLEAN : IfConst(absent))
           \/ WhileFalse \/ CondDecided \/ CondNeutral
  BY <1>1, SameBlocksKept
<1>2. CASE \E n \in StmtVals, init \in BOOLEAN : DeclStmt(n, init)
  <2>1. PICK n \in StmtVals, init \in BOOLEAN : DeclStmt(n, init)
    BY <1>2
  <2>2. n + 1 \in Nat
    OBVIOUS
  <2>3. EmitStraight(n + 1, init) \/ EmitStraight(1, init)
    BY <2>1 DEF DeclStmt
  <2>4. QED
    BY <2>2, <2>3, StraightKept
<1>3. CASE \E n \in StmtVals : AssignStmt(n)
  BY <1>3, StraightKept DEF AssignStmt
<1>4. CASE \E n \in StmtVals, int \in BOOLEAN : CallStmt(n, int)
  <2>1. PICK n \in StmtVals, int \in BOOLEAN : CallStmt(n, int)
    BY <1>4
  <2>2. n \in Nat /\ n + 1 \in Nat /\ (~int) \in BOOLEAN
    OBVIOUS
  <2>3. EmitStraight(n + 1, ~int) \/ EmitStraight(n, ~int)
    BY <2>1 DEF CallStmt
  <2>4. QED
    BY <2>2, <2>3, StraightKept
<1>5. CASE \E n \in StmtVals : ReturnStmt(n)
  BY <1>5, ReturnKept
<1>6. CASE BreakStmt \/ ContinueStmt
  BY <1>6, JumpKeptBy
<1>7. CASE CompoundStmt \/ CompoundEnd
  BY <1>7, CompoundKept, CompoundEndKept
<1>8. CASE \E hasElse \in BOOLEAN : IfStmt(hasElse)
  BY <1>8, IfStmtKept
<1>9. CASE IfThen \/ IfElse \/ IfEnd
  BY <1>9, IfThenKept, IfElseKept, IfEndKept
<1>10. CASE WhileTrue \/ WhileStmt \/ WhileBody \/ WhileEnd
  BY <1>10, WhileTrueKept, WhileStmtKept, WhileBodyKept, WhileEndKept
<1>11. CASE \E type \in {"i1", "i32"} : PlainExpr(type)
  BY <1>11, PlainKept
<1>12. CASE \E op \in {"and", "or"} : CondOperator(op)
  BY <1>12, CondOperatorKept
<1>13. CASE CondRhs \/ CondEnd
  BY <1>13, CondRhsKept, CondEndKept
<1>14. CASE FunctionEnd
  BY <1>14, FunctionEndKept
<1>15. CASE Finished
  <2>1. ResolvedStay
    <3>1. blocks \in Seq(BlockSet) /\ blocks' = blocks
      BY <1>15, KeptFacts DEF Finished, vars
    <3>2. Changes(blocks, blocks', {})
      BY <3>1, ChangesReflexive
    <3>3. QED
      BY <3>2, StayResolved
  <2>2. Kept'
    BY <1>15 DEF Finished, vars, stacks, KInv, Kept, HasValue, CurOpen
  <2>3. QED
    BY <2>1, <2>2
<1>16. QED
  BY <1>1, <1>2, <1>3, <1>4, <1>5, <1>6, <1>7, <1>8, <1>9, <1>10, <1>11, <1>12,
     <1>13, <1>14, <1>15
  DEF Next

(* The invariant is inductive.                                             *)
LEMMA NextKInv == KInv /\ [Next]_vars => KInv'
<1>1. ASSUME KInv, UNCHANGED vars PROVE Kept'
  BY <1>1 DEF vars, stacks, KInv, Kept, HasValue, CurOpen
<1>2. ASSUME KInv, [Next]_vars PROVE KInv'
  <2>1. Kept'
    BY <1>1, <1>2, NextKept
  <2>2. NInv'
    BY <1>2, NextNInv DEF KInv
  <2>3. QED
    BY <1>2, <2>1, <2>2 DEF KInv
<1>3. QED
  BY <1>2

(* Where no statement follows a jump in its block the invariant holds      *)
(* throughout.                                                             *)
LEMMA KeptInvariance ==
  ASSUME ~DeadCode
  PROVE  Spec => []KInv
<1>1. Init => KInv
  BY InitKept
<1>2. QED
  BY <1>1, NextKInv, PTL DEF Spec

-----------------------------------------------------------------------------
(* From the lists of the invariant to those of the properties.             *)

LEMMA RowsListed ==
  ASSUME NEW fr, NEW st, NEW K, Stacked(fr, st, K)
  PROVE  /\ \A r \in Rows(fr, st, K) : ToSet(r[2]) \subseteq Listed(st)
         /\ \A b \in Listed(st) : \E r \in Rows(fr, st, K) : b \in ToSet(r[2])
         /\ \A r \in Rows(fr, st, K) :
              \E k \in 1 .. Len(fr) : r[1] = fr[k] /\ fr[k].kind \in K
<1>1. /\ fr \in Seq(FrameSet) /\ st \in Seq(Seq(Nat)) /\ Len(st) = DepthOf(fr, K)
      /\ DOMAIN st = 1 .. Len(st)
  BY DEF Stacked
<1>2. ASSUME NEW r \in Rows(fr, st, K)
      PROVE  /\ ToSet(r[2]) \subseteq Listed(st)
             /\ \E k \in 1 .. Len(fr) : r[1] = fr[k] /\ fr[k].kind \in K
  <2>1. PICK k \in 1 .. Len(fr) : fr[k].kind \in K /\ r = <<fr[k], st[Level(fr, k, K)]>>
    BY DEF Rows
  <2>2. /\ Level(fr, k, K) \in Nat /\ Level(fr, k, K) > 0
        /\ Level(fr, k, K) <= DepthOf(fr, K) /\ DepthOf(fr, K) \in Nat
    BY <1>1, <2>1, LevelType
  <2>3. Level(fr, k, K) \in DOMAIN st
    BY <1>1, <2>2
  <2>4. r[2] = st[Level(fr, k, K)] /\ r[1] = fr[k]
    BY <2>1
  <2>5. QED
    BY <2>1, <2>3, <2>4 DEF Listed
<1>3. ASSUME NEW b \in Listed(st)
      PROVE  \E r \in Rows(fr, st, K) : b \in ToSet(r[2])
  <2>1. PICK l \in 1 .. Len(st) : b \in ToSet(st[l])
    BY <1>1 DEF Listed
  <2>2. l \in 1 .. DepthOf(fr, K)
    BY <1>1, <2>1
  <2>3. PICK k \in 1 .. Len(fr) : fr[k].kind \in K /\ Level(fr, k, K) = l
    BY <1>1, <2>2, LevelOnto
  <2>4. <<fr[k], st[l]>> \in Rows(fr, st, K)
    BY <2>3 DEF Rows
  <2>5. <<fr[k], st[l]>>[2] = st[l]
    OBVIOUS
  <2>6. QED
    BY <2>1, <2>4, <2>5
<1>4. QED
  BY <1>2, <1>3

(* The true sides the invariant holds open are those of OpenTrue,          *)
LEMMA TrueListed ==
  ASSUME KInv
  PROVE  /\ \A p \in OpenT : p[2] \in OpenTrue
         /\ \A b \in OpenTrue : \E p \in OpenT : p[2] = b
<1>1. Stacked(frames, true_stack, ListKinds)
  BY KeptFacts
<1>2. /\ \A r \in Rows(frames, true_stack, ListKinds) :
           /\ ToSet(r[2]) \subseteq Listed(true_stack)
           /\ \E k \in 1 .. Len(frames) : r[1] = frames[k] /\ frames[k].kind \in ListKinds
      /\ \A b \in Listed(true_stack) :
           \E r \in Rows(frames, true_stack, ListKinds) : b \in ToSet(r[2])
  BY <1>1, RowsListed
<1>3. DOMAIN frames = 1 .. Len(frames)
  BY <1>1 DEF Stacked
<1>4. ASSUME NEW p \in OpenT
      PROVE  p[2] \in OpenTrue
  <2>1. PICK r \in Rows(frames, true_stack, ListKinds) : p \in TrueOf(r[1], r[2])
    BY DEF OpenT, TrueOpen
  <2>2. PICK k \in 1 .. Len(frames) : r[1] = frames[k]
    BY <1>2, <2>1
  <2>3. CASE p \in Pairs(WantOf(r[1]).t, r[2])
    BY <1>2, <2>1, <2>3 DEF Pairs, OpenTrue
  <2>4. CASE r[1].kind = "cond" /\ p \in Pairs(LhsWant(r[1]).t, r[1].lhs_true)
    BY <1>3, <2>2, <2>4 DEF Pairs, OpenTrue
  <2>5. QED
    BY <2>1, <2>3, <2>4 DEF TrueOf
<1>5. ASSUME NEW b \in OpenTrue
      PROVE  \E p \in OpenT : p[2] = b
  <2>1. CASE b \in Listed(true_stack)
    <3>1. PICK r \in Rows(frames, true_stack, ListKinds) : b \in ToSet(r[2])
      BY <1>2, <2>1
    <3>2. <<WantOf(r[1]).t, b>> \in TrueOf(r[1], r[2])
      BY <3>1 DEF TrueOf, Pairs
    <3>3. <<WantOf(r[1]).t, b>> \in OpenT
      BY <3>1, <3>2 DEF OpenT, TrueOpen
    <3>4. <<WantOf(r[1]).t, b>>[2] = b
      OBVIOUS
    <3>5. QED
      BY <3>3, <3>4
  <2>2. CASE \E k \in 1 .. Len(frames) :
               frames[k].kind = "cond" /\ b \in ToSet(frames[k].lhs_true)
    <3>1. PICK k \in 1 .. Len(frames) :
            frames[k].kind = "cond" /\ b \in ToSet(frames[k].lhs_true)
      BY <2>2
    <3> DEFINE l == true_stack[Level(frames, k, ListKinds)]
               q == <<LhsWant(frames[k]).t, b>>
               r == <<frames[k], l>>
    <3>2. r \in Rows(frames, true_stack, ListKinds) /\ r[1] = frames[k]
      BY <3>1 DEF Rows, ListKinds
    <3>3. q \in TrueOf(r[1], r[2]) /\ q[2] = b
      BY <3>1, <3>2 DEF TrueOf, Pairs
    <3> HIDE DEF q, r
    <3>4. q \in OpenT
      BY <3>2, <3>3 DEF OpenT, TrueOpen
    <3>5. QED
      BY <3>3, <3>4
  <2>3. QED
    BY <1>3, <2>1, <2>2 DEF OpenTrue
<1>6. QED
  BY <1>4, <1>5

(* the false sides are those of OpenFalse,                                 *)
LEMMA FalseListed ==
  ASSUME KInv
  PROVE  /\ \A p \in OpenF : p[2] \in OpenFalse
         /\ \A b \in OpenFalse : \E p \in OpenF : p[2] = b
<1>1. Stacked(frames, false_stack, ListKinds)
  BY KeptFacts
<1>2. /\ \A r \in Rows(frames, false_stack, ListKinds) :
           /\ ToSet(r[2]) \subseteq Listed(false_stack)
           /\ \E k \in 1 .. Len(frames) : r[1] = frames[k] /\ frames[k].kind \in ListKinds
      /\ \A b \in Listed(false_stack) :
           \E r \in Rows(frames, false_stack, ListKinds) : b \in ToSet(r[2])
  BY <1>1, RowsListed
<1>3. DOMAIN frames = 1 .. Len(frames)
  BY <1>1 DEF Stacked
<1>4. ASSUME NEW p \in OpenF
      PROVE  p[2] \in OpenFalse
  <2>1. PICK r \in Rows(frames, false_stack, ListKinds) : p \in FalseOf(r[1], r[2])
    BY DEF OpenF, FalseOpen
  <2>2. PICK k \in 1 .. Len(frames) : r[1] = frames[k]
    BY <1>2, <2>1
  <2>3. CASE p \in Pairs(WantOf(r[1]).f, r[2])
    BY <1>2, <2>1, <2>3 DEF Pairs, OpenFalse
  <2>4. CASE r[1].kind = "cond" /\ p \in Pairs(LhsWant(r[1]).f, r[1].lhs_false)
    BY <1>3, <2>2, <2>4 DEF Pairs, OpenFalse
  <2>5. QED
    BY <2>1, <2>3, <2>4 DEF FalseOf
<1>5. ASSUME NEW b \in OpenFalse
      PROVE  \E p \in OpenF : p[2] = b
  <2>1. CASE b \in Listed(false_stack)
    <3>1. PICK r \in Rows(frames, false_stack, ListKinds) : b \in ToSet(r[2])
      BY <1>2, <2>1
    <3>2. <<WantOf(r[1]).f, b>> \in FalseOf(r[1], r[2])
      BY <3>1 DEF FalseOf, Pairs
    <3>3. <<WantOf(r[1]).f, b>> \in OpenF
      BY <3>1, <3>2 DEF OpenF, FalseOpen
    <3>4. <<WantOf(r[1]).f, b>>[2] = b
      OBVIOUS
    <3>5. QED
      BY <3>3, <3>4
  <2>2. CASE \E k \in 1 .. Len(frames) :
               frames[k].kind = "cond" /\ b \in ToSet(frames[k].lhs_false)
    <3>1. PICK k \in 1 .. Len(frames) :
            frames[k].kind = "cond" /\ b \in ToSet(frames[k].lhs_false)
      BY <2>2
    <3> DEFINE l == false_stack[Level(frames, k, ListKinds)]
               q == <<LhsWant(frames[k]).f, b>>
               r == <<frames[k], l>>
    <3>2. r \in Rows(frames, false_stack, ListKinds) /\ r[1] = frames[k]
      BY <3>1 DEF Rows, ListKinds
    <3>3. q \in FalseOf(r[1], r[2]) /\ q[2] = b
      BY <3>1, <3>2 DEF FalseOf, Pairs
    <3> HIDE DEF q, r
    <3>4. q \in OpenF
      BY <3>2, <3>3 DEF OpenF, FalseOpen
    <3>5. QED
      BY <3>3, <3>4
  <2>3. QED
    BY <1>3, <2>1, <2>2 DEF OpenFalse
<1>6. QED
  BY <1>4, <1>5

(* and the jumps out of loops are those of OpenBreaks and OpenContinues.   *)
LEMMA LoopListed ==
  ASSUME KInv
  PROVE  /\ \A p \in OpenL : p[2] \in OpenBreaks \cup OpenContinues
         /\ \A b \in OpenBreaks \cup OpenContinues :
              \E p \in OpenL : p[2] = b /\ To(p[1]) # NoTarget
<1>1. /\ Stacked(frames, break_stack, LoopKinds) /\ Stacked(frames, continue_stack, LoopKinds)
      /\ FramesShape(frames, blocks, nodes)
  BY KeptFacts
<1>2. \A k \in 1 .. Len(frames) : frames[k].kind \in LoopKinds => frames[k].node > 0
  BY <1>1 DEF FramesShape, FrameShape, LoopKinds
<1>3. ASSUME NEW st, NEW part, Stacked(frames, st, LoopKinds)
      PROVE  /\ \A p \in LoopOf(frames, st, part) : p[2] \in Listed(st)
             /\ \A b \in Listed(st) :
                  \E p \in LoopOf(frames, st, part) : p[2] = b /\ To(p[1]) # NoTarget
  <2>1. /\ \A r \in Rows(frames, st, LoopKinds) :
             /\ ToSet(r[2]) \subseteq Listed(st)
             /\ \E k \in 1 .. Len(frames) : r[1] = frames[k] /\ frames[k].kind \in LoopKinds
        /\ \A b \in Listed(st) : \E r \in Rows(frames, st, LoopKinds) : b \in ToSet(r[2])
    BY <1>3, RowsListed
  <2>2. ASSUME NEW p \in LoopOf(frames, st, part)
        PROVE  p[2] \in Listed(st)
    <3>1. PICK r \in Rows(frames, st, LoopKinds) : p \in Pairs(Role(r[1].node, part), r[2])
      BY DEF LoopOf
    <3>2. QED
      BY <2>1, <3>1 DEF Pairs
  <2>3. ASSUME NEW b \in Listed(st)
        PROVE  \E p \in LoopOf(frames, st, part) : p[2] = b /\ To(p[1]) # NoTarget
    <3>1. PICK r \in Rows(frames, st, LoopKinds) : b \in ToSet(r[2])
      BY <2>1
    <3>2. r[1].node > 0
      BY <1>2, <2>1, <3>1
    <3> DEFINE q == <<Role(r[1].node, part), b>>
    <3>3. q \in LoopOf(frames, st, part)
      BY <3>1 DEF LoopOf, Pairs
    <3>4. q[2] = b /\ q[1] = Role(r[1].node, part)
      OBVIOUS
    <3>5. To(q[1]) # NoTarget
      <4>1. To(q[1]).t[1] = r[1].node
        BY <3>4 DEF To, Role
      <4>2. NoTarget.t[1] = 0
        BY DEF NoTarget, NoRole, Role
      <4>3. QED
        BY <3>2, <4>1, <4>2
    <3> HIDE DEF q
    <3>6. QED
      BY <3>3, <3>4, <3>5
  <2>4. QED
    BY <2>2, <2>3
<1>4. QED
  BY <1>1, <1>3 DEF OpenL, LoopOpen, OpenBreaks, OpenContinues

(* A terminator is the last instruction of its block, and the graph speaks *)
(* of it.                                                                  *)
LEMMA LastTerminates ==
  ASSUME KInv, NEW b \in DOMAIN blocks, NEW i \in DOMAIN blocks[b].insts,
         IsTerminateInst(blocks[b].insts[i])
  PROVE  /\ b \in 1 .. Len(blocks) /\ i = Len(blocks[b].insts)
         /\ blocks[b].insts[i] = Back(blocks, b) /\ Closed(blocks, b)
         /\ JumpKept(blocks, b, OpenT, OpenF, OpenL)
<1>1. blocks \in Seq(BlockSet) /\ Graph(blocks, tmp_id, OpenT, OpenF, OpenL)
  BY KeptFacts
<1>2. b \in 1 .. Len(blocks)
  BY <1>1
<1>3. blocks[b].insts \in Seq(InstSet) /\ Len(blocks[b].insts) \in Nat
  BY <1>1, <1>2, BackType
<1>4. i \in 1 .. Len(blocks[b].insts) /\ blocks[b].insts # <<>>
  BY <1>3
<1>5. Back(blocks, b) = blocks[b].insts[Len(blocks[b].insts)]
  BY <1>1, <1>2, <1>4, BackType
<1>6. i = Len(blocks[b].insts)
  BY <1>1, <1>2, <1>3, <1>4 DEF Graph, OneTerminator
<1>7. Closed(blocks, b)
  BY <1>4, <1>5, <1>6 DEF Closed, Back
<1>8. QED
  BY <1>1, <1>2, <1>5, <1>6, <1>7 DEF Graph

(* The invariant implies that no jump is lost,                             *)
LEMMA KeptNoLostJump == KInv => NoLostJump
<1> SUFFICES ASSUME KInv, NEW b \in DOMAIN blocks, NEW i \in DOMAIN blocks[b].insts
             PROVE  LET inst == blocks[b].insts[i]
                        last == i = Len(blocks[b].insts)
                    IN /\ IsBr(inst) =>
                            /\ HasRole(inst.t, inst.want.t) \/ (last /\ b \in OpenTrue)
                            /\ HasRole(inst.f, inst.want.f) \/ (last /\ b \in OpenFalse)
                       /\ inst.op = "ret" /\ inst.want # NoTarget =>
                            last /\ b \in OpenBreaks \cup OpenContinues
  BY DEF NoLostJump
<1> DEFINE j == blocks[b].insts[i]
<1>1. IsBr(j) \/ j.op = "ret" => IsTerminateInst(j)
  BY DEF IsBr, IsTerminateInst
<1>2. IsTerminateInst(j) =>
        /\ b \in 1 .. Len(blocks) /\ i = Len(blocks[b].insts) /\ j = Back(blocks, b)
        /\ JumpKept(blocks, b, OpenT, OpenF, OpenL)
  BY LastTerminates
<1>3. /\ \A p \in OpenT : p[2] \in OpenTrue
      /\ \A p \in OpenF : p[2] \in OpenFalse
      /\ \A p \in OpenL : p[2] \in OpenBreaks \cup OpenContinues
  BY TrueListed, FalseListed, LoopListed
<1>4. \A r : <<r, b>>[2] = b
  OBVIOUS
<1>5. blocks \in Seq(BlockSet)
  BY KeptFacts
<1>6. \A l, r : HasRoleIn(blocks, l, r) => HasRole(l, r)
  BY <1>5 DEF HasRoleIn, HasRole
<1> HIDE DEF j
<1>7. IsBr(j) =>
        /\ HasRole(j.t, j.want.t) \/ (i = Len(blocks[b].insts) /\ b \in OpenTrue)
        /\ HasRole(j.f, j.want.f) \/ (i = Len(blocks[b].insts) /\ b \in OpenFalse)
  BY <1>1, <1>2, <1>3, <1>4, <1>6 DEF JumpKept
<1>8. j.op = "ret" /\ j.want # NoTarget =>
        i = Len(blocks[b].insts) /\ b \in OpenBreaks \cup OpenContinues
  BY <1>1, <1>2, <1>3, <1>4 DEF JumpKept
<1>9. QED
  BY <1>7, <1>8 DEF j

(* that the lists hold open jumps,                                         *)
LEMMA KeptOpenJumpIsLast == KInv => OpenJumpIsLast
<1> SUFFICES ASSUME KInv PROVE OpenJumpIsLast
  OBVIOUS
<1>1. Graph(blocks, tmp_id, OpenT, OpenF, OpenL)
  BY KeptFacts
<1>2. /\ \A b \in OpenTrue : \E p \in OpenT : p[2] = b
      /\ \A b \in OpenFalse : \E p \in OpenF : p[2] = b
      /\ \A b \in OpenBreaks \cup OpenContinues :
           \E p \in OpenL : p[2] = b /\ To(p[1]) # NoTarget
  BY TrueListed, FalseListed, LoopListed
<1>3. /\ \A p \in OpenT : blocks[p[2]].insts # <<>> /\ Last(blocks[p[2]].insts).op = "cbr"
      /\ \A p \in OpenF : blocks[p[2]].insts # <<>> /\ Last(blocks[p[2]].insts).op = "cbr"
      /\ \A p \in OpenL : /\ EndsInRet(blocks, p[2])
                          /\ Last(blocks[p[2]].insts).want = To(p[1])
  BY <1>1 DEF Graph, WaitsTrue, WaitsFalse, WaitsLoop, Back, EndsInRet
<1>4. QED
  BY <1>2, <1>3 DEF OpenJumpIsLast

(* and that no ret is left where a jump was meant.                         *)
LEMMA KeptNoStrayRet == KInv => NoStrayRet
<1> SUFFICES ASSUME KInv, pc = "done", NEW b \in DOMAIN blocks,
                    NEW i \in DOMAIN blocks[b].insts, blocks[b].insts[i].op = "ret"
             PROVE  blocks[b].insts[i].want = NoTarget
  BY DEF NoStrayRet
<1>1. frames = <<>>
  BY KeptFacts DEF TInv, Terminated, Current
<1>2. OpenL = {}
  <2>1. \A st : Rows(frames, st, LoopKinds) = {}
    BY <1>1 DEF Rows
  <2>2. QED
    BY <2>1 DEF OpenL, LoopOpen, LoopOf
<1>3. IsTerminateInst(blocks[b].insts[i])
  BY DEF IsTerminateInst
<1>4. blocks[b].insts[i] = Back(blocks, b) /\ JumpKept(blocks, b, OpenT, OpenF, OpenL)
  BY <1>3, LastTerminates
<1>5. QED
  BY <1>2, <1>4 DEF JumpKept

(* In a program without unreachable statements no jump is lost: a branch   *)
(* of the IR reaches the block its statement or operator means it to       *)
(* reach, or is the last instruction of a block in the list that will      *)
(* patch it, and so is the ret void that stands for a break or a continue. *)
THEOREM NoJumpIsLost ==
  ASSUME ~DeadCode
  PROVE  Spec => []NoLostJump
BY KeptInvariance, KeptNoLostJump, PTL

(* ... the lists of true_stack, false_stack, break_stack and               *)
(* continue_stack hold no other block: the casts to BrInst in the patches  *)
(* cannot fail, and pop_back removes the ret of a break or a continue.     *)
THEOREM ListsHoldOpenJumps ==
  ASSUME ~DeadCode
  PROVE  Spec => []OpenJumpIsLast
BY KeptInvariance, KeptOpenJumpIsLast, PTL

(* ... every block of the finished function ends with a terminator and     *)
(* holds no other, so that the blocks are a control flow graph.            *)
THEOREM BlocksWellFormed ==
  ASSUME ~DeadCode
  PROVE  Spec => []WellFormedBlocks
<1>1. KInv /\ EveryBlockTerminated => WellFormedBlocks
  <2> SUFFICES ASSUME KInv, pc = "done", NEW b \in DOMAIN blocks,
                      NEW i \in 1 .. Len(blocks[b].insts) - 1
               PROVE  ~IsTerminateInst(blocks[b].insts[i])
    BY DEF WellFormedBlocks
  <2>1. blocks \in Seq(BlockSet) /\ Graph(blocks, tmp_id, OpenT, OpenF, OpenL)
    BY KeptFacts
  <2>2. QED
    BY <2>1 DEF Graph, OneTerminator
<1>2. QED
  BY <1>1, KeptInvariance, BlocksTerminated, PTL

(* ... and a ret of the finished function returns from it: each ret void   *)
(* of a break or a continue has been replaced by its loop.                 *)
THEOREM NoRetIsStray ==
  ASSUME ~DeadCode
  PROVE  Spec => []NoStrayRet
BY KeptInvariance, KeptNoStrayRet, PTL

(* A jump that has found its target keeps it: no step of the translator,   *)
(* and no patch made for another construct through a list the block was    *)
(* left in, changes a target that is the one meant.                        *)
THEOREM ResolvedJumpsAreFinal ==
  ASSUME ~DeadCode
  PROVE  Spec => ResolvedJumpsStay
<1>1. KInv /\ [Next]_vars => [ResolvedStay]_vars
  BY NextKept
<1>2. QED
  BY <1>1, KeptInvariance, PTL DEF Spec, ResolvedJumpsStay
=============================================================================
