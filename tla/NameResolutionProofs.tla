------------------------ MODULE NameResolutionProofs ------------------------
(***************************************************************************)
(* Machine-checked proofs about scopes and references: every use refers to *)
(* the declaration the language gives it, and the initialiser that is read *)
(* after it has been visited.                                              *)
(***************************************************************************)
EXTENDS NameResolution, SequenceTheorems, WellFoundedInduction, TLAPS

Elems(s) == {s[i] : i \in DOMAIN s}

-----------------------------------------------------------------------------
(* The inductive invariant.                                                *)

(* The tree under construction.  A node without a parent is the head of    *)
(* the function whose body is open, or an item of an open block.  A parent *)
(* is newer than its children, but for the unit, which holds the others,   *)
(* and for a function, which is older than its body.                       *)
NodeSet == [kind : Kinds, name : Names, ident : Nat]

ShapeBelow(n) ==
  /\ Kind(n) # "unit"
  /\ parent[n] = NoNode =>
       n = func \/ \E k \in DOMAIN open : n \in Elems(open[k])
  /\ parent[n] # NoNode =>
       /\ n \in Elems(kids[parent[n]])
       /\ \/ parent[n] = Unit
          \/ parent[n] > n
          \/ parent[n] > Unit /\ Kind(parent[n]) = "func" /\ parent[parent[n]] = Unit
  /\ Kind(n) = "var" =>
       /\ Len(kids[n]) <= 1
       /\ \A c \in Elems(kids[n]) : Kind(c) = "use" /\ parent[c] = n
  /\ Kind(n) = "use" => kids[n] = <<>>

ShapeOpen ==
  \A k \in DOMAIN open : \A n \in Elems(open[k]) :
    /\ n > Unit /\ parent[n] = NoNode /\ Kind(n) \in {"var", "use", "block"}
    /\ \A j \in DOMAIN open : n \in Elems(open[j]) => j = k

ShapeFunc ==
  /\ func # NoNode <=> open # <<>>
  /\ func # NoNode =>
       /\ func > Unit /\ Kind(func) = "func" /\ parent[func] = NoNode
       /\ table[func] = NoTable
       /\ \A n \in Elems(kids[func]) : n > Unit /\ Kind(n) = "param"

Shape ==
  /\ nodes \in Seq(NodeSet) /\ Len(nodes) >= Unit
  /\ Kind(Unit) = "unit" /\ parent[Unit] = NoNode
  /\ \A n \in Nodes : n <= Unit => Kind(n) \notin {"var", "use"}
  /\ \A n \in Nodes : n > Unit => ShapeBelow(n)
  /\ ShapeOpen /\ ShapeFunc
  /\ Len(env) = Len(open) + 1
  /\ phase # "parse" => open = <<>>

(* The open scopes are what the tables of their nodes will be.             *)
Declared(k) ==
  {d \in Elems(open[k]) \cup (IF k = 1 THEN Elems(kids[func]) ELSE {}) :
     Kind(d) \in {"var", "param"}}

Scopes ==
  /\ \A x \in Names : env[1][x] = IF func # NoNode /\ x = NameOf(func)
                                  THEN func ELSE table[Unit][x]
  /\ func # NoNode => table[Unit][NameOf(func)] = NoNode
  /\ \A k \in DOMAIN open :
       /\ \A x \in Names : env[k + 1][x] # NoNode =>
            env[k + 1][x] \in Declared(k) /\ NameOf(env[k + 1][x]) = x
       /\ \A d \in Declared(k) : env[k + 1][NameOf(d)] = d
  /\ \A n \in Nodes : IdentOf(n) <= tokens

(* What u means if its search has found nothing below the m-th scope.      *)
Visible(u, d) == d # NoNode /\ IdentOf(u) > IdentOf(d)
InScope(u, i) == env[i][NameOf(u)]
MeansIn(u, m) ==
  \/ \E i \in 1 .. m :
       /\ Visible(u, InScope(u, i)) /\ Expected(u) = InScope(u, i)
       /\ \A j \in i + 1 .. m : ~Visible(u, InScope(u, j))
  \/ Expected(u) = NoNode /\ \A i \in 1 .. m : ~Visible(u, InScope(u, i))

AwaitsAt(u, n) == \E k \in DOMAIN open : n \in Elems(open[k]) /\ MeansIn(u, k + 1)

(* R holds the pairs of a use and a node at which its search arrives.      *)
Stands(R, u, n) ==
  IF FoundAt(u, n) THEN table[n][NameOf(u)] = Expected(u)
  ELSE IF parent[n] # NoNode THEN <<u, parent[n]>> \in R
  ELSE IF n = Unit THEN Expected(u) = NoNode
  ELSE AwaitsAt(u, n)

Climbs(R) ==
  /\ R \in SUBSET (Uses \X Nodes)
  /\ \A u \in Uses : IF parent[u] = NoNode THEN AwaitsAt(u, u)
                     ELSE <<u, parent[u]>> \in R
  /\ \A u \in Uses, n \in Nodes : <<u, n>> \in R => Stands(R, u, n)
  /\ func # NoNode => \A u \in Uses : <<u, Unit>> \in R => IdentOf(u) < IdentOf(func)

Searching(R) ==
  phase \in {"find", "thrown"} =>
    /\ todo # <<>> /\ Head(todo) \in Uses /\ cur \in Nodes
    /\ <<Head(todo), cur>> \in R

(* The identifiers below a node lie between lo and hi of the node, and     *)
(* siblings are in the order of the text.                                  *)
Ascending(s, lo, hi) == \A i, j \in DOMAIN s : i < j => hi[s[i]] < lo[s[j]]

SpanAt(n, lo, hi) ==
  /\ lo[n] <= hi[n] + 1 /\ hi[n] <= tokens
  /\ Kind(n) \in {"var", "use"} => lo[n] <= IdentOf(n) /\ IdentOf(n) <= hi[n]
  /\ Kind(n) = "use" => lo[n] = hi[n]
  /\ Ascending(kids[n], lo, hi)
  /\ n # Unit => \A c \in Elems(kids[n]) : lo[n] <= lo[c] /\ hi[c] <= hi[n]

SpanOpen(lo, hi) ==
  /\ \A k \in DOMAIN open : Ascending(open[k], lo, hi)
  /\ \A j, k \in DOMAIN open : j < k =>
       \A m \in Elems(open[j]), n \in Elems(open[k]) : hi[m] < lo[n]

SpanFunc(lo, hi) ==
  func # NoNode =>
    /\ \A n \in Nodes : func \notin Elems(kids[n])
    /\ \A n \in Elems(kids[Unit]) : hi[n] < lo[func]
    /\ \A k \in DOMAIN open : \A n \in Elems(open[k]) : hi[func] < lo[n]

Spans(lo, hi) ==
  /\ lo \in [Nodes -> Int] /\ hi \in [Nodes -> Int]
  /\ \A n \in Nodes : SpanAt(n, lo, hi)
  /\ SpanOpen(lo, hi) /\ SpanFunc(lo, hi)

(* V holds the nodes the traversal has entered.                            *)
Walk(V, lo, hi) ==
  /\ V \in SUBSET Nodes /\ Unit \in V
  /\ \A p \in V : \A n \in Elems(kids[p]) : n \in V \/ n \in Elems(todo)
  /\ \A n \in V : /\ Kind(n) = "use" => ref[n] # NoNode
                  /\ Kind(n) = "var" => n \in finished \/ -n \in Elems(todo)
  /\ \A i \in DOMAIN todo : todo[i] < 0 =>
       \/ i = 1
       \/ i = 2 /\ todo[1] \in Uses /\ parent[todo[1]] = -todo[2]
  /\ \A i, j \in DOMAIN todo : i < j /\ todo[i] > 0 /\ todo[j] > 0 =>
       hi[todo[i]] < lo[todo[j]]

AtRest ==
  /\ phase = "parse" => todo = <<>> /\ \A n \in Nodes : ref[n] = NoNode
  /\ phase = "done" => todo = <<>>
  /\ phase = "thrown" => Expected(Head(todo)) = NoNode
  /\ \A u \in Uses : ref[u] # NoNode => ref[u] = Expected(u)

Resolves == \E R : Climbs(R) /\ Searching(R)
InOrder  == \E lo, hi : Spans(lo, hi) /\ (phase # "parse" => \E V : Walk(V, lo, hi))

Tree == TypeOK /\ Shape
IInv == Tree /\ Scopes /\ Resolves /\ InOrder /\ AtRest

-----------------------------------------------------------------------------
(* Sequences.                                                              *)

(* r is s, of length n, then t, of length k, then e.                       *)
Joined(S, n, s, k, t, e, r) ==
  /\ r \in [1 .. n + k + 1 -> S]
  /\ \A i \in 1 .. n : r[i] = s[i]
  /\ \A i \in 1 .. k : r[n + i] = t[i]
  /\ r[n + k + 1] = e

Appended(S, n, s, e, r) ==
  /\ r \in [1 .. n + 1 -> S]
  /\ \A i \in 1 .. n : r[i] = s[i]
  /\ r[n + 1] = e

LEMMA AppendEffect ==
  ASSUME NEW S, NEW n \in Nat, NEW s \in [1 .. n -> S], NEW e \in S
  PROVE  Appended(S, n, s, e, Append(s, e))
<1>1. s \in Seq(S) /\ Len(s) = n
  OBVIOUS
<1> DEFINE r == Append(s, e)
<1>2. /\ r \in Seq(S) /\ Len(r) = n + 1 /\ r[n + 1] = e
      /\ \A i \in 1 .. n : r[i] = s[i]
  BY <1>1
<1> HIDE DEF r
<1>3. r \in [1 .. n + 1 -> S]
  BY <1>2
<1>4. QED
  BY <1>2, <1>3 DEF r, Appended

SeqAppended(s, e, r) ==
  Len(r) = Len(s) + 1 /\ r[Len(s) + 1] = e /\ \A i \in 1 .. Len(s) : r[i] = s[i]

LEMMA SeqAppend ==
  ASSUME NEW S, NEW s \in Seq(S), NEW e \in S
  PROVE  SeqAppended(s, e, Append(s, e))
BY DEF SeqAppended

LEMMA JoinEffect ==
  ASSUME NEW S, NEW n \in Nat, NEW s \in [1 .. n -> S], NEW k \in Nat,
         NEW t \in [1 .. k -> S], NEW e \in S
  PROVE  Joined(S, n, s, k, t, e, s \o t \o <<e>>)
<1>1. s \in Seq(S) /\ Len(s) = n /\ t \in Seq(S) /\ Len(t) = k
  OBVIOUS
<1> DEFINE j == s \o t
           r == j \o <<e>>
<1>2. /\ j \in Seq(S) /\ Len(j) = n + k /\ n + k \in Nat
      /\ \A i \in 1 .. n : j[i] = s[i]
      /\ \A i \in 1 .. k : j[n + i] = t[i]
  BY <1>1
<1> HIDE DEF j
<1>3. /\ r \in Seq(S) /\ Len(r) = n + k + 1
      /\ \A i \in 1 .. n + k : r[i] = j[i]
      /\ r[n + k + 1] = e
  BY <1>2
<1> HIDE DEF r
<1>4. r \in [1 .. n + k + 1 -> S]
  BY <1>3
<1>5. \A i \in 1 .. k : r[n + i] = t[i]
  BY <1>2, <1>3
<1>6. \A i \in 1 .. n : r[i] = s[i]
  BY <1>2, <1>3
<1>7. r = s \o t \o <<e>>
  BY DEF r, j
<1>8. Joined(S, n, s, k, t, e, r)
  BY <1>3, <1>4, <1>5, <1>6 DEF Joined
<1>9. QED
  BY <1>7, <1>8

LEMMA ElemsAppend ==
  ASSUME NEW S, NEW s \in Seq(S), NEW e \in S
  PROVE  Elems(Append(s, e)) = Elems(s) \cup {e}
<1>1. /\ DOMAIN Append(s, e) = 1 .. Len(s) + 1 /\ DOMAIN s = 1 .. Len(s)
      /\ \A i \in 1 .. Len(s) : Append(s, e)[i] = s[i]
      /\ Append(s, e)[Len(s) + 1] = e /\ Len(s) \in Nat
  OBVIOUS
<1>2. \A i \in DOMAIN Append(s, e) : i \in DOMAIN s \/ i = Len(s) + 1
  BY <1>1
<1>3. QED
  BY <1>1, <1>2 DEF Elems

LEMMA ElemsType ==
  ASSUME NEW S, NEW s \in Seq(S)
  PROVE  Elems(s) \subseteq S
BY DEF Elems

(* Every set of natural numbers has a least element, and one of those      *)
(* below a bound a greatest.                                               *)
LEMMA LeastNat ==
  ASSUME NEW T \in SUBSET Nat, T # {}
  PROVE  \E x \in T : \A y \in T : x <= y
<1> DEFINE R == OpToRel(<, Nat)
<1>1. IsWellFoundedOn(R, Nat)
  BY NatLessThanWellFounded
<1>2. \A x, y \in Nat : x < y => <<x, y>> \in R
  BY DEF OpToRel
<1> HIDE DEF R
<1>3. PICK x \in T : \A y \in T : ~(<<y, x>> \in R)
  BY <1>1, WFMin
<1>4. \A y \in T : ~(y < x)
  BY <1>2, <1>3
<1>5. QED
  BY <1>4

LEMMA GreatestBelow ==
  ASSUME NEW n \in Nat, NEW T \in SUBSET (1 .. n), T # {}
  PROVE  \E x \in T : \A y \in T : y <= x
<1> DEFINE U == {n - x : x \in T}
<1>1. U \in SUBSET Nat /\ U # {}
  <2>1. \A x \in T : n - x \in Nat
    OBVIOUS
  <2>2. QED
    BY <2>1
<1>2. PICK z \in U : \A y \in U : z <= y
  <2> HIDE DEF U
  <2>1. QED
    BY <1>1, LeastNat
<1>3. PICK x \in T : z = n - x
  BY <1>2
<1>4. ASSUME NEW y \in T PROVE y <= x
  <2>1. n - y \in U
    OBVIOUS
  <2>2. n - x <= n - y
    BY <1>2, <1>3, <2>1
  <2>3. x \in 1 .. n /\ y \in 1 .. n
    OBVIOUS
  <2>4. QED
    BY <2>2, <2>3
<1>5. QED
  BY <1>4

-----------------------------------------------------------------------------
(* What the helpers on scopes return.                                      *)

LEMMA Basics ==
  ASSUME Tree
  PROVE  /\ Len(nodes) \in Nat /\ Len(nodes) >= Unit /\ Unit \in Nodes
         /\ nodes \in [1 .. Len(nodes) -> NodeSet] /\ Nodes = 1 .. Len(nodes)
         /\ parent \in [1 .. Len(nodes) -> Nodes \cup {NoNode}]
         /\ kids \in [1 .. Len(nodes) -> Seq(Nodes)]
         /\ table \in [1 .. Len(nodes) -> [Names -> Nodes \cup {NoNode}]]
         /\ ref \in [1 .. Len(nodes) -> Nodes \cup {NoNode}]
         /\ meant \in [1 .. Len(nodes) -> Nodes \cup {NoNode}]
         /\ tokens \in Nat /\ func \in Nodes \cup {NoNode}
         /\ open \in Seq(Seq(Nodes)) /\ Len(open) \in Nat /\ DOMAIN open = 1 .. Len(open)
         /\ env \in Seq([Names -> Nodes \cup {NoNode}]) /\ Len(env) = Len(open) + 1
BY DEF Tree, TypeOK, Shape, Nodes, Frames, Unit

LEMMA MeaningIs ==
  ASSUME NEW S, NEW e \in Seq([Names -> S]), NEW x \in Names
  PROVE  \/ \E i \in 1 .. Len(e) :
              /\ e[i][x] # NoNode /\ Meaning(e, x) = e[i][x]
              /\ \A j \in i + 1 .. Len(e) : e[j][x] = NoNode
         \/ Meaning(e, x) = NoNode /\ \A i \in 1 .. Len(e) : e[i][x] = NoNode
<1> DEFINE seen == {i \in DOMAIN e : e[i][x] # NoNode}
           last == CHOOSE i \in seen : \A j \in seen : j <= i
<1>1. Len(e) \in Nat /\ DOMAIN e = 1 .. Len(e)
  OBVIOUS
<1>2. CASE seen = {}
  <2>1. Meaning(e, x) = NoNode
    BY <1>2 DEF Meaning
  <2>2. QED
    BY <1>1, <1>2, <2>1
<1>3. CASE seen # {}
  <2>1. Meaning(e, x) = e[last][x]
    BY <1>3 DEF Meaning
  <2>2. seen \in SUBSET (1 .. Len(e))
    BY <1>1
  <2>3. \E i \in seen : \A j \in seen : j <= i
    <3> HIDE DEF seen
    <3>1. QED
      BY <1>1, <1>3, <2>2, GreatestBelow
  <2>4. last \in seen /\ \A j \in seen : j <= last
    BY <2>3
  <2> HIDE DEF last
  <2>5. last \in 1 .. Len(e) /\ e[last][x] # NoNode
    BY <1>1, <2>4
  <2>6. \A j \in last + 1 .. Len(e) : e[j][x] = NoNode
    <3> SUFFICES ASSUME NEW j \in last + 1 .. Len(e), e[j][x] # NoNode PROVE FALSE
      OBVIOUS
    <3>1. j \in 1 .. Len(e) /\ ~(j <= last)
      BY <1>1, <2>5
    <3>2. j \in seen
      BY <1>1, <3>1
    <3>3. QED
      BY <2>4, <3>1, <3>2
  <2>7. QED
    BY <2>1, <2>5, <2>6
<1>4. QED
  BY <1>2, <1>3

LEMMA MeaningType ==
  ASSUME NEW S, NoNode \in S, NEW e \in Seq([Names -> S]), NEW x \in Names
  PROVE  Meaning(e, x) \in S
<1>1. Len(e) \in Nat /\ \A i \in 1 .. Len(e) : e[i] \in [Names -> S]
  OBVIOUS
<1>2. \A i \in 1 .. Len(e) : e[i][x] \in S
  BY <1>1
<1>3. QED
  BY <1>2, MeaningIs

(* A block's table is the scope that was open.                             *)
LEMMA EntriesAre ==
  ASSUME Tree, NEW list \in Seq(Nodes), NEW D,
         D = {d \in Elems(list) : Kind(d) \in {"var", "param"}},
         NEW t \in [Names -> Nodes \cup {NoNode}],
         \A x \in Names : t[x] # NoNode => t[x] \in D /\ NameOf(t[x]) = x,
         \A d \in D : t[NameOf(d)] = d
  PROVE  Entries(list) = t
<1>1. Len(list) \in Nat /\ DOMAIN list = 1 .. Len(list)
  OBVIOUS
<1>2. \A n \in Nodes : n # NoNode
  BY DEF Nodes, NoNode
<1> DEFINE hits(x) == {i \in DOMAIN list : /\ Kind(list[i]) \in {"var", "param"}
                                           /\ NameOf(list[i]) = x}
           first(x) == CHOOSE i \in hits(x) : \A j \in hits(x) : i <= j
           entry(x) == IF hits(x) = {} THEN NoNode ELSE list[first(x)]
<1>3. Entries(list) = [x \in Names |-> entry(x)]
  BY DEF Entries
<1>4. ASSUME NEW x \in Names PROVE entry(x) = t[x]
  <2>1. ASSUME NEW i \in hits(x) PROVE t[x] = list[i] /\ list[i] # NoNode
    <3>1. list[i] \in D /\ NameOf(list[i]) = x
      BY <2>1 DEF Elems
    <3>2. list[i] \in Nodes
      BY <2>1, <1>1
    <3>3. QED
      BY <1>2, <3>1, <3>2
  <2>2. CASE hits(x) = {}
    <3>1. t[x] = NoNode
      <4>1. SUFFICES ASSUME t[x] # NoNode PROVE FALSE
        OBVIOUS
      <4>2. t[x] \in D /\ NameOf(t[x]) = x
        BY <4>1
      <4>3. PICK i \in DOMAIN list : t[x] = list[i]
        BY <4>2 DEF Elems
      <4>4. i \in hits(x)
        BY <4>2, <4>3
      <4>5. QED
        BY <2>2, <4>4
    <3>2. QED
      BY <2>2, <3>1
  <2>3. CASE hits(x) # {}
    <3>1. hits(x) \in SUBSET Nat
      BY <1>1
    <3> DEFINE h == hits(x)
    <3>2. \E i \in h : \A j \in h : i <= j
      <4> HIDE DEF h
      <4>1. h \in SUBSET Nat /\ h # {}
        BY <2>3, <3>1 DEF h
      <4>2. QED
        BY <4>1, LeastNat
    <3>3. first(x) \in hits(x)
      BY <3>2
    <3>4. QED
      BY <2>1, <2>3, <3>3
  <2>4. QED
    BY <2>2, <2>3
<1> HIDE DEF entry
<1>5. QED
  BY <1>3, <1>4

-----------------------------------------------------------------------------
(* What the parser's actions do to the tree.                               *)

LEMMA SeqWiden ==
  ASSUME NEW S, NEW T, S \subseteq T, NEW s \in Seq(S)
  PROVE  s \in Seq(T)
<1>1. Len(s) \in Nat /\ s \in [1 .. Len(s) -> S]
  OBVIOUS
<1>2. s \in [1 .. Len(s) -> T]
  BY <1>1
<1>3. QED
  BY <1>1, <1>2

LEMMA SeqSeqWiden ==
  ASSUME NEW S, NEW T, S \subseteq T, NEW s \in Seq(Seq(S))
  PROVE  s \in Seq(Seq(T))
<1>1. Seq(S) \subseteq Seq(T)
  BY SeqWiden
<1>2. QED
  BY <1>1, SeqWiden

(* o2 is o with e at the end of its last list.                             *)
ItemAdded(T, o, e, o2) ==
  /\ o2 \in Seq(Seq(T)) /\ Len(o2) = Len(o)
  /\ \A k \in 1 .. Len(o) : k # Len(o) => o2[k] = o[k]
  /\ o2[Len(o)] = Append(o[Len(o)], e)
  /\ Elems(o2[Len(o)]) = Elems(o[Len(o)]) \cup {e}

LEMMA AddItemEffect ==
  ASSUME NEW S, NEW T, S \subseteq T, NEW o \in Seq(Seq(S)), o # <<>>, NEW e \in T
  PROVE  ItemAdded(T, o, e, [o EXCEPT ![Len(o)] = Append(@, e)])
<1> DEFINE l == o[Len(o)]
           a == Append(l, e)
           o2 == [o EXCEPT ![Len(o)] = a]
<1>1. o \in Seq(Seq(T)) /\ Len(o) \in Nat /\ Len(o) \in 1 .. Len(o)
  BY SeqSeqWiden
<1>2. l \in Seq(T)
  BY <1>1
<1> HIDE DEF l
<1>3. a \in Seq(T) /\ Elems(a) = Elems(l) \cup {e}
  BY <1>2, ElemsAppend
<1> HIDE DEF a
<1>4. /\ o2 \in Seq(Seq(T)) /\ Len(o2) = Len(o) /\ o2[Len(o)] = a
      /\ \A k \in 1 .. Len(o) : k # Len(o) => o2[k] = o[k]
  BY <1>1, <1>3
<1> HIDE DEF o2
<1>5. ItemAdded(T, o, e, o2)
  BY <1>3, <1>4 DEF ItemAdded, a, l
<1>6. QED
  BY <1>5 DEF o2, a, l

(* e2 is e with the entry d for x in its last table.                       *)
EntrySet(T, e, x, d, e2) ==
  /\ e2 \in Seq([Names -> T]) /\ Len(e2) = Len(e)
  /\ \A k \in 1 .. Len(e) : k # Len(e) => e2[k] = e[k]
  /\ e2[Len(e)][x] = d
  /\ \A y \in Names : y # x => e2[Len(e)][y] = e[Len(e)][y]

LEMMA DeclareEffect ==
  ASSUME NEW S, NEW T, S \subseteq T, NEW e \in Seq([Names -> S]), Len(e) > 0,
         NEW x \in Names, NEW d \in T
  PROVE  EntrySet(T, e, x, d, [e EXCEPT ![Len(e)] = [@ EXCEPT ![x] = d]])
<1>1. Len(e) \in Nat /\ Len(e) \in 1 .. Len(e)
  OBVIOUS
<1>2. e[Len(e)] \in [Names -> S] /\ [Names -> S] \subseteq [Names -> T]
  BY <1>1
<1>3. e \in Seq([Names -> T])
  BY <1>2, SeqWiden
<1> DEFINE t == [e[Len(e)] EXCEPT ![x] = d]
           e2 == [e EXCEPT ![Len(e)] = t]
<1>4. /\ t \in [Names -> T] /\ t[x] = d
      /\ \A y \in Names : y # x => t[y] = e[Len(e)][y]
  BY <1>2
<1> HIDE DEF t
<1>5. /\ e2 \in Seq([Names -> T]) /\ Len(e2) = Len(e) /\ e2[Len(e)] = t
      /\ \A k \in 1 .. Len(e) : k # Len(e) => e2[k] = e[k]
  BY <1>1, <1>3, <1>4
<1> HIDE DEF e2
<1>6. EntrySet(T, e, x, d, e2)
  BY <1>4, <1>5 DEF EntrySet
<1>7. QED
  BY <1>6 DEF e2, t

(* A node keeps what the parser never changes.                             *)
Stays(n) == nodes'[n] = nodes[n] /\ ref'[n] = ref[n] /\ meant'[n] = meant[n]

(* It also keeps its place in the tree.                                    *)
Kept(n) == Stays(n) /\ parent'[n] = parent[n] /\ kids'[n] = kids[n] /\ table'[n] = table[n]

LEMMA TypesGrow ==
  ASSUME Tree, NEW m \in Nat, m >= Len(nodes),
         nodes' \in [1 .. m -> NodeSet],
         parent' \in [1 .. m -> (1 .. m) \cup {NoNode}],
         kids' \in [1 .. m -> Seq(1 .. m)],
         table' \in [1 .. m -> [Names -> (1 .. m) \cup {NoNode}]],
         ref' \in [1 .. m -> (1 .. m) \cup {NoNode}],
         meant' \in [1 .. m -> (1 .. m) \cup {NoNode}],
         tokens' \in Nat, func' \in (1 .. m) \cup {NoNode},
         open' \in Seq(Seq(1 .. m)),
         env' \in Seq([Names -> (1 .. m) \cup {NoNode}]),
         UNCHANGED <<phase, todo, cur, finished>>
  PROVE  TypeOK' /\ nodes' \in Seq(NodeSet) /\ Len(nodes') = m /\ Nodes' = 1 .. m
<1>1. nodes' \in Seq(NodeSet) /\ Len(nodes') = m
  OBVIOUS
<1>2. Nodes' = 1 .. m /\ Nodes \subseteq 1 .. m
  BY <1>1, Basics DEF Nodes
<1>3. \A n \in Nodes' : nodes'[n] \in [kind : Kinds, name : Names, ident : Nat]
  BY <1>2 DEF NodeSet
<1>4. /\ todo' \in Seq(Int) /\ \A i \in DOMAIN todo' : todo'[i] \in 1 .. m \/ -todo'[i] \in 1 .. m
      /\ cur' \in (1 .. m) \cup {NoNode} /\ finished' \subseteq 1 .. m
      /\ phase' \in {"parse", "visit", "find", "done", "thrown"}
  BY <1>2 DEF Tree, TypeOK
<1>5. QED
  BY <1>1, <1>2, <1>3, <1>4 DEF TypeOK, Frames

LEMMA UseEffect ==
  ASSUME Tree, NEW name \in Names, Use(name), NEW u, u = Len(nodes) + 1
  PROVE  /\ TypeOK' /\ nodes' \in Seq(NodeSet) /\ Len(nodes') = u /\ Nodes' = 1 .. u
         /\ \A n \in Nodes : Kept(n)
         /\ nodes'[u] = Node("use", name, tokens + 1)
         /\ parent'[u] = NoNode /\ kids'[u] = <<>> /\ table'[u] = NoTable
         /\ ref'[u] = NoNode /\ meant'[u] = Meaning(env, name)
<1> DEFINE N == Len(nodes)
           M == 1 .. u
           MZ == M \cup {NoNode}
<1>1. N \in Nat /\ Nodes = 1 .. N /\ u = N + 1
  BY Basics
<1>2. /\ nodes \in [1 .. N -> NodeSet] /\ parent \in [1 .. N -> Nodes \cup {NoNode}]
      /\ kids \in [1 .. N -> Seq(Nodes)]
      /\ table \in [1 .. N -> [Names -> Nodes \cup {NoNode}]]
      /\ ref \in [1 .. N -> Nodes \cup {NoNode}] /\ meant \in [1 .. N -> Nodes \cup {NoNode}]
      /\ open \in Seq(Seq(Nodes)) /\ env \in Seq([Names -> Nodes \cup {NoNode}])
      /\ tokens \in Nat /\ func \in Nodes \cup {NoNode}
  BY Basics
<1> HIDE DEF N
<1>3. u \in Nat /\ Nodes \subseteq M /\ u \in M /\ u >= N
  BY <1>1
<1>4. Seq(Nodes) \subseteq Seq(M) /\ Nodes \cup {NoNode} \subseteq MZ
  BY <1>3, SeqWiden
<1>5. [Names -> Nodes \cup {NoNode}] \subseteq [Names -> MZ]
  BY <1>4
<1> HIDE DEF M, MZ
<1>6. nodes' \in [1 .. u -> NodeSet] /\ nodes'[u] = Node("use", name, tokens + 1)
      /\ \A n \in 1 .. N : nodes'[n] = nodes[n]
  <2>1. Node("use", name, tokens + 1) \in NodeSet
    BY <1>2 DEF Node, NodeSet, Kinds
  <2>2. nodes' = Append(nodes, Node("use", name, tokens + 1))
    BY DEF Use
  <2>3. Appended(NodeSet, N, nodes, Node("use", name, tokens + 1), Append(nodes, Node("use", name, tokens + 1)))
    BY <2>1, <1>2, <1>1, AppendEffect
  <2>4. QED
    BY <2>3, <2>2, <1>1 DEF Appended
<1>7. parent' \in [1 .. u -> MZ] /\ parent'[u] = NoNode
      /\ \A n \in 1 .. N : parent'[n] = parent[n]
  <2>1. parent' = Append(parent, NoNode)
    BY DEF Use
  <2>2. parent \in [1 .. N -> MZ] /\ NoNode \in MZ
    BY <1>2, <1>4
  <2>3. Appended(MZ, N, parent, NoNode, Append(parent, NoNode))
    BY <2>2, <1>1, AppendEffect
  <2>4. QED
    BY <2>3, <2>1, <1>1 DEF Appended
<1>8. kids' \in [1 .. u -> Seq(M)] /\ kids'[u] = <<>>
      /\ \A n \in 1 .. N : kids'[n] = kids[n]
  <2>1. kids' = Append(kids, <<>>)
    BY DEF Use
  <2>2. kids \in [1 .. N -> Seq(M)]
    BY <1>2, <1>4
  <2>3. <<>> \in Seq(M)
    OBVIOUS
  <2>4. Appended(Seq(M), N, kids, <<>>, Append(kids, <<>>))
    BY <2>2, <2>3, <1>1, AppendEffect
  <2>5. QED
    BY <2>4, <2>1, <1>1 DEF Appended
<1>9. table' \in [1 .. u -> [Names -> MZ]] /\ table'[u] = NoTable
      /\ \A n \in 1 .. N : table'[n] = table[n]
  <2>1. table' = Append(table, NoTable)
    BY DEF Use
  <2>2. table \in [1 .. N -> [Names -> MZ]]
    BY <1>2, <1>5
  <2>3. NoTable \in [Names -> MZ]
    BY <1>4 DEF NoTable
  <2>4. Appended([Names -> MZ], N, table, NoTable, Append(table, NoTable))
    BY <2>2, <2>3, <1>1, AppendEffect
  <2>5. QED
    BY <2>4, <2>1, <1>1 DEF Appended
<1>10. ref' \in [1 .. u -> MZ] /\ ref'[u] = NoNode
      /\ \A n \in 1 .. N : ref'[n] = ref[n]
  <2>1. ref' = Append(ref, NoNode)
    BY DEF Use
  <2>2. ref \in [1 .. N -> MZ] /\ NoNode \in MZ
    BY <1>2, <1>4
  <2>3. Appended(MZ, N, ref, NoNode, Append(ref, NoNode))
    BY <2>2, <1>1, AppendEffect
  <2>4. QED
    BY <2>3, <2>1, <1>1 DEF Appended
<1>11. meant' \in [1 .. u -> MZ] /\ meant'[u] = Meaning(env, name)
      /\ \A n \in 1 .. N : meant'[n] = meant[n]
  <2>1. meant' = Append(meant, Meaning(env, name))
    BY DEF Use
  <2>2. meant \in [1 .. N -> MZ]
    BY <1>2, <1>4
  <2>3. Meaning(env, name) \in Nodes \cup {NoNode}
    BY <1>2, MeaningType
  <2>4. Meaning(env, name) \in MZ
    BY <1>4, <2>3
  <2>5. Appended(MZ, N, meant, Meaning(env, name), Append(meant, Meaning(env, name)))
    BY <2>2, <2>4, <1>1, AppendEffect
  <2>6. QED
    BY <2>5, <2>1, <1>1 DEF Appended
<1>12. open' \in Seq(Seq(M))
  <2>1. open # <<>> /\ open' = [open EXCEPT ![Len(open)] = Append(@, u)]
    BY <1>1 DEF Use, AddItem, New, N
  <2>2. Nodes \subseteq M /\ u \in M
    BY <1>3 DEF M
  <2>3. ItemAdded(M, open, u, [open EXCEPT ![Len(open)] = Append(@, u)])
    BY <1>2, <2>1, <2>2, AddItemEffect
  <2>4. QED
    BY <2>1, <2>3 DEF ItemAdded
<1>13. env' \in Seq([Names -> MZ])
  <2>1. env' = env
    BY DEF Use
  <2>2. QED
    BY <1>2, <1>5, <2>1, SeqWiden
<1>14. /\ tokens' \in Nat /\ func' \in MZ
       /\ UNCHANGED <<phase, todo, cur, finished>>
  BY <1>2, <1>4 DEF Use
<1>15. TypeOK' /\ nodes' \in Seq(NodeSet) /\ Len(nodes') = u /\ Nodes' = 1 .. u
  BY <1>1, <1>3, <1>6, <1>7, <1>8, <1>9, <1>10, <1>11, <1>12, <1>13, <1>14, TypesGrow
     DEF M, MZ, N
<1>16. \A n \in Nodes : Kept(n)
  BY <1>1, <1>6, <1>7, <1>8, <1>9, <1>10, <1>11 DEF Kept, Stays
<1>17. QED
  BY <1>6, <1>7, <1>8, <1>9, <1>10, <1>11, <1>15, <1>16

(* r is s, of length n, then e, k + 1 times.                               *)
Padded(S, n, s, k, e, r) ==
  /\ r \in [1 .. n + k + 1 -> S]
  /\ \A i \in 1 .. n : r[i] = s[i]
  /\ \A i \in 1 .. k + 1 : r[n + i] = e

LEMMA PadEffect ==
  ASSUME NEW S, NEW n \in Nat, NEW s \in [1 .. n -> S], NEW k \in Nat, NEW e \in S,
         NEW t \in [1 .. k + 1 -> S], \A i \in 1 .. k + 1 : t[i] = e
  PROVE  Padded(S, n, s, k, e, s \o t)
<1> DEFINE j == s \o t
<1>1. k + 1 \in Nat
  OBVIOUS
<1>3. s \in Seq(S) /\ Len(s) = n /\ t \in Seq(S) /\ Len(t) = k + 1
  BY <1>1
<1>4. j \in Seq(S) /\ Len(j) = n + (k + 1) /\ n + (k + 1) \in Nat
  BY <1>1, <1>3
<1>5. \A i \in 1 .. n : j[i] = s[i]
  BY <1>1, <1>3
<1>6. \A i \in 1 .. k + 1 : j[n + i] = t[i]
  BY <1>1, <1>3
<1> HIDE DEF j
<1>7. n + (k + 1) = n + k + 1
  OBVIOUS
<1>8. j \in [1 .. n + k + 1 -> S]
  BY <1>4, <1>7
<1>9. \A i \in 1 .. k + 1 : j[n + i] = e
  BY <1>1, <1>6
<1>10. Padded(S, n, s, k, e, j)
  BY <1>5, <1>8, <1>9 DEF Padded
<1>11. QED
  BY <1>10 DEF j

(* The function f, with its parameters.                                    *)
FuncOpened(name, params, f) ==
  /\ TypeOK' /\ nodes' \in Seq(NodeSet) /\ Len(nodes') = f /\ Nodes' = 1 .. f
  /\ \A n \in Nodes : Kept(n)
  /\ \A i \in 1 .. Len(params) :
       /\ nodes'[Len(nodes) + i] = Node("param", params[i], tokens + 1 + i)
       /\ parent'[Len(nodes) + i] = f /\ kids'[Len(nodes) + i] = <<>>
       /\ ref'[Len(nodes) + i] = NoNode
       /\ table'[Len(nodes) + i] = NoTable
  /\ nodes'[f] = Node("func", name, tokens + 1)
  /\ parent'[f] = NoNode /\ table'[f] = NoTable /\ ref'[f] = NoNode
  /\ Len(kids'[f]) = Len(params)
  /\ \A i \in 1 .. Len(params) : kids'[f][i] = Len(nodes) + i

LEMMA FuncHeadEffect ==
  ASSUME Tree, NEW name \in Names, NEW params \in Seq(Names), FuncHead(name, params),
         NEW f, f = Len(nodes) + Len(params) + 1
  PROVE  FuncOpened(name, params, f)
<1> DEFINE N == Len(nodes)
           k == Len(params)
           M == 1 .. f
           MZ == M \cup {NoNode}
           ps == [i \in 1 .. k |-> N + i]
           heads == [i \in 1 .. k |-> Node("param", params[i], tokens + 1 + i)]
<1>1. N \in Nat /\ Nodes = 1 .. N /\ k \in Nat /\ f = N + k + 1
  BY Basics
<1>2. /\ nodes \in [1 .. N -> NodeSet] /\ parent \in [1 .. N -> Nodes \cup {NoNode}]
      /\ kids \in [1 .. N -> Seq(Nodes)]
      /\ table \in [1 .. N -> [Names -> Nodes \cup {NoNode}]]
      /\ ref \in [1 .. N -> Nodes \cup {NoNode}] /\ meant \in [1 .. N -> Nodes \cup {NoNode}]
      /\ open \in Seq(Seq(Nodes)) /\ env \in Seq([Names -> Nodes \cup {NoNode}])
      /\ tokens \in Nat /\ Len(env) = Len(open) + 1 /\ Len(open) \in Nat
  BY Basics
<1>3. /\ nodes' = nodes \o heads \o << Node("func", name, tokens + 1) >>
      /\ parent' = parent \o [i \in 1 .. k |-> f] \o <<NoNode>>
      /\ kids' = kids \o [i \in 1 .. k |-> <<>>] \o <<ps>>
      /\ table' = table \o [i \in 1 .. k + 1 |-> NoTable]
      /\ ref' = ref \o [i \in 1 .. k + 1 |-> NoNode]
      /\ meant' = meant \o [i \in 1 .. k + 1 |-> NoNode]
  BY SMTT(60), <1>1 DEF FuncHead, New
<1>4. /\ env' = Append(Declare(name, f),
                       [n \in Names |-> IF \E i \in 1 .. k : params[i] = n
                                        THEN N + (CHOOSE i \in 1 .. k : params[i] = n)
                                        ELSE NoNode])
      /\ tokens' = tokens + 1 + k /\ func' = f /\ open' = << <<>> >>
      /\ UNCHANGED <<phase, todo, cur, finished>>
  BY <1>1 DEF FuncHead, New
<1>5. params \in [1 .. k -> Names]
  OBVIOUS
<1> HIDE DEF N, k, ps, heads
<1>6. f \in Nat /\ Nodes \subseteq M /\ f \in M /\ f >= N
  BY <1>1
<1>7. Seq(Nodes) \subseteq Seq(M) /\ Nodes \cup {NoNode} \subseteq MZ
  BY <1>6, SeqWiden
<1>8. [Names -> Nodes \cup {NoNode}] \subseteq [Names -> MZ]
  BY <1>7
<1>9. \A i \in 1 .. k : N + i \in M
  BY <1>1
<1> HIDE DEF M, MZ
<1>10. /\ nodes' \in [1 .. f -> NodeSet] /\ nodes'[f] = Node("func", name, tokens + 1)
       /\ \A n \in 1 .. N : nodes'[n] = nodes[n]
       /\ \A i \in 1 .. k : nodes'[N + i] = Node("param", params[i], tokens + 1 + i)
  <2>1. Node("func", name, tokens + 1) \in NodeSet
    BY <1>2 DEF Node, NodeSet, Kinds
  <2>2. heads \in [1 .. k -> NodeSet]
    <3>1. \A i \in 1 .. k : tokens + 1 + i \in Nat /\ params[i] \in Names
      BY <1>1, <1>2, <1>5
    <3>2. \A i \in 1 .. k : Node("param", params[i], tokens + 1 + i) \in NodeSet
      BY <3>1 DEF Node, NodeSet, Kinds
    <3>3. QED
      BY <3>2 DEF heads
  <2>3. Joined(NodeSet, N, nodes, k, heads, Node("func", name, tokens + 1),
               nodes \o heads \o << Node("func", name, tokens + 1) >>)
    BY <2>1, <2>2, <1>1, <1>2, JoinEffect
  <2>4. \A i \in 1 .. k : heads[i] = Node("param", params[i], tokens + 1 + i)
    BY DEF heads
  <2>5. QED
    BY <2>3, <2>4, <1>1, <1>3 DEF Joined
<1>11. /\ parent' \in [1 .. f -> MZ] /\ parent'[f] = NoNode
       /\ \A n \in 1 .. N : parent'[n] = parent[n]
       /\ \A i \in 1 .. k : parent'[N + i] = f
  <2> DEFINE t == [i \in 1 .. k |-> f]
  <2>1. parent \in [1 .. N -> MZ] /\ NoNode \in MZ /\ f \in MZ
    BY <1>2, <1>6, <1>7 DEF MZ
  <2>2. t \in [1 .. k -> MZ] /\ \A i \in 1 .. k : t[i] = f
    BY <2>1
  <2> HIDE DEF t
  <2>3. Joined(MZ, N, parent, k, t, NoNode, parent \o t \o <<NoNode>>)
    BY <2>1, <2>2, <1>1, JoinEffect
  <2>4. parent' = parent \o t \o <<NoNode>>
    BY <1>3 DEF t
  <2>5. QED
    BY <2>2, <2>3, <2>4, <1>1 DEF Joined
<1>12. /\ kids' \in [1 .. f -> Seq(M)] /\ kids'[f] = ps
       /\ \A n \in 1 .. N : kids'[n] = kids[n]
       /\ \A i \in 1 .. k : kids'[N + i] = <<>>
  <2> DEFINE t == [i \in 1 .. k |-> <<>>]
  <2>1. kids \in [1 .. N -> Seq(M)] /\ <<>> \in Seq(M)
    BY <1>2, <1>7
  <2>2. t \in [1 .. k -> Seq(M)] /\ \A i \in 1 .. k : t[i] = <<>>
    BY <2>1
  <2>3. ps \in Seq(M)
    <3>1. ps \in [1 .. k -> M]
      BY <1>9 DEF ps
    <3>2. QED
      BY <3>1, <1>1
  <2> HIDE DEF t
  <2>4. Joined(Seq(M), N, kids, k, t, ps, kids \o t \o <<ps>>)
    BY <2>1, <2>2, <2>3, <1>1, JoinEffect
  <2>5. kids' = kids \o t \o <<ps>>
    BY <1>3 DEF t
  <2>6. QED
    BY <2>2, <2>4, <2>5, <1>1 DEF Joined
<1>13. /\ table' \in [1 .. f -> [Names -> MZ]]
       /\ \A n \in 1 .. N : table'[n] = table[n]
       /\ \A i \in 1 .. k + 1 : table'[N + i] = NoTable
  <2> DEFINE t == [i \in 1 .. k + 1 |-> NoTable]
  <2>1. table \in [1 .. N -> [Names -> MZ]]
    BY <1>2, <1>8
  <2>2. NoTable \in [Names -> MZ]
    BY <1>7 DEF NoTable
  <2>3. t \in [1 .. k + 1 -> [Names -> MZ]] /\ \A i \in 1 .. k + 1 : t[i] = NoTable
    BY <2>2
  <2>4. table' = table \o t
    BY <1>3
  <2> HIDE DEF t
  <2>5. Padded([Names -> MZ], N, table, k, NoTable, table \o t)
    BY <2>1, <2>2, <2>3, <1>1, PadEffect
  <2>6. QED
    BY <2>4, <2>5, <1>1 DEF Padded
<1>14. /\ ref' \in [1 .. f -> MZ] /\ meant' \in [1 .. f -> MZ]
       /\ \A n \in 1 .. N : ref'[n] = ref[n] /\ meant'[n] = meant[n]
       /\ \A i \in 1 .. k + 1 : ref'[N + i] = NoNode
  <2> DEFINE t == [i \in 1 .. k + 1 |-> NoNode]
  <2>1. ref \in [1 .. N -> MZ] /\ meant \in [1 .. N -> MZ] /\ NoNode \in MZ
    BY <1>2, <1>7
  <2>2. t \in [1 .. k + 1 -> MZ] /\ \A i \in 1 .. k + 1 : t[i] = NoNode
    BY <2>1
  <2>3. ref' = ref \o t /\ meant' = meant \o t
    BY <1>3
  <2> HIDE DEF t
  <2>4. Padded(MZ, N, ref, k, NoNode, ref \o t)
    BY <2>1, <2>2, <1>1, PadEffect
  <2>5. Padded(MZ, N, meant, k, NoNode, meant \o t)
    BY <2>1, <2>2, <1>1, PadEffect
  <2>6. QED
    BY <2>3, <2>4, <2>5, <1>1 DEF Padded
<1>16. open' \in Seq(Seq(M))
  BY <1>4
<1>17. env' \in Seq([Names -> MZ])
  <2> DEFINE t == [n \in Names |-> IF \E i \in 1 .. k : params[i] = n
                                   THEN N + (CHOOSE i \in 1 .. k : params[i] = n)
                                   ELSE NoNode]
  <2>1. t \in [Names -> MZ]
    BY <1>7, <1>9 DEF MZ
  <2>2. Declare(name, f) \in Seq([Names -> MZ])
    <3>1. Nodes \cup {NoNode} \subseteq MZ /\ f \in MZ /\ Len(env) > 0
      BY <1>2, <1>6, <1>7 DEF MZ
    <3>2. EntrySet(MZ, env, name, f, [env EXCEPT ![Len(env)] = [@ EXCEPT ![name] = f]])
      BY <1>2, <3>1, DeclareEffect
    <3>3. QED
      BY <3>2 DEF Declare, EntrySet
  <2> HIDE DEF t
  <2>3. env' = Append(Declare(name, f), t)
    BY <1>4 DEF t
  <2>4. QED
    BY <2>1, <2>2, <2>3
<1>18. tokens' \in Nat /\ func' \in MZ
  <2>1. tokens' = tokens + 1 + k /\ func' = f
    BY <1>4
  <2>2. tokens \in Nat /\ k \in Nat
    BY <1>1, <1>2
  <2>3. tokens + 1 + k \in Nat
    BY <2>2
  <2>4. f \in MZ
    BY <1>6 DEF MZ
  <2>5. QED
    BY <2>1, <2>3, <2>4
<1>19. TypeOK' /\ nodes' \in Seq(NodeSet) /\ Len(nodes') = f /\ Nodes' = 1 .. f
  BY <1>4, <1>6, <1>10, <1>11, <1>12, <1>13, <1>14, <1>16, <1>17, <1>18, TypesGrow
     DEF M, MZ, N
<1>20. \A n \in Nodes : Kept(n)
  BY <1>1, <1>10, <1>11, <1>12, <1>13, <1>14 DEF Kept, Stays
<1>21. f = N + (k + 1) /\ k + 1 \in 1 .. k + 1 /\ \A i \in 1 .. k : i \in 1 .. k + 1
  BY <1>1
<1>22. table'[f] = NoTable /\ ref'[f] = NoNode
  BY <1>13, <1>14, <1>21
<1>23. \A i \in 1 .. k : table'[N + i] = NoTable /\ ref'[N + i] = NoNode
  BY <1>13, <1>14, <1>21
<1>24. Len(kids'[f]) = k /\ \A i \in 1 .. k : kids'[f][i] = N + i
  <2>1. Len(ps) = k /\ \A i \in 1 .. k : ps[i] = N + i
    BY <1>1 DEF ps
  <2>2. QED
    BY <1>12, <2>1
<1>25. QED
  BY <1>10, <1>11, <1>12, <1>19, <1>20, <1>22, <1>23, <1>24 DEF FuncOpened, N, k

(* Lists of at most one node.                                              *)
LEMMA FewElems ==
  ASSUME NEW k \in {0, 1}, NEW m, NEW s, s \in [1 .. k -> {m}]
  PROVE  Len(s) = k /\ (k = 0 => Elems(s) = {}) /\ (k = 1 => Elems(s) = {m})
<1>1. DOMAIN s = 1 .. k /\ Len(s) = k /\ \A i \in 1 .. k : s[i] = m
  OBVIOUS
<1>2. k = 0 => 1 .. k = {}
  OBVIOUS
<1>3. k = 1 => 1 .. k = {1}
  OBVIOUS
<1>4. QED
  BY <1>1, <1>2, <1>3 DEF Elems

(* The variable d, with k uses in its initialiser.                          *)
VarDefined(name, init, k, d) ==
  /\ TypeOK' /\ nodes' \in Seq(NodeSet) /\ Len(nodes') = d /\ Nodes' = 1 .. d
  /\ \A n \in Nodes : Stays(n) /\ parent'[n] = parent[n]
  /\ \A n \in Nodes : open # <<>> \/ n # Unit => Kept(n)
  /\ k = 1 => /\ nodes'[Len(nodes) + 1] = Node("use", init, tokens + 2)
              /\ parent'[Len(nodes) + 1] = d /\ kids'[Len(nodes) + 1] = <<>>
              /\ table'[Len(nodes) + 1] = NoTable /\ ref'[Len(nodes) + 1] = NoNode
              /\ meant'[Len(nodes) + 1] = Meaning(env, init)
  /\ nodes'[d] = Node("var", name, tokens + 1)
  /\ Len(kids'[d]) = k /\ (k = 0 => Elems(kids'[d]) = {})
  /\ k = 1 => Elems(kids'[d]) = {Len(nodes) + 1}
  /\ table'[d] = NoTable /\ ref'[d] = NoNode
  /\ open # <<>> => parent'[d] = NoNode
  /\ open = <<>> => /\ parent'[d] = Unit
                    /\ kids'[Unit] = Append(kids[Unit], d)
                    /\ table'[Unit] = Emplaced(table[Unit], name, d)

LEMMA VarDefEffect ==
  ASSUME Tree, NEW name \in Names, NEW init \in Names \cup {NoUse}, VarDef(name, init),
         NEW k \in {0, 1}, k = 0 <=> init = NoUse, NEW d, d = Len(nodes) + k + 1
  PROVE  VarDefined(name, init, k, d)
<1> DEFINE N == Len(nodes)
           M == 1 .. d
           MZ == M \cup {NoNode}
           inner == IF init = NoUse THEN <<>> ELSE << Node("use", init, tokens + 2) >>
           own == [i \in 1 .. k |-> N + i]
           par == parent \o [i \in 1 .. k |-> d] \o <<NoNode>>
           ks == kids \o [i \in 1 .. k |-> <<>>] \o <<own>>
           tb == table \o [i \in 1 .. k + 1 |-> NoTable]
<1>1. N \in Nat /\ Nodes = 1 .. N /\ d = N + k + 1 /\ k \in Nat /\ Unit \in Nodes
  BY Basics
<1>2. /\ nodes \in [1 .. N -> NodeSet] /\ parent \in [1 .. N -> Nodes \cup {NoNode}]
      /\ kids \in [1 .. N -> Seq(Nodes)]
      /\ table \in [1 .. N -> [Names -> Nodes \cup {NoNode}]]
      /\ ref \in [1 .. N -> Nodes \cup {NoNode}] /\ meant \in [1 .. N -> Nodes \cup {NoNode}]
      /\ open \in Seq(Seq(Nodes)) /\ env \in Seq([Names -> Nodes \cup {NoNode}])
      /\ tokens \in Nat /\ func \in Nodes \cup {NoNode}
      /\ Len(env) = Len(open) + 1 /\ Len(open) \in Nat
  BY Basics
<1>3. Len(inner) = k
  BY <1>1
<1>3a. New(Len(inner) + 1) = d /\ \A i : New(i) = N + i
  BY <1>1, <1>3 DEF New
<1>3b. New(k + 1) = d
  BY <1>3, <1>3a
<1>4. /\ nodes' = nodes \o inner \o << Node("var", name, tokens + 1) >>
      /\ tokens' = tokens + 1 + k /\ env' = Declare(name, d)
      /\ UNCHANGED <<func, phase, todo, cur, finished>>
  BY ZenonT(30), <1>3, <1>3b DEF VarDef
<1>5. /\ ref' = ref \o [i \in 1 .. k + 1 |-> NoNode]
      /\ meant' = meant \o [i \in 1 .. k |-> Meaning(env, init)] \o <<NoNode>>
  BY ZenonT(30), <1>3 DEF VarDef
<1>6. IF open = <<>> THEN AddDecl(par, ks, tb, d, name) /\ open' = open
      ELSE parent' = par /\ kids' = ks /\ table' = tb /\ open' = AddItem(d)
  BY ZenonT(30), <1>3, <1>3a, <1>3b DEF VarDef
<1>7. \A i \in 1 .. k : i = 1 /\ k = 1
  BY <1>1
<1>7a. Len(own) = k /\ (k = 0 => Elems(own) = {}) /\ (k = 1 => Elems(own) = {N + 1})
  <2>1. own \in [1 .. k -> {N + 1}]
    BY <1>7
  <2> HIDE DEF own
  <2>2. QED
    BY <2>1, FewElems
<1> HIDE DEF N, inner, own, par, ks, tb
<1>8. d \in Nat /\ Nodes \subseteq M /\ d \in M /\ d >= N /\ d \notin Nodes
  BY <1>1
<1>9. Seq(Nodes) \subseteq Seq(M) /\ Nodes \cup {NoNode} \subseteq MZ
  BY <1>8, SeqWiden
<1>10. [Names -> Nodes \cup {NoNode}] \subseteq [Names -> MZ]
  BY <1>9
<1>11. \A i \in 1 .. k : N + i \in M
  BY <1>1
<1>12. d \in MZ /\ NoNode \in MZ /\ Unit \in M /\ NoTable \in [Names -> MZ]
  BY <1>1, <1>8, <1>9 DEF NoTable
<1> HIDE DEF M, MZ
<1>13. /\ nodes' \in [1 .. d -> NodeSet] /\ nodes'[d] = Node("var", name, tokens + 1)
       /\ \A n \in 1 .. N : nodes'[n] = nodes[n]
       /\ k = 1 => nodes'[N + 1] = Node("use", init, tokens + 2)
  <2>1. tokens + 1 \in Nat /\ tokens + 2 \in Nat
    BY <1>2
  <2>2. Node("var", name, tokens + 1) \in NodeSet
    BY <2>1 DEF Node, NodeSet, Kinds
  <2>3. init \in Names => Node("use", init, tokens + 2) \in NodeSet
    BY <2>1 DEF Node, NodeSet, Kinds
  <2>4. inner \in [1 .. k -> NodeSet] /\ (k = 1 => inner[1] = Node("use", init, tokens + 2))
    <3>1. CASE k = 0
      <4>1. inner = <<>>
        BY <3>1 DEF inner
      <4>2. QED
        BY <3>1, <4>1
    <3>2. CASE k = 1
      <4>1. inner = << Node("use", init, tokens + 2) >> /\ init \in Names
        BY <3>2 DEF inner
      <4>2. QED
        BY <2>3, <3>2, <4>1
    <3>3. QED
      BY <3>1, <3>2
  <2>5. Joined(NodeSet, N, nodes, k, inner, Node("var", name, tokens + 1),
               nodes \o inner \o << Node("var", name, tokens + 1) >>)
    BY <2>2, <2>4, <1>1, <1>2, JoinEffect
  <2>6. k = 1 => 1 \in 1 .. k
    OBVIOUS
  <2>7. QED
    BY <2>4, <2>5, <2>6, <1>1, <1>4 DEF Joined
<1>14. /\ par \in [1 .. d -> MZ] /\ par[d] = NoNode
       /\ \A n \in 1 .. N : par[n] = parent[n]
       /\ k = 1 => par[N + 1] = d
  <2> DEFINE t == [i \in 1 .. k |-> d]
  <2>1. parent \in [1 .. N -> MZ]
    BY <1>2, <1>9
  <2>2. t \in [1 .. k -> MZ] /\ (k = 1 => 1 \in 1 .. k /\ t[1] = d)
    BY <1>12
  <2>3. par = parent \o t \o <<NoNode>>
    BY DEF par
  <2> HIDE DEF t
  <2>4. Joined(MZ, N, parent, k, t, NoNode, parent \o t \o <<NoNode>>)
    BY <2>1, <2>2, <1>1, <1>12, JoinEffect
  <2>5. QED
    BY <2>2, <2>3, <2>4, <1>1 DEF Joined
<1>15. /\ ks \in [1 .. d -> Seq(M)] /\ ks[d] = own
       /\ \A n \in 1 .. N : ks[n] = kids[n]
       /\ k = 1 => ks[N + 1] = <<>>
  <2> DEFINE t == [i \in 1 .. k |-> <<>>]
  <2>1. kids \in [1 .. N -> Seq(M)] /\ <<>> \in Seq(M)
    BY <1>2, <1>9
  <2>2. t \in [1 .. k -> Seq(M)] /\ (k = 1 => 1 \in 1 .. k /\ t[1] = <<>>)
    BY <2>1
  <2>3. own \in Seq(M)
    <3>1. own \in [1 .. k -> M]
      BY <1>11 DEF own
    <3>2. QED
      BY <3>1, <1>1
  <2>4. ks = kids \o t \o <<own>>
    BY DEF ks
  <2> HIDE DEF t
  <2>5. Joined(Seq(M), N, kids, k, t, own, kids \o t \o <<own>>)
    BY <2>1, <2>2, <2>3, <1>1, JoinEffect
  <2>6. QED
    BY <2>2, <2>4, <2>5, <1>1 DEF Joined
<1>16. /\ tb \in [1 .. d -> [Names -> MZ]]
       /\ \A n \in 1 .. N : tb[n] = table[n]
       /\ tb[d] = NoTable /\ (k = 1 => tb[N + 1] = NoTable)
  <2> DEFINE t == [i \in 1 .. k + 1 |-> NoTable]
  <2>1. table \in [1 .. N -> [Names -> MZ]]
    BY <1>2, <1>10
  <2>2. t \in [1 .. k + 1 -> [Names -> MZ]] /\ \A i \in 1 .. k + 1 : t[i] = NoTable
    BY <1>12
  <2>3. tb = table \o t
    BY DEF tb
  <2> HIDE DEF t
  <2>4. Padded([Names -> MZ], N, table, k, NoTable, table \o t)
    BY <2>1, <2>2, <1>1, <1>12, PadEffect
  <2>5. d = N + (k + 1) /\ k + 1 \in 1 .. k + 1 /\ 1 \in 1 .. k + 1
    BY <1>1
  <2>6. QED
    BY <2>3, <2>4, <2>5, <1>1 DEF Padded
<1>17. /\ ref' \in [1 .. d -> MZ]
       /\ \A n \in 1 .. N : ref'[n] = ref[n]
       /\ ref'[d] = NoNode /\ (k = 1 => ref'[N + 1] = NoNode)
  <2> DEFINE t == [i \in 1 .. k + 1 |-> NoNode]
  <2>1. ref \in [1 .. N -> MZ]
    BY <1>2, <1>9
  <2>2. t \in [1 .. k + 1 -> MZ] /\ \A i \in 1 .. k + 1 : t[i] = NoNode
    BY <1>12
  <2>3. ref' = ref \o t
    BY <1>5
  <2> HIDE DEF t
  <2>4. Padded(MZ, N, ref, k, NoNode, ref \o t)
    BY <2>1, <2>2, <1>1, <1>12, PadEffect
  <2>5. d = N + (k + 1) /\ k + 1 \in 1 .. k + 1 /\ 1 \in 1 .. k + 1
    BY <1>1
  <2>6. QED
    BY <2>3, <2>4, <2>5, <1>1 DEF Padded
<1>18. env' \in Seq([Names -> MZ])
  <2>1. Nodes \cup {NoNode} \subseteq MZ /\ d \in MZ /\ Len(env) > 0
    BY <1>2, <1>9, <1>12
  <2>2. EntrySet(MZ, env, name, d, [env EXCEPT ![Len(env)] = [@ EXCEPT ![name] = d]])
    BY <1>2, <2>1, DeclareEffect
  <2>3. QED
    BY <1>4, <2>2 DEF Declare, EntrySet
<1>19. /\ meant' \in [1 .. d -> MZ]
       /\ \A n \in 1 .. N : meant'[n] = meant[n]
       /\ k = 1 => meant'[N + 1] = Meaning(env, init)
  <2> DEFINE means == Meaning(env, init)
             t == [i \in 1 .. k |-> means]
  <2>1. meant \in [1 .. N -> MZ]
    BY <1>2, <1>9
  <2>2. k = 1 => means \in MZ
    <3>1. k = 1 => init \in Names
      OBVIOUS
    <3>2. k = 1 => means \in Nodes \cup {NoNode}
      BY <1>2, <3>1, MeaningType
    <3>3. QED
      BY <1>9, <3>2
  <2>3. meant' = meant \o t \o <<NoNode>>
    BY <1>5
  <2> HIDE DEF means
  <2>4. t \in [1 .. k -> MZ] /\ (k = 1 => 1 \in 1 .. k /\ t[1] = means)
    BY <1>7, <2>2
  <2> HIDE DEF t
  <2>5. Joined(MZ, N, meant, k, t, NoNode, meant \o t \o <<NoNode>>)
    BY <2>1, <2>4, <1>1, <1>12, JoinEffect
  <2>6. QED
    BY <2>3, <2>4, <2>5, <1>1 DEF Joined, means
<1>20. CASE open # <<>>
  <2>1. parent' = par /\ kids' = ks /\ table' = tb /\ open' = AddItem(d)
    BY <1>6, <1>20
  <2>2. open' \in Seq(Seq(M))
    <3>1. Nodes \subseteq M /\ d \in M
      BY <1>8 DEF M
    <3>2. ItemAdded(M, open, d, [open EXCEPT ![Len(open)] = Append(@, d)])
      BY <1>2, <1>20, <3>1, AddItemEffect
    <3>3. QED
      BY <2>1, <3>2 DEF AddItem, ItemAdded
  <2>3. tokens' \in Nat /\ func' \in MZ
    <3>1. tokens + 1 + k \in Nat
      BY <1>1, <1>2
    <3>2. QED
      BY <1>2, <1>4, <1>9, <3>1
  <2>4. TypeOK' /\ nodes' \in Seq(NodeSet) /\ Len(nodes') = d /\ Nodes' = 1 .. d
    BY <1>4, <1>8, <1>13, <1>14, <1>15, <1>16, <1>17, <1>18, <1>19, <2>1, <2>2, <2>3, TypesGrow
       DEF M, MZ, N
  <2>5. \A n \in Nodes : Kept(n)
    BY <1>1, <1>13, <1>14, <1>15, <1>16, <1>17, <1>19, <2>1 DEF Kept, Stays
  <2>6. QED
    BY <1>7a, <1>13, <1>14, <1>15, <1>16, <1>17, <1>19, <1>20, <2>1, <2>4, <2>5 DEF VarDefined, Kept, N
<1>21. CASE open = <<>>
  <2>1. /\ parent' = [par EXCEPT ![d] = Unit]
        /\ kids' = [ks EXCEPT ![Unit] = Append(@, d)]
        /\ table' = [tb EXCEPT ![Unit] = Emplaced(@, name, d)]
        /\ open' = open
    BY <1>6, <1>21 DEF AddDecl
  <2>2. Unit \in 1 .. N /\ Unit \in 1 .. d /\ d \in 1 .. d /\ Unit # d /\ d \notin 1 .. N /\ 1 .. d = M
    BY <1>1, <1>8 DEF M
  <2>3. ks[Unit] = kids[Unit] /\ tb[Unit] = table[Unit] /\ d \in M /\ Unit \in MZ
    BY <1>8, <1>15, <1>16, <2>2 DEF MZ
  <2>4. parent' \in [1 .. d -> MZ] /\ parent'[d] = Unit /\ \A n \in 1 .. N : parent'[n] = parent[n]
    BY <1>14, <2>1, <2>2, <2>3
  <2>5. /\ kids' \in [1 .. d -> Seq(M)] /\ kids'[Unit] = Append(kids[Unit], d)
        /\ \A n \in 1 .. d : n # Unit => kids'[n] = ks[n]
    <3>1. Append(kids[Unit], d) \in Seq(M)
      BY <1>15, <2>2, <2>3
    <3>2. kids' = [ks EXCEPT ![Unit] = Append(kids[Unit], d)]
      BY <2>1, <2>3
    <3> DEFINE s == Append(kids[Unit], d)
    <3> HIDE DEF s
    <3>3. QED
      BY <1>15, <2>2, <3>1, <3>2 DEF s
  <2>6. /\ table' \in [1 .. d -> [Names -> MZ]] /\ table'[Unit] = Emplaced(table[Unit], name, d)
        /\ \A n \in 1 .. d : n # Unit => table'[n] = tb[n]
    <3>1. Emplaced(table[Unit], name, d) \in [Names -> MZ]
      BY <1>12, <1>16, <2>2, <2>3 DEF Emplaced
    <3>2. table' = [tb EXCEPT ![Unit] = Emplaced(table[Unit], name, d)]
      BY <2>1, <2>3
    <3>3. QED
      BY <1>16, <2>2, <3>1, <3>2
  <2>7. open' \in Seq(Seq(M))
    BY <1>21, <2>1
  <2>8. tokens' \in Nat /\ func' \in MZ
    <3>1. tokens + 1 + k \in Nat
      BY <1>1, <1>2
    <3>2. QED
      BY <1>2, <1>4, <1>9, <3>1
  <2>9. TypeOK' /\ nodes' \in Seq(NodeSet) /\ Len(nodes') = d /\ Nodes' = 1 .. d
    BY <1>4, <1>8, <1>13, <2>4, <2>5, <2>6, <1>17, <1>18, <1>19, <2>7, <2>8, TypesGrow
       DEF M, MZ, N
  <2>10. \A n \in Nodes : Stays(n) /\ parent'[n] = parent[n]
    BY <1>1, <1>13, <1>17, <1>19, <2>4 DEF Stays
  <2>11. \A n \in Nodes : n # Unit => Kept(n)
    <3>1. \A n \in Nodes : n \in 1 .. N /\ n \in 1 .. d
      BY <1>1
    <3>2. QED
      BY <3>1, <1>15, <1>16, <2>4, <2>5, <2>6, <2>10 DEF Kept
  <2>12. k = 1 => N + 1 \in 1 .. d /\ N + 1 # Unit
    BY <1>1, <2>2
  <2>13. k = 1 => /\ parent'[N + 1] = d /\ kids'[N + 1] = <<>> /\ table'[N + 1] = NoTable
    <3>1. k = 1 => N + 1 # d
      BY <1>1
    <3>2. QED
      BY <3>1, <1>14, <1>15, <1>16, <2>1, <2>5, <2>6, <2>12
  <2>14. kids'[d] = own /\ table'[d] = NoTable
    BY <1>15, <1>16, <2>2, <2>5, <2>6
  <2>15. QED
    BY <1>7a, <1>13, <1>17, <1>19, <1>21, <2>4, <2>5, <2>6, <2>9, <2>10, <2>11, <2>13, <2>14 DEF VarDefined, N
<1>22. QED
  BY <1>20, <1>21 DEF VarDefined

(* r is par, of length n, with the parent of list's elements changed to p. *)
LinkedTo(T, n, par, list, p, r) ==
  /\ r \in [1 .. n -> T]
  /\ \A i \in 1 .. n : i \in Elems(list) => r[i] = p
  /\ \A i \in 1 .. n : i \notin Elems(list) => r[i] = par[i]

LEMMA LinkedEffect ==
  ASSUME NEW S, NEW T, S \subseteq T, NEW n \in Nat, NEW par \in [1 .. n -> S], NEW list,
         NEW p \in T
  PROVE  LinkedTo(T, n, par, list, p, Linked(par, list, p))
<1>1. Linked(par, list, p) = [i \in 1 .. n |-> IF i \in Elems(list) THEN p ELSE par[i]]
  BY DEF Linked, Elems
<1>2. QED
  BY <1>1 DEF LinkedTo

(* The table of the innermost block is its scope.                          *)
LEMMA BlockTable ==
  ASSUME Tree, Scopes, NEW k \in 1 .. Len(open), k > 1
  PROVE  Entries(open[k]) = env[k + 1]
<1>1. open[k] \in Seq(Nodes) /\ k + 1 \in 1 .. Len(env) /\ k \in DOMAIN open
  BY Basics
<1>2. env[k + 1] \in [Names -> Nodes \cup {NoNode}]
  BY <1>1, Basics
<1>3. Declared(k) = {d \in Elems(open[k]) : Kind(d) \in {"var", "param"}}
  BY DEF Declared
<1>4. /\ \A x \in Names : env[k + 1][x] # NoNode =>
           env[k + 1][x] \in Declared(k) /\ NameOf(env[k + 1][x]) = x
      /\ \A d \in Declared(k) : env[k + 1][NameOf(d)] = d
  BY <1>1 DEF Scopes
<1> DEFINE D == Declared(k)
           t == env[k + 1]
           list == open[k]
<1> HIDE DEF D, t, list
<1>5. /\ list \in Seq(Nodes) /\ t \in [Names -> Nodes \cup {NoNode}]
      /\ D = {d \in Elems(list) : Kind(d) \in {"var", "param"}}
      /\ \A x \in Names : t[x] # NoNode => t[x] \in D /\ NameOf(t[x]) = x
      /\ \A d \in D : t[NameOf(d)] = d
  BY <1>1, <1>2, <1>3, <1>4 DEF D, t, list
<1>6. Entries(list) = t
  BY <1>5, EntriesAre
<1>7. QED
  BY <1>6 DEF t, list

(* With its parameters the body's table is the scope of the function.      *)
LEMMA BodyTable ==
  ASSUME Tree, Scopes, Len(open) = 1
  PROVE  Entries(open[1] \o kids[func]) = env[2]
<1>1. /\ open[1] \in Seq(Nodes) /\ 2 \in 1 .. Len(env) /\ 1 \in DOMAIN open
      /\ open # <<>>
  <2>1. open \in Seq(Seq(Nodes)) /\ Len(env) = 2
    BY Basics
  <2>2. 1 \in 1 .. Len(open) /\ 2 \in 1 .. 2 /\ Len(<<>>) # 1
    OBVIOUS
  <2>3. DOMAIN open = 1 .. Len(open) /\ open # <<>>
    BY <2>1, <2>2
  <2>4. QED
    BY <2>1, <2>2, <2>3
<1>2. func \in Nodes /\ kids[func] \in Seq(Nodes)
  BY <1>1, Basics DEF Tree, Shape, ShapeFunc
<1>3. env[2] \in [Names -> Nodes \cup {NoNode}]
  BY <1>1, Basics
<1> DEFINE list == open[1] \o kids[func]
           a == open[1]
           b == kids[func]
<1>4. list \in Seq(Nodes) /\ Elems(list) = Elems(a) \cup Elems(b)
  <2>1. a \in Seq(Nodes) /\ b \in Seq(Nodes)
    BY <1>1, <1>2
  <2> HIDE DEF a, b
  <2> DEFINE c == a \o b
  <2>2. /\ c \in Seq(Nodes) /\ DOMAIN c = 1 .. Len(a) + Len(b)
        /\ DOMAIN a = 1 .. Len(a) /\ DOMAIN b = 1 .. Len(b)
        /\ Len(a) \in Nat /\ Len(b) \in Nat
        /\ \A i \in 1 .. Len(a) : c[i] = a[i]
        /\ \A i \in 1 .. Len(b) : c[Len(a) + i] = b[i]
    BY <2>1
  <2> HIDE DEF c
  <2>3. \A i \in DOMAIN c : i \in DOMAIN a \/ i - Len(a) \in DOMAIN b
    BY <2>2
  <2>4. \A i \in DOMAIN c : c[i] \in Elems(a) \/ c[i] \in Elems(b)
    <3>1. \A i \in DOMAIN c : i \notin DOMAIN a => c[i] = b[i - Len(a)]
      BY <2>2, <2>3
    <3>2. QED
      BY <2>2, <2>3, <3>1 DEF Elems
  <2>5. \A i \in DOMAIN a : a[i] \in Elems(c)
    <3>1. \A i \in DOMAIN a : i \in DOMAIN c /\ c[i] = a[i]
      BY <2>2
    <3>2. QED
      BY <3>1 DEF Elems
  <2>6. \A i \in DOMAIN b : b[i] \in Elems(c)
    <3>1. \A i \in DOMAIN b : Len(a) + i \in DOMAIN c /\ c[Len(a) + i] = b[i]
      BY <2>2
    <3>2. QED
      BY <3>1 DEF Elems
  <2>7. \A e \in Elems(c) : e \in Elems(a) \cup Elems(b)
    BY <2>4 DEF Elems
  <2>8. \A e \in Elems(a) \cup Elems(b) : e \in Elems(c)
    BY <2>5, <2>6 DEF Elems
  <2>9. QED
    BY <2>2, <2>7, <2>8 DEF c, a, b
<1>5. Declared(1) = {d \in Elems(list) : Kind(d) \in {"var", "param"}}
  BY <1>4 DEF Declared
<1>6. /\ \A x \in Names : env[2][x] # NoNode =>
           env[2][x] \in Declared(1) /\ NameOf(env[2][x]) = x
      /\ \A d \in Declared(1) : env[2][NameOf(d)] = d
  <2>1. 1 + 1 = 2
    OBVIOUS
  <2>2. QED
    BY <1>1, <2>1 DEF Scopes
<1> DEFINE D == Declared(1)
           t == env[2]
<1> HIDE DEF D, t, list
<1>7. /\ list \in Seq(Nodes) /\ t \in [Names -> Nodes \cup {NoNode}]
      /\ D = {d \in Elems(list) : Kind(d) \in {"var", "param"}}
      /\ \A x \in Names : t[x] # NoNode => t[x] \in D /\ NameOf(t[x]) = x
      /\ \A d \in D : t[NameOf(d)] = d
  BY <1>3, <1>4, <1>5, <1>6 DEF D, t
<1>8. Entries(list) = t
  BY <1>7, EntriesAre
<1>9. QED
  BY <1>8 DEF t, list

LEMMA FrontEffect ==
  ASSUME NEW S, NEW s \in Seq(S), Len(s) > 0
  PROVE  /\ SubSeq(s, 1, Len(s) - 1) \in Seq(S)
         /\ Len(SubSeq(s, 1, Len(s) - 1)) = Len(s) - 1
         /\ \A i \in 1 .. Len(s) - 1 : SubSeq(s, 1, Len(s) - 1)[i] = s[i]
<1> DEFINE k == Len(s) - 1
           f == SubSeq(s, 1, k)
<1>1. k \in Nat /\ k \in Int /\ 1 \in Int /\ 1 .. k \subseteq 1 .. Len(s)
  OBVIOUS
<1>2. \A i \in 1 .. k : s[i] \in S
  BY <1>1
<1> HIDE DEF k
<1>3. /\ f \in Seq(S) /\ Len(f) = (IF 1 <= k THEN k - 1 + 1 ELSE 0)
      /\ \A i \in 1 .. k - 1 + 1 : f[i] = s[1 + i - 1]
  BY <1>1, <1>2, SubSeqProperties
<1>4. k - 1 + 1 = k /\ \A i \in 1 .. k : 1 + i - 1 = i
  BY <1>1
<1> HIDE DEF f
<1>5. f \in Seq(S) /\ Len(f) = k /\ \A i \in 1 .. k : f[i] = s[i]
  BY <1>1, <1>3, <1>4
<1>6. QED
  BY <1>5 DEF f, k

(* The block b takes the items of the innermost open block.                *)
BlockClosed(b) ==
  /\ TypeOK' /\ nodes' \in Seq(NodeSet) /\ Len(nodes') = b /\ Nodes' = 1 .. b
  /\ \A n \in Nodes : Stays(n) /\ kids'[n] = kids[n] /\ table'[n] = table[n]
  /\ \A n \in Nodes : n \in Elems(open[Len(open)]) => parent'[n] = b
  /\ \A n \in Nodes : n \notin Elems(open[Len(open)]) => parent'[n] = parent[n]
  /\ nodes'[b] = Node("block", Builtin, 0)
  /\ parent'[b] = NoNode /\ kids'[b] = open[Len(open)] /\ ref'[b] = NoNode
  /\ table'[b] = env[Len(open) + 1]
  /\ Len(open) > 1 /\ Len(open') = Len(open) - 1
  /\ \A k \in 1 .. Len(open) - 2 : open'[k] = open[k]
  /\ open'[Len(open) - 1] = Append(open[Len(open) - 1], b)
  /\ Elems(open'[Len(open) - 1]) = Elems(open[Len(open) - 1]) \cup {b}
  /\ Len(env') = Len(env) - 1
  /\ \A k \in 1 .. Len(env) - 1 : env'[k] = env[k]

LEMMA CloseBlockEffect ==
  ASSUME Tree, Scopes, CloseBlock, NEW b, b = Len(nodes) + 1
  PROVE  BlockClosed(b)
<1> DEFINE N == Len(nodes)
           M == 1 .. b
           MZ == M \cup {NoNode}
           items == open[Len(open)]
           o == SubSeq(open, 1, Len(open) - 1)
           lnk == Linked(parent, items, b)
<1>1. N \in Nat /\ Nodes = 1 .. N /\ b = N + 1
  BY Basics
<1>2. /\ nodes \in [1 .. N -> NodeSet] /\ parent \in [1 .. N -> Nodes \cup {NoNode}]
      /\ kids \in [1 .. N -> Seq(Nodes)]
      /\ table \in [1 .. N -> [Names -> Nodes \cup {NoNode}]]
      /\ ref \in [1 .. N -> Nodes \cup {NoNode}] /\ meant \in [1 .. N -> Nodes \cup {NoNode}]
      /\ open \in Seq(Seq(Nodes)) /\ env \in Seq([Names -> Nodes \cup {NoNode}])
      /\ tokens \in Nat /\ func \in Nodes \cup {NoNode}
      /\ Len(env) = Len(open) + 1 /\ Len(open) \in Nat
  BY Basics
<1>3. /\ nodes' = Append(nodes, Node("block", Builtin, 0))
      /\ ref' = Append(ref, NoNode) /\ meant' = Append(meant, NoNode)
      /\ env' = SubSeq(env, 1, Len(env) - 1)
      /\ UNCHANGED <<tokens, func, phase, todo, cur, finished>>
  BY DEF CloseBlock, Block
<1>4. /\ Len(open) > 1
      /\ parent' = Append(lnk, NoNode)
      /\ kids' = Append(kids, items)
      /\ table' = Append(table, Entries(items))
      /\ open' = [o EXCEPT ![Len(o)] = Append(@, b)]
  BY <1>1 DEF CloseBlock, New
<1>5. Len(open) \in 1 .. Len(open) /\ items \in Seq(Nodes)
  BY SMTT(30), <1>2, <1>4
<1>6. Entries(items) = env[Len(open) + 1]
  BY <1>4, <1>5, BlockTable
<1>7. env[Len(open) + 1] \in [Names -> Nodes \cup {NoNode}]
  <2>1. Len(open) + 1 \in 1 .. Len(env)
    BY <1>2
  <2>2. QED
    BY <1>2, <2>1
<1> HIDE DEF N, items, o, lnk
<1>8. b \in Nat /\ Nodes \subseteq M /\ b \in M /\ b >= N
  BY <1>1
<1>9. Seq(Nodes) \subseteq Seq(M) /\ Nodes \cup {NoNode} \subseteq MZ
  BY <1>8, SeqWiden
<1>10. [Names -> Nodes \cup {NoNode}] \subseteq [Names -> MZ]
  BY <1>9
<1>11. b \in MZ /\ NoNode \in MZ
  BY <1>8
<1> HIDE DEF M, MZ
<1>12. nodes' \in [1 .. b -> NodeSet] /\ nodes'[b] = Node("block", Builtin, 0)
      /\ \A n \in 1 .. N : nodes'[n] = nodes[n]
  <2>1. Node("block", Builtin, 0) \in NodeSet
    BY NamesAssumption DEF Node, NodeSet, Kinds
  <2>2. Appended(NodeSet, N, nodes, Node("block", Builtin, 0), Append(nodes, Node("block", Builtin, 0)))
    BY <2>1, <1>2, <1>1, AppendEffect
  <2>3. QED
    BY <2>2, <1>1, <1>3 DEF Appended
<1>13. /\ lnk \in [1 .. N -> MZ]
       /\ \A n \in 1 .. N : n \in Elems(items) => lnk[n] = b
       /\ \A n \in 1 .. N : n \notin Elems(items) => lnk[n] = parent[n]
  <2> DEFINE S == Nodes \cup {NoNode}
  <2> HIDE DEF S
  <2>1. parent \in [1 .. N -> S] /\ S \subseteq MZ
    BY <1>2, <1>9 DEF S
  <2>2. N \in Nat /\ b \in MZ
    BY <1>1, <1>11
  <2>3. LinkedTo(MZ, N, parent, items, b, Linked(parent, items, b))
    BY <2>1, <2>2, LinkedEffect
  <2>4. QED
    BY <2>3 DEF lnk, LinkedTo
<1>14. parent' \in [1 .. b -> MZ] /\ parent'[b] = NoNode
       /\ \A n \in 1 .. N : parent'[n] = lnk[n]
  <2>1. Appended(MZ, N, lnk, NoNode, Append(lnk, NoNode))
    BY <1>1, <1>11, <1>13, AppendEffect
  <2>2. QED
    BY <2>1, <1>1, <1>4 DEF Appended
<1>15. kids' \in [1 .. b -> Seq(M)] /\ kids'[b] = items
       /\ \A n \in 1 .. N : kids'[n] = kids[n]
  <2>1. kids \in [1 .. N -> Seq(M)] /\ items \in Seq(M)
    BY <1>2, <1>5, <1>9
  <2>2. Appended(Seq(M), N, kids, items, Append(kids, items))
    BY <2>1, <1>1, AppendEffect
  <2>3. QED
    BY <2>2, <1>1, <1>4 DEF Appended
<1>16. table' \in [1 .. b -> [Names -> MZ]] /\ table'[b] = env[Len(open) + 1]
       /\ \A n \in 1 .. N : table'[n] = table[n]
  <2> DEFINE t == env[Len(open) + 1]
  <2>1. table \in [1 .. N -> [Names -> MZ]] /\ t \in [Names -> MZ]
    BY <1>2, <1>7, <1>10
  <2>2. table' = Append(table, t)
    BY <1>4, <1>6
  <2> HIDE DEF t
  <2>3. Appended([Names -> MZ], N, table, t, Append(table, t))
    BY <2>1, <1>1, AppendEffect
  <2>4. QED
    BY <2>2, <2>3, <1>1 DEF Appended, t
<1>17. /\ ref' \in [1 .. b -> MZ] /\ meant' \in [1 .. b -> MZ] /\ ref'[b] = NoNode
       /\ \A n \in 1 .. N : ref'[n] = ref[n] /\ meant'[n] = meant[n]
  <2>1. ref \in [1 .. N -> MZ] /\ meant \in [1 .. N -> MZ]
    BY <1>2, <1>9
  <2>2. Appended(MZ, N, ref, NoNode, Append(ref, NoNode))
    BY <1>1, <1>11, <2>1, AppendEffect
  <2>3. Appended(MZ, N, meant, NoNode, Append(meant, NoNode))
    BY <1>1, <1>11, <2>1, AppendEffect
  <2>4. QED
    BY <2>2, <2>3, <1>1, <1>3 DEF Appended
<1>18. /\ o \in Seq(Seq(Nodes)) /\ Len(o) = Len(open) - 1 /\ o # <<>>
       /\ \A k \in 1 .. Len(open) - 1 : o[k] = open[k]
  <2>1. /\ o \in Seq(Seq(Nodes)) /\ Len(o) = Len(open) - 1
        /\ \A k \in 1 .. Len(open) - 1 : o[k] = open[k]
    BY <1>2, <1>4, FrontEffect DEF o
  <2>2. QED
    BY <2>1, <1>2, <1>4
<1>19. /\ open' \in Seq(Seq(M)) /\ Len(open') = Len(o)
       /\ \A k \in 1 .. Len(o) : k # Len(o) => open'[k] = o[k]
       /\ open'[Len(o)] = Append(o[Len(o)], b)
       /\ Elems(open'[Len(o)]) = Elems(o[Len(o)]) \cup {b}
  <2>1. Nodes \subseteq M /\ b \in M
    BY <1>8
  <2>2. ItemAdded(M, o, b, [o EXCEPT ![Len(o)] = Append(@, b)])
    BY <1>18, <2>1, AddItemEffect
  <2>3. QED
    BY <1>4, <2>2 DEF ItemAdded
<1>20. /\ Len(open') = Len(open) - 1
       /\ \A k \in 1 .. Len(open) - 2 : open'[k] = open[k]
       /\ open'[Len(open) - 1] = Append(open[Len(open) - 1], b)
       /\ Elems(open'[Len(open) - 1]) = Elems(open[Len(open) - 1]) \cup {b}
  <2>1. Len(open) - 1 \in 1 .. Len(open) - 1
    BY <1>2, <1>4
  <2>2. \A k \in 1 .. Len(open) - 2 : k \in 1 .. Len(o) /\ k # Len(o) /\ k \in 1 .. Len(open) - 1
    <3>1. Len(o) = Len(open) - 1 /\ Len(open) \in Nat
      BY <1>2, <1>18
    <3>2. QED
      BY <3>1
  <2>3. QED
    BY <2>1, <2>2, <1>18, <1>19
<1>21. /\ env' \in Seq([Names -> MZ]) /\ Len(env') = Len(env) - 1
       /\ \A k \in 1 .. Len(env) - 1 : env'[k] = env[k]
  <2>1. env \in Seq([Names -> MZ]) /\ Len(env) > 0
    BY <1>2, <1>10, SeqWiden
  <2>2. QED
    BY <2>1, <1>3, FrontEffect
<1>22. TypeOK' /\ nodes' \in Seq(NodeSet) /\ Len(nodes') = b /\ Nodes' = 1 .. b
  <2>1. tokens' \in Nat /\ func' \in MZ
    BY <1>2, <1>3, <1>9
  <2>2. QED
    BY <1>3, <1>8, <1>12, <1>14, <1>15, <1>16, <1>17, <1>19, <1>21, <2>1, TypesGrow DEF M, MZ, N
<1>23. \A n \in Nodes : Stays(n) /\ kids'[n] = kids[n] /\ table'[n] = table[n]
  BY <1>1, <1>12, <1>15, <1>16, <1>17 DEF Stays
<1>24. /\ \A n \in Nodes : n \in Elems(items) => parent'[n] = b
       /\ \A n \in Nodes : n \notin Elems(items) => parent'[n] = parent[n]
  BY <1>1, <1>13, <1>14
<1>25. QED
  BY <1>4, <1>12, <1>14, <1>15, <1>16, <1>17, <1>20, <1>21, <1>22, <1>23, <1>24 DEF BlockClosed, items

(* The block b becomes the body of the open function.                      *)
BodyClosed(b) ==
  /\ TypeOK' /\ nodes' \in Seq(NodeSet) /\ Len(nodes') = b /\ Nodes' = 1 .. b
  /\ \A n \in Nodes : Stays(n)
  /\ func \in Nodes /\ func # Unit /\ func # NoNode /\ Len(open) = 1
  /\ \A n \in Nodes : n # func /\ n \in Elems(open[1]) => parent'[n] = b
  /\ \A n \in Nodes : n # func /\ n \notin Elems(open[1]) => parent'[n] = parent[n]
  /\ parent'[func] = Unit /\ parent'[b] = func
  /\ \A n \in Nodes : n # Unit /\ n # func => kids'[n] = kids[n]
  /\ kids'[func] = Append(kids[func], b) /\ kids'[Unit] = Append(kids[Unit], func)
  /\ kids'[b] = open[1]
  /\ Elems(kids'[func]) = Elems(kids[func]) \cup {b}
  /\ Elems(kids'[Unit]) = Elems(kids[Unit]) \cup {func}
  /\ \A n \in Nodes : n # Unit => table'[n] = table[n]
  /\ table'[Unit] = [table[Unit] EXCEPT ![NameOf(func)] = func]
  /\ table'[b] = env[2]
  /\ nodes'[b] = Node("block", Builtin, 0) /\ ref'[b] = NoNode
  /\ open' = <<>> /\ func' = NoNode
  /\ Len(env') = 1 /\ env'[1] = env[1]

LEMMA CloseBodyEffect ==
  ASSUME Tree, Scopes, CloseBody, NEW b, b = Len(nodes) + 1
  PROVE  BodyClosed(b)
<1> DEFINE N == Len(nodes)
           M == 1 .. b
           MZ == M \cup {NoNode}
           items == open[1]
           all == items \o kids[func]
           lnk == Linked(parent, items, b)
           par == Append(lnk, func)
           own == Append(kids[func], b)
           kf == [kids EXCEPT ![func] = own]
           ks == Append(kf, items)
           tb == Append(table, Entries(all))
           unit == Append(ks[Unit], func)
           names == Emplaced(tb[Unit], NameOf(func), func)
<1>1. N \in Nat /\ Nodes = 1 .. N /\ b = N + 1 /\ Unit \in Nodes
  BY Basics
<1>2. /\ nodes \in [1 .. N -> NodeSet] /\ parent \in [1 .. N -> Nodes \cup {NoNode}]
      /\ kids \in [1 .. N -> Seq(Nodes)]
      /\ table \in [1 .. N -> [Names -> Nodes \cup {NoNode}]]
      /\ ref \in [1 .. N -> Nodes \cup {NoNode}] /\ meant \in [1 .. N -> Nodes \cup {NoNode}]
      /\ open \in Seq(Seq(Nodes)) /\ env \in Seq([Names -> Nodes \cup {NoNode}])
      /\ tokens \in Nat /\ func \in Nodes \cup {NoNode}
      /\ Len(env) = Len(open) + 1 /\ Len(open) \in Nat
  BY Basics
<1>3. /\ nodes' = Append(nodes, Node("block", Builtin, 0))
      /\ ref' = Append(ref, NoNode) /\ meant' = Append(meant, NoNode)
      /\ env' = SubSeq(env, 1, Len(env) - 1)
      /\ UNCHANGED <<tokens, phase, todo, cur, finished>>
  BY DEF CloseBody, Block
<1>4. /\ Len(open) = 1 /\ open' = <<>> /\ func' = NoNode
      /\ AddDecl(par, ks, tb, func, NameOf(func))
  BY <1>1 DEF CloseBody, New
<1>5. /\ parent' = [par EXCEPT ![func] = Unit]
      /\ kids' = [ks EXCEPT ![Unit] = unit]
      /\ table' = [tb EXCEPT ![Unit] = names]
  BY <1>4 DEF AddDecl
<1> HIDE DEF N, items, all, lnk, par, own, kf, ks, tb, unit, names
<1>6. open # <<>>
  <2>1. Len(<<>>) = 0
    OBVIOUS
  <2>2. QED
    BY <1>4, <2>1
<1>7. /\ func \in Nodes /\ func # Unit /\ func # NoNode /\ Kind(func) = "func"
  BY <1>2, <1>6 DEF Tree, Shape, ShapeFunc, Unit
<1>8. items \in Seq(Nodes) /\ kids[func] \in Seq(Nodes)
  <2>1. 1 \in 1 .. Len(open) /\ open \in Seq(Seq(Nodes))
    BY <1>2, <1>4
  <2>2. items \in Seq(Nodes)
    BY <2>1 DEF items
  <2>3. QED
    BY <1>1, <1>2, <1>7, <2>2
<1>9. Entries(all) = env[2] /\ env[2] \in [Names -> Nodes \cup {NoNode}]
  <2>1. 2 \in 1 .. Len(env)
    BY <1>2, <1>4
  <2>2. Entries(all) = env[2]
    BY <1>4, BodyTable DEF all, items
  <2>3. QED
    BY <1>2, <2>1, <2>2
<1>10. NameOf(func) \in Names /\ table[Unit] \in [Names -> Nodes \cup {NoNode}]
  BY <1>1, <1>2, <1>7 DEF NameOf, NodeSet
<1>11. table[Unit][NameOf(func)] = NoNode
  BY <1>7 DEF Scopes
<1>12. b \in Nat /\ Nodes \subseteq M /\ b \in M /\ b >= N /\ M = 1 .. b
  BY <1>1
<1>13. Seq(Nodes) \subseteq Seq(M) /\ Nodes \cup {NoNode} \subseteq MZ
  BY <1>12, SeqWiden
<1>14. [Names -> Nodes \cup {NoNode}] \subseteq [Names -> MZ]
  BY <1>13
<1>15. b \in MZ /\ NoNode \in MZ /\ func \in MZ /\ Unit \in MZ /\ func \in M
  BY <1>1, <1>7, <1>12
<1> HIDE DEF M, MZ
<1>16. nodes' \in [1 .. b -> NodeSet] /\ nodes'[b] = Node("block", Builtin, 0)
      /\ \A n \in 1 .. N : nodes'[n] = nodes[n]
  <2>1. Node("block", Builtin, 0) \in NodeSet
    BY NamesAssumption DEF Node, NodeSet, Kinds
  <2>2. Appended(NodeSet, N, nodes, Node("block", Builtin, 0), Append(nodes, Node("block", Builtin, 0)))
    BY <2>1, <1>2, <1>1, AppendEffect
  <2>3. QED
    BY <2>2, <1>1, <1>3 DEF Appended
<1>17. /\ lnk \in [1 .. N -> MZ]
       /\ \A n \in 1 .. N : n \in Elems(items) => lnk[n] = b
       /\ \A n \in 1 .. N : n \notin Elems(items) => lnk[n] = parent[n]
  <2> DEFINE S == Nodes \cup {NoNode}
  <2> HIDE DEF S
  <2>1. parent \in [1 .. N -> S] /\ S \subseteq MZ
    BY <1>2, <1>13 DEF S
  <2>2. N \in Nat /\ b \in MZ
    BY <1>1, <1>15
  <2>3. LinkedTo(MZ, N, parent, items, b, Linked(parent, items, b))
    BY <2>1, <2>2, LinkedEffect
  <2>4. QED
    BY <2>3 DEF lnk, LinkedTo
<1>18. par \in [1 .. b -> MZ] /\ par[b] = func /\ \A n \in 1 .. N : par[n] = lnk[n]
  <2>1. Appended(MZ, N, lnk, func, Append(lnk, func))
    BY <1>1, <1>15, <1>17, AppendEffect
  <2>2. QED
    BY <2>1, <1>1 DEF Appended, par
<1>19. /\ parent' \in [1 .. b -> MZ] /\ parent'[func] = Unit /\ parent'[b] = func
       /\ \A n \in 1 .. N : n # func => parent'[n] = lnk[n]
  <2>1. func \in 1 .. b /\ func # b /\ b \in 1 .. b /\ \A n \in 1 .. N : n \in 1 .. b
    BY <1>1, <1>7
  <2>2. QED
    BY <2>1, <1>5, <1>15, <1>18
<1>20. own \in Seq(M) /\ Elems(own) = Elems(kids[func]) \cup {b}
  <2> DEFINE l == kids[func]
  <2>1. l \in Seq(M)
    BY <1>8, <1>13
  <2> HIDE DEF l
  <2>2. Elems(Append(l, b)) = Elems(l) \cup {b} /\ Append(l, b) \in Seq(M)
    BY <1>12, <2>1, ElemsAppend DEF M
  <2>3. QED
    BY <2>2 DEF own, l
<1>21. /\ kf \in [1 .. N -> Seq(M)] /\ kf[func] = own
       /\ \A n \in 1 .. N : n # func => kf[n] = kids[n]
  <2>1. kids \in [1 .. N -> Seq(M)]
    BY <1>2, <1>13
  <2>2. QED
    BY <1>1, <1>7, <1>20, <2>1 DEF kf
<1>22. /\ ks \in [1 .. b -> Seq(M)] /\ ks[b] = items /\ \A n \in 1 .. N : ks[n] = kf[n]
  <2>1. items \in Seq(M)
    BY <1>8, <1>13
  <2>2. Appended(Seq(M), N, kf, items, Append(kf, items))
    BY <2>1, <1>1, <1>21, AppendEffect
  <2>3. QED
    BY <2>2, <1>1 DEF Appended, ks
<1>23. /\ unit \in Seq(M) /\ unit = Append(kids[Unit], func)
       /\ Elems(unit) = Elems(kids[Unit]) \cup {func}
  <2> DEFINE l == kids[Unit]
  <2>1. l \in Seq(M) /\ ks[Unit] = l
    BY <1>1, <1>2, <1>7, <1>13, <1>21, <1>22
  <2> HIDE DEF l
  <2>2. Elems(Append(l, func)) = Elems(l) \cup {func} /\ Append(l, func) \in Seq(M)
    BY <1>15, <2>1, ElemsAppend DEF M
  <2>3. QED
    BY <2>1, <2>2 DEF unit, l
<1>24. /\ kids' \in [1 .. b -> Seq(M)] /\ kids'[Unit] = unit /\ kids'[func] = own /\ kids'[b] = items
       /\ \A n \in 1 .. N : n # Unit /\ n # func => kids'[n] = kids[n]
  <2>1. /\ Unit \in 1 .. b /\ func \in 1 .. b /\ b \in 1 .. b /\ Unit # func
        /\ Unit # b /\ func # b /\ func \in 1 .. N /\ \A n \in 1 .. N : n \in 1 .. b
    BY <1>1, <1>7
  <2>2. QED
    BY <2>1, <1>5, <1>21, <1>22, <1>23
<1>25. /\ tb \in [1 .. b -> [Names -> MZ]] /\ tb[b] = env[2]
       /\ \A n \in 1 .. N : tb[n] = table[n]
  <2> DEFINE t == env[2]
  <2>1. table \in [1 .. N -> [Names -> MZ]] /\ t \in [Names -> MZ]
    BY <1>2, <1>9, <1>14
  <2>2. tb = Append(table, t)
    BY <1>9 DEF tb
  <2> HIDE DEF t
  <2>3. Appended([Names -> MZ], N, table, t, Append(table, t))
    BY <2>1, <1>1, AppendEffect
  <2>4. QED
    BY <2>2, <2>3, <1>1 DEF Appended, t
<1>26. names \in [Names -> MZ] /\ names = [table[Unit] EXCEPT ![NameOf(func)] = func]
  <2>1. tb[Unit] = table[Unit]
    BY <1>1, <1>25
  <2>2. names = [table[Unit] EXCEPT ![NameOf(func)] = func]
    BY <1>11, <2>1 DEF names, Emplaced
  <2>3. table[Unit] \in [Names -> MZ]
    BY <1>10, <1>14
  <2>4. QED
    BY <1>10, <1>15, <2>2, <2>3
<1>27. /\ table' \in [1 .. b -> [Names -> MZ]] /\ table'[Unit] = names /\ table'[b] = env[2]
       /\ \A n \in 1 .. N : n # Unit => table'[n] = table[n]
  <2>1. /\ Unit \in 1 .. b /\ b \in 1 .. b /\ Unit # b /\ \A n \in 1 .. N : n \in 1 .. b
    BY <1>1
  <2>2. QED
    BY <2>1, <1>5, <1>25, <1>26
<1>28. /\ ref' \in [1 .. b -> MZ] /\ meant' \in [1 .. b -> MZ] /\ ref'[b] = NoNode
       /\ \A n \in 1 .. N : ref'[n] = ref[n] /\ meant'[n] = meant[n]
  <2>1. ref \in [1 .. N -> MZ] /\ meant \in [1 .. N -> MZ]
    BY <1>2, <1>13
  <2>2. Appended(MZ, N, ref, NoNode, Append(ref, NoNode))
    BY <1>1, <1>15, <2>1, AppendEffect
  <2>3. Appended(MZ, N, meant, NoNode, Append(meant, NoNode))
    BY <1>1, <1>15, <2>1, AppendEffect
  <2>4. QED
    BY <2>2, <2>3, <1>1, <1>3 DEF Appended
<1>29. /\ env' \in Seq([Names -> MZ]) /\ Len(env') = 1 /\ env'[1] = env[1]
  <2>1. env \in Seq([Names -> MZ]) /\ Len(env) = 2 /\ Len(env) > 0 /\ Len(env) - 1 = 1 /\ 1 \in 1 .. 1
    BY <1>2, <1>4, <1>14, SeqWiden
  <2>2. QED
    BY <2>1, <1>3, FrontEffect
<1>30. TypeOK' /\ nodes' \in Seq(NodeSet) /\ Len(nodes') = b /\ Nodes' = 1 .. b
  <2>1. tokens' \in Nat /\ func' \in MZ
    BY <1>2, <1>3, <1>4, <1>15
  <2>2. open' \in Seq(Seq(M))
    BY <1>4
  <2>3. QED
    BY <1>3, <1>12, <1>16, <1>19, <1>24, <1>27, <1>28, <1>29, <2>1, <2>2, TypesGrow DEF M, MZ, N
<1>31. \A n \in Nodes : Stays(n)
  BY <1>1, <1>16, <1>28 DEF Stays
<1>32. /\ \A n \in Nodes : n # func /\ n \in Elems(items) => parent'[n] = b
       /\ \A n \in Nodes : n # func /\ n \notin Elems(items) => parent'[n] = parent[n]
  BY <1>1, <1>17, <1>19
<1>33. /\ \A n \in Nodes : n # Unit /\ n # func => kids'[n] = kids[n]
       /\ \A n \in Nodes : n # Unit => table'[n] = table[n]
  BY <1>1, <1>24, <1>27
<1>34. QED
  BY <1>4, <1>7, <1>16, <1>19, <1>20, <1>23, <1>24, <1>26, <1>27, <1>28, <1>29, <1>30, <1>31, <1>32, <1>33
     DEF BodyClosed, items, own

-----------------------------------------------------------------------------
(* The shape of the tree.                                                  *)

(* What every action of the parser leaves of a node.                       *)
Grows ==
  /\ Nodes \subseteq Nodes'
  /\ \A n \in Nodes :
       /\ Stays(n)
       /\ parent[n] # NoNode \/ n = Unit => parent'[n] = parent[n]
       /\ Kind(n) \in {"var", "use"} => kids'[n] = kids[n]
       /\ Elems(kids[n]) \subseteq Elems(kids'[n])
       /\ Kind(n) = "use" => \/ parent'[n] = parent[n]
                             \/ parent[n] = NoNode /\ nodes'[parent'[n]].kind # "var"

(* Where a node is that had no parent.                                     *)
Placed(n) ==
  IF parent'[n] = NoNode THEN n = func' \/ \E k \in DOMAIN open' : n \in Elems(open'[k])
  ELSE n \in Elems(kids'[parent'[n]]) /\ (parent'[n] = Unit \/ parent'[n] > n)

LEMMA KindsKept ==
  ASSUME NEW n, Stays(n)
  PROVE  Kind(n)' = Kind(n) /\ NameOf(n)' = NameOf(n) /\ IdentOf(n)' = IdentOf(n)
BY DEF Stays, Kind, NameOf, IdentOf

LEMMA ParentIsNode ==
  ASSUME Tree, NEW n \in Nodes
  PROVE  /\ parent[n] = NoNode \/ parent[n] \in Nodes
         /\ Elems(kids[n]) \subseteq Nodes /\ kids[n] \in Seq(Nodes)
<1>1. n \in 1 .. Len(nodes) /\ parent \in [1 .. Len(nodes) -> Nodes \cup {NoNode}]
      /\ kids \in [1 .. Len(nodes) -> Seq(Nodes)]
  BY Basics
<1>2. kids[n] \in Seq(Nodes) /\ parent[n] \in Nodes \cup {NoNode}
  BY <1>1
<1>3. QED
  BY <1>2, ElemsType

(* A use keeps what it is expected to find.                                *)
LEMMA ExpectedKept ==
  ASSUME Tree, Grows, NEW u \in Uses
  PROVE  Expected(u)' = Expected(u)
<1>1. u \in Nodes /\ nodes[u].kind = "use"
  BY DEF Uses, Kind
<1>2. \A n \in Nodes : nodes'[n] = nodes[n] /\ meant'[n] = meant[n]
  BY DEF Grows, Stays
<1>3. CASE parent'[u] = parent[u]
  <2>1. parent[u] = NoNode \/ parent[u] \in Nodes
    BY <1>1, ParentIsNode
  <2>2. NamesItself(u)' <=> NamesItself(u)
    BY <1>1, <1>2, <1>3, <2>1 DEF NamesItself, Kind, NameOf
  <2>3. QED
    BY <1>1, <1>2, <1>3, <2>2 DEF Expected
<1>4. CASE parent[u] = NoNode /\ nodes'[parent'[u]].kind # "var"
  <2>1. ~NamesItself(u) /\ ~NamesItself(u)'
    BY <1>4 DEF NamesItself, Kind
  <2>2. QED
    BY <1>1, <1>2, <2>1 DEF Expected
<1>5. QED
  BY <1>1, <1>3, <1>4 DEF Grows, Kind

LEMMA BelowGrows ==
  ASSUME Tree, Grows, NEW n \in Nodes, n > Unit, parent[n] = NoNode => Placed(n)
  PROVE  ShapeBelow(n)'
<1>1. ShapeBelow(n)
  BY DEF Tree, Shape
<1>2. \A m \in Nodes : Kind(m)' = Kind(m)
  BY KindsKept DEF Grows
<1>3. Kind(n)' # "unit"
  BY <1>1, <1>2 DEF ShapeBelow
<1>4. Kind(n)' = "var" => /\ Len(kids'[n]) <= 1
                          /\ \A c \in Elems(kids'[n]) : Kind(c)' = "use" /\ parent'[c] = n
  <2>1. SUFFICES ASSUME Kind(n) = "var" PROVE /\ Len(kids'[n]) <= 1
                          /\ \A c \in Elems(kids'[n]) : Kind(c)' = "use" /\ parent'[c] = n
    BY <1>2
  <2>2. kids'[n] = kids[n] /\ Len(kids[n]) <= 1
    BY <1>1, <2>1 DEF Grows, ShapeBelow
  <2>3. ASSUME NEW c \in Elems(kids[n]) PROVE Kind(c)' = "use" /\ parent'[c] = n
    <3>1. c \in Nodes /\ Kind(c) = "use" /\ parent[c] = n
      BY <1>1, <2>1, ParentIsNode DEF ShapeBelow
    <3>2. n # NoNode
      BY DEF Unit, NoNode
    <3>3. QED
      BY <1>2, <3>1, <3>2 DEF Grows
  <2>4. QED
    BY <2>2, <2>3
<1>4a. Kind(n)' = "use" => kids'[n] = <<>>
  <2>1. SUFFICES ASSUME Kind(n) = "use" PROVE kids'[n] = <<>>
    BY <1>2
  <2>2. kids'[n] = kids[n] /\ kids[n] = <<>>
    BY <1>1, <2>1 DEF Grows, ShapeBelow
  <2>3. QED
    BY <2>2
<1>5. CASE parent[n] = NoNode
  <2>1. parent'[n] = NoNode => n = func' \/ \E k \in DOMAIN open' : n \in Elems(open'[k])
    BY <1>5 DEF Placed
  <2>2. parent'[n] # NoNode => n \in Elems(kids'[parent'[n]]) /\ (parent'[n] = Unit \/ parent'[n] > n)
    BY <1>5 DEF Placed
  <2>3. QED
    BY <1>3, <1>4, <1>4a, <2>1, <2>2 DEF ShapeBelow
<1>6. CASE parent[n] # NoNode
  <2>0. PICK p \in Nodes : p = parent[n]
    BY <1>6, ParentIsNode
  <2>1. parent'[n] = p
    BY <1>6, <2>0 DEF Grows
  <2>2. n \in Elems(kids[p]) /\ (p = Unit \/ p > n \/ (p > Unit /\ Kind(p) = "func" /\ parent[p] = Unit))
    BY <1>1, <1>6, <2>0 DEF ShapeBelow
  <2>3. n \in Elems(kids'[p])
    BY <2>1, <2>2 DEF Grows
  <2>4. parent[p] = Unit => parent'[p] = Unit
    BY <2>1 DEF Grows, Unit, NoNode
  <2>5. p = Unit \/ p > n \/ (p > Unit /\ Kind(p)' = "func" /\ parent'[p] = Unit)
    BY <1>2, <2>1, <2>2, <2>4
  <2>6. parent'[n] # NoNode
    BY <1>6, <2>0, <2>1
  <2>8. /\ n \in Elems(kids'[parent'[n]])
        /\ \/ parent'[n] = Unit
           \/ parent'[n] > n
           \/ parent'[n] > Unit /\ nodes'[parent'[n]].kind = "func" /\ parent'[parent'[n]] = Unit
    BY <2>1, <2>3, <2>5 DEF Kind
  <2>9. QED
    BY ZenonT(30), <1>3, <1>4, <1>4a, <2>6, <2>8 DEF ShapeBelow, Kind
<1>7. QED
  BY <1>5, <1>6

(* An item of an open block was there, or it is the new node e.            *)
LEMMA OpenGrows ==
  ASSUME Tree, Grows, NEW e, e \notin Nodes, e > Unit,
         \A k \in DOMAIN open' : \A n \in Elems(open'[k]) :
           \/ k \in DOMAIN open /\ n \in Elems(open[k]) /\ parent'[n] = parent[n]
           \/ n = e /\ k = Len(open') /\ parent'[e] = NoNode /\ Kind(e)' \in {"var", "use", "block"}
  PROVE  ShapeOpen'
<1>1. ShapeOpen /\ \A k \in DOMAIN open : Elems(open[k]) \subseteq Nodes
  <2>1. open \in Seq(Seq(Nodes))
    BY Basics
  <2>2. \A k \in DOMAIN open : open[k] \in Seq(Nodes)
    BY <2>1
  <2>3. QED
    BY <2>2, ElemsType DEF Tree, Shape
<1>2. SUFFICES ASSUME NEW k \in DOMAIN open', NEW n \in Elems(open'[k])
               PROVE  /\ n > Unit /\ parent'[n] = NoNode /\ Kind(n)' \in {"var", "use", "block"}
                      /\ \A j \in DOMAIN open' : n \in Elems(open'[j]) => j = k
  BY DEF ShapeOpen
<1>3. CASE k \in DOMAIN open /\ n \in Elems(open[k]) /\ parent'[n] = parent[n]
  <2>1. n \in Nodes /\ Kind(n)' = Kind(n)
    BY <1>1, <1>3, KindsKept DEF Grows
  <2>2. n > Unit /\ parent'[n] = NoNode /\ Kind(n)' \in {"var", "use", "block"}
    BY <1>1, <1>3, <2>1 DEF ShapeOpen
  <2>3. ASSUME NEW j \in DOMAIN open', n \in Elems(open'[j]) PROVE j = k
    <3>1. j \in DOMAIN open /\ n \in Elems(open[j])
      BY <2>1, <2>3
    <3>2. QED
      BY <1>1, <1>3, <3>1 DEF ShapeOpen
  <2>4. QED
    BY <2>2, <2>3
<1>4. CASE n = e /\ k = Len(open') /\ parent'[e] = NoNode /\ Kind(e)' \in {"var", "use", "block"}
  <2>1. ASSUME NEW j \in DOMAIN open', n \in Elems(open'[j]) PROVE j = k
    BY <1>1, <1>4, <2>1
  <2>2. Kind(n)' = Kind(e)'
    BY <1>4 DEF Kind
  <2>3. QED
    BY <1>4, <2>1, <2>2
<1>5. QED
  BY <1>3, <1>4

LEMMA AddItemStep ==
  ASSUME Tree, open # <<>>, NEW e, open' = AddItem(e)
  PROVE  /\ Len(open') = Len(open) /\ Len(open) \in 1 .. Len(open)
         /\ DOMAIN open = 1 .. Len(open) /\ DOMAIN open' = 1 .. Len(open)
         /\ \A k \in 1 .. Len(open) : k # Len(open) => open'[k] = open[k]
         /\ open'[Len(open)] = Append(open[Len(open)], e)
         /\ Elems(open'[Len(open)]) = Elems(open[Len(open)]) \cup {e}
         /\ \A k \in DOMAIN open' :
              /\ k \in DOMAIN open /\ Elems(open[k]) \subseteq Elems(open'[k])
              /\ \A n \in Elems(open'[k]) : n \in Elems(open[k]) \/ (n = e /\ k = Len(open))
<1> DEFINE T == Nodes \cup {e}
<1>1. Nodes \subseteq T /\ e \in T /\ open \in Seq(Seq(Nodes)) /\ Len(open) \in Nat
  BY Basics
<1> HIDE DEF T
<1>2. ItemAdded(T, open, e, [open EXCEPT ![Len(open)] = Append(@, e)])
  BY <1>1, AddItemEffect
<1>3. ItemAdded(T, open, e, open')
  BY <1>2 DEF AddItem
<1>4. open' \in Seq(Seq(T)) /\ Len(open') = Len(open)
  BY <1>3 DEF ItemAdded
<1>5. DOMAIN open' = 1 .. Len(open) /\ DOMAIN open = 1 .. Len(open) /\ Len(open) \in 1 .. Len(open)
  BY <1>1, <1>4
<1>6. ASSUME NEW k \in DOMAIN open'
      PROVE  /\ k \in DOMAIN open /\ Elems(open[k]) \subseteq Elems(open'[k])
             /\ \A n \in Elems(open'[k]) : n \in Elems(open[k]) \/ (n = e /\ k = Len(open))
  <2>1. CASE k = Len(open)
    BY <1>3, <1>5, <2>1 DEF ItemAdded
  <2>2. CASE k # Len(open)
    BY <1>3, <1>5, <2>2 DEF ItemAdded
  <2>3. QED
    BY <2>1, <2>2
<1>7. QED
  BY <1>3, <1>5, <1>6 DEF ItemAdded

(* A function whose body stays open.                                       *)
LEMMA FuncGrows ==
  ASSUME Tree, Grows, func' = func, open # <<>> <=> open' # <<>>,
         func # NoNode => /\ parent'[func] = parent[func] /\ kids'[func] = kids[func]
                          /\ table'[func] = table[func]
  PROVE  ShapeFunc'
<1>1. ShapeFunc
  BY DEF Tree, Shape
<1>2. func' # NoNode <=> open' # <<>>
  BY <1>1 DEF ShapeFunc
<1>3. SUFFICES ASSUME func # NoNode
               PROVE  /\ func > Unit /\ Kind(func)' = "func" /\ parent'[func] = NoNode
                      /\ table'[func] = NoTable
                      /\ \A n \in Elems(kids'[func]) : n > Unit /\ Kind(n)' = "param"
  <2>1. Kind(func)' = nodes'[func'].kind /\ Kind(func) = nodes[func].kind
    BY DEF Kind
  <2>2. QED
    BY <1>2 DEF ShapeFunc
<1>4. PICK f \in Nodes : f = func
  BY <1>3, Basics
<1>5. Kind(f)' = Kind(f)
  BY KindsKept DEF Grows
<1>6. f > Unit /\ Kind(f) = "func" /\ parent[f] = NoNode /\ table[f] = NoTable
  BY <1>1, <1>3, <1>4 DEF ShapeFunc
<1>7. \A n \in Elems(kids[f]) : n > Unit /\ Kind(n)' = "param"
  <2>1. \A n \in Elems(kids[f]) : n \in Nodes /\ n > Unit /\ Kind(n) = "param"
    BY <1>1, <1>3, <1>4, ParentIsNode DEF ShapeFunc
  <2>2. QED
    BY <2>1, KindsKept DEF Grows
<1>8. parent'[f] = NoNode /\ kids'[f] = kids[f] /\ table'[f] = NoTable
  BY <1>3, <1>4, <1>6
<1>9. Kind(func)' = "func"
  <2>1. nodes'[f].kind = "func" /\ func' = f
    BY <1>4, <1>5, <1>6 DEF Kind
  <2>2. QED
    BY <2>1 DEF Kind
<1>10. QED
  BY <1>4, <1>6, <1>7, <1>8, <1>9

LEMMA ShapeKept ==
  ASSUME Tree, Grows, nodes' \in Seq(NodeSet),
         \A n \in Nodes : n > Unit /\ parent[n] = NoNode => Placed(n),
         \A n \in Nodes' : n \notin Nodes => ShapeBelow(n)',
         ShapeOpen', ShapeFunc', Len(env') = Len(open') + 1, phase' = "parse"
  PROVE  Shape'
<1>1. Unit \in Nodes /\ Unit \in Nodes' /\ Nodes' = 1 .. Len(nodes') /\ Unit \in Nat
  BY Basics DEF Grows, Nodes, Unit
<1>2. Len(nodes') >= Unit
  BY <1>1
<1>3. Kind(Unit)' = "unit" /\ parent'[Unit] = NoNode
  <2>1. Kind(Unit)' = Kind(Unit) /\ parent'[Unit] = parent[Unit]
    BY <1>1, KindsKept DEF Grows
  <2>2. QED
    BY <2>1 DEF Tree, Shape
<1>4. \A n \in Nodes' : n > Unit => ShapeBelow(n)'
  <2>1. \A n \in Nodes : n > Unit => ShapeBelow(n)'
    BY BelowGrows
  <2>2. QED
    BY <2>1
<1>5. \A n \in Nodes' : n <= Unit => Kind(n)' \notin {"var", "use"}
  <2>1. \A n \in Nodes' : n <= Unit => n \in Nodes
    BY <1>1, Basics
  <2>2. \A n \in Nodes : Kind(n)' = Kind(n)
    BY KindsKept DEF Grows
  <2>3. QED
    BY <2>1, <2>2 DEF Tree, Shape
<1>6. QED
  BY <1>2, <1>3, <1>4, <1>5 DEF Shape

(* The node e becomes an item of the innermost block.                      *)
LEMMA ItemTree ==
  ASSUME Tree, Grows, open # <<>>, NEW e, open' = AddItem(e), e \notin Nodes, e > Unit,
         parent'[e] = NoNode, Kind(e)' \in {"var", "use", "block"}, func' = func,
         \A n \in Nodes : Kept(n)
  PROVE  /\ \A n \in Nodes : n > Unit /\ parent[n] = NoNode => Placed(n)
         /\ \E k \in DOMAIN open' : e \in Elems(open'[k])
         /\ ShapeOpen' /\ ShapeFunc' /\ Len(open') = Len(open)
<1>1. /\ Len(open') = Len(open) /\ Len(open) \in 1 .. Len(open)
      /\ DOMAIN open = 1 .. Len(open) /\ DOMAIN open' = 1 .. Len(open)
      /\ \A k \in 1 .. Len(open) : k # Len(open) => open'[k] = open[k]
      /\ Elems(open'[Len(open)]) = Elems(open[Len(open)]) \cup {e}
  BY AddItemStep
<1>2. ASSUME NEW n \in Nodes, n > Unit, parent[n] = NoNode PROVE Placed(n)
  <2>1. n = func \/ \E k \in DOMAIN open : n \in Elems(open[k])
    BY <1>2 DEF Tree, Shape, ShapeBelow
  <2>2. \A k \in DOMAIN open : Elems(open[k]) \subseteq Elems(open'[k])
    BY <1>1
  <2>3. parent'[n] = NoNode
    BY <1>2 DEF Kept
  <2>4. QED
    BY <1>1, <2>1, <2>2, <2>3 DEF Placed
<1>3. ShapeOpen'
  <2>1. ASSUME NEW k \in DOMAIN open', NEW n \in Elems(open'[k])
        PROVE  \/ k \in DOMAIN open /\ n \in Elems(open[k]) /\ parent'[n] = parent[n]
               \/ n = e /\ k = Len(open') /\ parent'[e] = NoNode /\ Kind(e)' \in {"var", "use", "block"}
    <3>1. k \in DOMAIN open /\ (n \in Elems(open[k]) \/ (n = e /\ k = Len(open)))
      BY <1>1, <2>1
    <3>2. n \in Elems(open[k]) => n \in Nodes
      <4>1. open[k] \in Seq(Nodes)
        BY <3>1, Basics
      <4>2. QED
        BY <4>1, ElemsType
    <3>3. n \in Elems(open[k]) => parent'[n] = parent[n]
      BY <3>2 DEF Kept
    <3>4. QED
      BY <1>1, <3>1, <3>3
  <2>2. QED
    BY <2>1, OpenGrows
<1>4. ShapeFunc'
  <2>1. open' # <<>>
    <3>1. Len(<<>>) = 0 /\ 0 \notin 1 .. Len(open)
      OBVIOUS
    <3>2. QED
      BY <1>1, <3>1
  <2>2. func # NoNode => Kept(func)
    BY Basics
  <2>3. QED
    BY <2>1, <2>2, FuncGrows DEF Kept
<1>5. QED
  BY <1>1, <1>2, <1>3, <1>4

LEMMA UseTree ==
  ASSUME Tree, NEW name \in Names, Use(name)
  PROVE  Tree' /\ Grows
<1>1. PICK u \in Nat : u = Len(nodes) + 1
  BY Basics
<1>2. /\ TypeOK' /\ nodes' \in Seq(NodeSet) /\ Nodes' = 1 .. u
      /\ \A n \in Nodes : Kept(n)
      /\ nodes'[u] = Node("use", name, tokens + 1) /\ parent'[u] = NoNode
      /\ kids'[u] = <<>>
  BY <1>1, UseEffect
<1>3. /\ open # <<>> /\ open' = AddItem(u) /\ phase' = "parse"
      /\ func' = func /\ env' = env
  BY <1>1 DEF Use, New, Room
<1>4. Nodes = 1 .. Len(nodes) /\ Len(nodes) \in Nat /\ Len(nodes) >= Unit /\ Len(env) = Len(open) + 1
  BY Basics
<1>5. u \notin Nodes /\ u > Unit /\ Nodes \subseteq Nodes' /\ \A n \in Nodes' : n \notin Nodes => n = u
  BY <1>1, <1>2, <1>4 DEF Unit
<1>6. Grows
  BY <1>2, <1>5 DEF Grows, Kept
<1>7. Kind(u)' = "use"
  BY <1>2 DEF Kind, Node
<1>8. /\ \A n \in Nodes : n > Unit /\ parent[n] = NoNode => Placed(n)
      /\ \E k \in DOMAIN open' : u \in Elems(open'[k])
      /\ ShapeOpen' /\ ShapeFunc' /\ Len(open') = Len(open)
  BY <1>2, <1>3, <1>5, <1>6, <1>7, ItemTree
<1>9. ShapeBelow(u)'
  BY <1>2, <1>7, <1>8 DEF ShapeBelow
<1>10. Shape'
  BY <1>2, <1>3, <1>4, <1>5, <1>6, <1>8, <1>9, ShapeKept
<1>11. QED
  BY <1>2, <1>6, <1>10 DEF Tree

LEMMA VarDefTree ==
  ASSUME Tree, NEW name \in Names, NEW init \in Names \cup {NoUse}, VarDef(name, init)
  PROVE  Tree' /\ Grows
<1>0. PICK k \in {0, 1} : k = 0 <=> init = NoUse
  <2>1. CASE init = NoUse
    BY <2>1
  <2>2. CASE init # NoUse
    <3>1. 1 \in {0, 1} /\ 1 # 0
      OBVIOUS
    <3>2. QED
      BY <2>2, <3>1
  <2>3. QED
    BY <2>1, <2>2
<1>1. PICK N \in Nat : N = Len(nodes)
  BY Basics
<1>2. PICK d \in Nat : d = N + k + 1
  OBVIOUS
<1>3. /\ TypeOK' /\ nodes' \in Seq(NodeSet) /\ Nodes' = 1 .. d
      /\ \A n \in Nodes : Stays(n) /\ parent'[n] = parent[n]
      /\ \A n \in Nodes : open # <<>> \/ n # Unit => Kept(n)
      /\ k = 1 => /\ nodes'[N + 1] = Node("use", init, tokens + 2)
                  /\ parent'[N + 1] = d /\ kids'[N + 1] = <<>>
      /\ nodes'[d] = Node("var", name, tokens + 1)
      /\ Len(kids'[d]) = k /\ (k = 0 => Elems(kids'[d]) = {})
      /\ k = 1 => Elems(kids'[d]) = {N + 1}
      /\ table'[d] = NoTable
      /\ open # <<>> => parent'[d] = NoNode
      /\ open = <<>> => /\ parent'[d] = Unit
                        /\ kids'[Unit] = Append(kids[Unit], d)
  <2>1. d = Len(nodes) + k + 1
    BY <1>1, <1>2
  <2>2. VarDefined(name, init, k, d)
    BY <1>0, <2>1, VarDefEffect
  <2>3. QED
    BY <1>1, <2>2 DEF VarDefined
<1>4. /\ phase' = "parse" /\ func' = func /\ env' = Declare(name, d)
      /\ open # <<>> => open' = AddItem(d)
      /\ open = <<>> => open' = open
  <2> DEFINE inner == IF init = NoUse THEN <<>> ELSE << Node("use", init, tokens + 2) >>
  <2>1. Len(inner) = k
    BY <1>0
  <2> HIDE DEF inner
  <2>2. New(k + 1) = d
    BY <1>1, <1>2 DEF New
  <2>3. QED
    BY ZenonT(30), <2>1, <2>2 DEF VarDef, Room, inner
<1>5. Nodes = 1 .. N /\ N >= Unit /\ Len(env) = Len(open) + 1 /\ Len(open) \in Nat /\ Unit \in Nodes
      /\ env \in Seq([Names -> Nodes \cup {NoNode}]) /\ func \in Nodes \cup {NoNode}
  BY <1>1, Basics
<1>6. /\ d \notin Nodes /\ d > Unit /\ Nodes \subseteq Nodes' /\ d \in Nodes'
      /\ \A n \in Nodes' : n \notin Nodes => n = d \/ (k = 1 /\ n = N + 1)
      /\ k = 1 => N + 1 < d /\ N + 1 > Unit /\ N + 1 \notin Nodes
  BY <1>2, <1>3, <1>5 DEF Unit
<1>7. Len(kids'[d]) <= 1
  BY <1>3
<1>8. open = <<>> => Elems(kids'[Unit]) = Elems(kids[Unit]) \cup {d}
  <2> DEFINE l == kids[Unit]
             T == Nodes \cup {d}
  <2>1. l \in Seq(T) /\ d \in T
    BY <1>5, ParentIsNode, SeqWiden
  <2>2. open = <<>> => kids'[Unit] = Append(l, d)
    BY <1>3
  <2> HIDE DEF l, T
  <2>3. Elems(Append(l, d)) = Elems(l) \cup {d}
    BY <2>1, ElemsAppend
  <2>4. QED
    BY <2>2, <2>3 DEF l
<1>9. Grows
  <2>1. ASSUME NEW n \in Nodes
        PROVE /\ Stays(n) /\ parent'[n] = parent[n] /\ (Kind(n) \in {"var", "use"} => kids'[n] = kids[n])
              /\ Elems(kids[n]) \subseteq Elems(kids'[n])
    <3>1. Kind(Unit) \notin {"var", "use"}
      BY DEF Tree, Shape
    <3>2. QED
      BY <1>3, <1>8, <3>1 DEF Kept
  <2>2. QED
    BY <1>6, <2>1 DEF Grows
<1>10. Kind(d)' = "var" /\ (k = 1 => Kind(N + 1)' = "use")
  <2>1. nodes'[d].kind = "var" /\ (k = 1 => nodes'[N + 1].kind = "use")
    BY <1>3 DEF Node
  <2>2. QED
    BY <2>1 DEF Kind
<1>11. Len(env') = Len(env)
  <2>1. Len(env) \in 1 .. Len(env)
    BY <1>5
  <2>2. QED
    BY <1>4, <1>5 DEF Declare
<1>12. k = 1 => ShapeBelow(N + 1)'
  <2>1. SUFFICES ASSUME k = 1 PROVE ShapeBelow(N + 1)'
    OBVIOUS
  <2>2. parent'[N + 1] = d /\ d # NoNode /\ d > N + 1 /\ N + 1 \in Elems(kids'[parent'[N + 1]])
        /\ Kind(N + 1)' = "use" /\ kids'[N + 1] = <<>>
    BY <1>3, <1>6, <1>3, <1>7, <1>10, <2>1 DEF NoNode
  <2>3. parent'[N + 1] # NoNode /\ parent'[N + 1] > N + 1
    BY <2>2
  <2>4. QED
    BY <2>2, <2>3 DEF ShapeBelow
<1>13. /\ Len(kids'[d]) <= 1
       /\ \A c \in Elems(kids'[d]) : Kind(c)' = "use" /\ parent'[c] = d
  BY <1>3, <1>3, <1>7, <1>10
<1>14. CASE open # <<>>
  <2>1. \A n \in Nodes : Kept(n)
    BY <1>3, <1>14
  <2>2. parent'[d] = NoNode /\ open' = AddItem(d)
    BY <1>3, <1>4, <1>14
  <2>3. /\ \A n \in Nodes : n > Unit /\ parent[n] = NoNode => Placed(n)
        /\ \E j \in DOMAIN open' : d \in Elems(open'[j])
        /\ ShapeOpen' /\ ShapeFunc' /\ Len(open') = Len(open)
    BY <1>4, <1>6, <1>9, <1>10, <1>14, <2>1, <2>2, ItemTree
  <2>4. ShapeBelow(d)'
    BY <1>10, <1>13, <2>2, <2>3 DEF ShapeBelow
  <2>5. \A n \in Nodes' : n \notin Nodes => ShapeBelow(n)'
    BY <1>6, <1>12, <2>4
  <2>6. Shape'
    BY <1>3, <1>4, <1>5, <1>9, <1>11, <2>3, <2>5, ShapeKept
  <2>7. QED
    BY <1>3, <1>9, <2>6 DEF Tree
<1>15. CASE open = <<>>
  <2>1. open' = <<>> /\ func = NoNode /\ func' = NoNode /\ DOMAIN open = {} /\ DOMAIN open' = {}
    BY <1>4, <1>15 DEF Tree, Shape, ShapeFunc
  <2>2. \A n \in Nodes : n > Unit => parent[n] # NoNode
    <3>1. \A n \in Nodes : n > Unit => n # NoNode
      BY DEF Unit, NoNode
    <3>2. QED
      BY <2>1, <3>1 DEF Tree, Shape, ShapeBelow
  <2>3. ShapeOpen' /\ ShapeFunc'
    BY <2>1 DEF ShapeOpen, ShapeFunc
  <2>4. ShapeBelow(d)'
    <3>1. parent'[d] = Unit /\ Unit # NoNode /\ d \in Elems(kids'[Unit])
      BY <1>3, <1>8, <1>15 DEF Unit, NoNode
    <3>2. d \in Elems(kids'[parent'[d]]) /\ parent'[d] # NoNode
      BY <3>1
    <3>3. QED
      BY <1>10, <1>13, <3>1, <3>2 DEF ShapeBelow
  <2>5. \A n \in Nodes' : n \notin Nodes => ShapeBelow(n)'
    BY <1>6, <1>12, <2>4
  <2>6. Shape'
    BY <1>3, <1>4, <1>5, <1>9, <1>11, <1>15, <2>2, <2>3, <2>5, ShapeKept
  <2>7. QED
    BY <1>3, <1>9, <2>6 DEF Tree
<1>16. QED
  BY <1>14, <1>15

(* Parameters have different names.                                        *)
Distinct(params) == \A i, j \in 1 .. Len(params) : params[i] = params[j] => i = j

(* The scopes at the head of the function f.                               *)
LEMMA FuncEnv ==
  ASSUME Tree, NEW name \in Names, NEW params \in Seq(Names), FuncHead(name, params),
         NEW f, f = Len(nodes) + Len(params) + 1
  PROVE  /\ Len(env') = 2 /\ env'[1][name] = f
         /\ \A x \in Names : x # name => env'[1][x] = env[1][x]
         /\ \A x \in Names : env'[2][x] # NoNode =>
              \E i \in 1 .. Len(params) : x = params[i] /\ env'[2][x] = Len(nodes) + i
         /\ Distinct(params) =>
              \A i \in 1 .. Len(params) : env'[2][params[i]] = Len(nodes) + i
<1> DEFINE k == Len(params)
           first(x) == CHOOSE i \in 1 .. k : params[i] = x
           t == [x \in Names |-> IF \E i \in 1 .. k : params[i] = x
                                 THEN New(first(x)) ELSE NoNode]
           e == [env EXCEPT ![Len(env)] = [@ EXCEPT ![name] = f]]
           T == Nodes \cup {NoNode} \cup {f}
<1>1. open = <<>> /\ env' = Append(Declare(name, New(k + 1)), t)
  BY DEF FuncHead
<1>2. New(k + 1) = f /\ \A i : New(i) = Len(nodes) + i
  BY Basics DEF New
<1>3. env \in Seq([Names -> Nodes \cup {NoNode}]) /\ Len(env) = 1
  <2>1. Len(open) = 0
    BY <1>1
  <2>2. QED
    BY <2>1, Basics
<1>4. Nodes \cup {NoNode} \subseteq T /\ f \in T
  OBVIOUS
<1> HIDE DEF T, k, first, t
<1>5. /\ e \in Seq([Names -> T]) /\ Len(e) = 1 /\ e[1][name] = f
      /\ \A x \in Names : x # name => e[1][x] = env[1][x]
  <2>0. Len(env) > 0
    BY <1>3
  <2>1. EntrySet(T, env, name, f, [env EXCEPT ![Len(env)] = [@ EXCEPT ![name] = f]])
    BY <1>3, <1>4, <2>0, DeclareEffect
  <2>1a. EntrySet(T, env, name, f, e)
    BY <2>1
  <2> HIDE DEF e
  <2>2. QED
    BY <1>3, <2>1a DEF EntrySet
<1> HIDE DEF e
<1>6. env' = Append(e, t)
  BY <1>1, <1>2 DEF e, Declare
<1>7. ASSUME NEW x \in Names, t[x] # NoNode
      PROVE  \E i \in 1 .. k : x = params[i] /\ t[x] = Len(nodes) + i
  <2> USE DEF k, first, t
  <2>1. \E i \in 1 .. k : params[i] = x
    BY <1>7
  <2>2. first(x) \in 1 .. k /\ params[first(x)] = x /\ t[x] = New(first(x))
    BY <2>1
  <2> HIDE DEF first
  <2>3. QED
    BY <1>2, <2>2
<1>8. ASSUME Distinct(params), NEW i \in 1 .. k PROVE t[params[i]] = Len(nodes) + i
  <2> USE DEF k, first, t
  <2>1. params[i] \in Names /\ k = Len(params)
    OBVIOUS
  <2>2. PICK x \in Names : x = params[i]
    BY <2>1
  <2>3. first(x) \in 1 .. k /\ params[first(x)] = params[i] /\ t[x] = New(first(x))
    BY <2>2
  <2> HIDE DEF first
  <2>4. first(x) = i
    BY <1>8, <2>1, <2>3 DEF Distinct
  <2> HIDE DEF t, k
  <2>5. QED
    BY <1>2, <2>2, <2>3, <2>4
<1>9. Len(env') = 2 /\ env'[1] = e[1] /\ env'[2] = t
  <2> DEFINE S == [Names -> T] \cup {t}
  <2>1. e \in Seq(S) /\ t \in S /\ Len(e) = 1
    BY <1>5, SeqWiden
  <2> HIDE DEF S
  <2>2. Len(e) + 1 = 2 /\ 1 \in 1 .. Len(e)
    BY <2>1
  <2>3. SeqAppended(e, t, Append(e, t))
    BY <2>1, SeqAppend
  <2>4. QED
    BY <1>6, <2>2, <2>3 DEF SeqAppended
<1>10. QED
  BY <1>5, <1>7, <1>8, <1>9 DEF k

LEMMA FuncHeadTree ==
  ASSUME Tree, NEW name \in Names, NEW params \in Seq(Names), FuncHead(name, params)
  PROVE  Tree' /\ Grows
<1>1. PICK N \in Nat : N = Len(nodes)
  BY Basics
<1>2. PICK k \in Nat : k = Len(params)
  OBVIOUS
<1>3. PICK f \in Nat : f = N + k + 1
  OBVIOUS
<1>4. /\ TypeOK' /\ nodes' \in Seq(NodeSet) /\ Nodes' = 1 .. f
      /\ \A n \in Nodes : Kept(n)
      /\ \A i \in 1 .. k : /\ nodes'[N + i] = Node("param", params[i], tokens + 1 + i)
                           /\ parent'[N + i] = f
      /\ nodes'[f] = Node("func", name, tokens + 1)
      /\ parent'[f] = NoNode /\ table'[f] = NoTable
      /\ Len(kids'[f]) = k /\ \A i \in 1 .. k : kids'[f][i] = N + i
  <2>1. f = Len(nodes) + Len(params) + 1
    BY <1>1, <1>2, <1>3
  <2>2. FuncOpened(name, params, f)
    BY <2>1, FuncHeadEffect
  <2>3. QED
    BY <1>1, <1>2, <2>2 DEF FuncOpened
<1>5. /\ open = <<>> /\ phase' = "parse" /\ func' = f /\ open' = << <<>> >>
  BY <1>1, <1>2, <1>3 DEF FuncHead, Room, New
<1>6. Len(env') = 2
  <2>1. f = Len(nodes) + Len(params) + 1
    BY <1>1, <1>2, <1>3
  <2>2. QED
    BY <2>1, FuncEnv
<1>7. Nodes = 1 .. N /\ N >= Unit /\ Len(env) = Len(open) + 1
  BY <1>1, Basics
<1>8. /\ f \notin Nodes /\ f > Unit /\ f # NoNode /\ Nodes \subseteq Nodes' /\ f \in Nodes'
      /\ \A n \in Nodes' : n \notin Nodes /\ n # f => n - N \in 1 .. k /\ n = N + (n - N)
      /\ \A i \in 1 .. k : N + i > Unit /\ N + i < f /\ N + i # f
  BY <1>3, <1>4, <1>7 DEF Unit, NoNode
<1>9. /\ \A i \in 1 .. k : N + i \in Elems(kids'[f])
      /\ \A n \in Elems(kids'[f]) : \E i \in 1 .. k : n = N + i
  <2> DEFINE l == kids'[f]
  <2>1. l \in Seq(Nodes')
    BY <1>4, <1>8 DEF TypeOK
  <2>2. Len(l) = k /\ \A i \in 1 .. k : l[i] = N + i
    BY <1>4
  <2> HIDE DEF l
  <2>3. DOMAIN l = 1 .. k
    BY <2>1, <2>2
  <2>4. Elems(l) = {l[i] : i \in 1 .. k}
    BY <2>3 DEF Elems
  <2>5. /\ \A i \in 1 .. k : N + i \in Elems(l)
        /\ \A n \in Elems(l) : \E i \in 1 .. k : n = N + i
    BY <2>2, <2>4
  <2>6. QED
    BY <2>5 DEF l
<1>10. Grows
  BY <1>4, <1>8 DEF Grows, Kept
<1>11. Kind(f)' = "func" /\ \A i \in 1 .. k : Kind(N + i)' = "param"
  <2>1. nodes'[f].kind = "func"
    BY <1>4 DEF Node
  <2>2. ASSUME NEW i \in 1 .. k PROVE nodes'[N + i].kind = "param"
    <3>1. nodes'[N + i] = Node("param", params[i], tokens + 1 + i)
      BY <1>4
    <3>2. QED
      BY <3>1 DEF Node
  <2>3. QED
    BY <2>1, <2>2 DEF Kind
<1>12. func = NoNode /\ DOMAIN open = {}
  BY <1>5 DEF Tree, Shape, ShapeFunc
<1>13. \A n \in Nodes : n > Unit => parent[n] # NoNode
  <2>1. \A n \in Nodes : n > Unit => n # NoNode
    BY DEF Unit, NoNode
  <2>2. QED
    BY <1>12, <2>1 DEF Tree, Shape, ShapeBelow
<1>14. ShapeBelow(f)'
  BY <1>4, <1>5, <1>11 DEF ShapeBelow
<1>15. ASSUME NEW i \in 1 .. k PROVE ShapeBelow(N + i)'
  <2>1. parent'[N + i] = f /\ Kind(N + i)' = "param" /\ f > N + i /\ f # NoNode
    BY <1>4, <1>8, <1>11
  <2>2. N + i \in Elems(kids'[f])
    BY <1>9
  <2>3. parent'[N + i] # NoNode /\ parent'[N + i] > N + i /\ N + i \in Elems(kids'[parent'[N + i]])
    BY <2>1, <2>2
  <2>4. QED
    BY <2>1, <2>3 DEF ShapeBelow
<1>16. \A n \in Nodes' : n \notin Nodes => ShapeBelow(n)'
  <2>1. ASSUME NEW n \in Nodes', n \notin Nodes PROVE ShapeBelow(n)'
    <3>1. CASE n = f
      BY <1>14, <3>1
    <3>2. CASE n # f
      <4>1. PICK i \in 1 .. k : n = N + i
        BY <1>8, <2>1, <3>2
      <4>2. QED
        BY <1>15, <4>1
    <3>3. QED
      BY <3>1, <3>2
  <2>2. QED
    BY <2>1
<1>17. DOMAIN open' = {1} /\ Elems(open'[1]) = {} /\ open' # <<>> /\ Len(open') = 1
  <2>1. Elems(<<>>) = {}
    BY DEF Elems
  <2>2. QED
    BY <1>5, <2>1
<1>18. ShapeOpen'
  BY <1>17 DEF ShapeOpen
<1>19. ShapeFunc'
  <2>0. \A n \in Elems(kids'[f]) : n > Unit /\ Kind(n)' = "param"
    <3>1. SUFFICES ASSUME NEW n \in Elems(kids'[f]) PROVE n > Unit /\ Kind(n)' = "param"
      OBVIOUS
    <3>2. PICK i \in 1 .. k : n = N + i
      BY <1>9
    <3>3. QED
      BY <1>8, <1>11, <3>2
  <2>1. /\ f > Unit /\ Kind(f)' = "func" /\ parent'[f] = NoNode /\ table'[f] = NoTable
        /\ \A n \in Elems(kids'[f]) : n > Unit /\ Kind(n)' = "param"
    BY <1>4, <1>8, <1>11, <2>0
  <2>2. QED
    BY <1>5, <1>8, <1>17, <2>1 DEF ShapeFunc, Kind
<1>20. Len(env') = Len(open') + 1
  BY <1>6, <1>17
<1>21. Shape'
  BY <1>4, <1>5, <1>10, <1>13, <1>16, <1>18, <1>19, <1>20, ShapeKept
<1>22. QED
  BY <1>4, <1>10, <1>21 DEF Tree

LEMMA OpenBlockTree ==
  ASSUME Tree, OpenBlock
  PROVE  Tree' /\ Grows /\ \A n \in Nodes : Kept(n)
<1>1. /\ open' = Append(open, <<>>) /\ env' = Append(env, NoTable) /\ phase' = "parse"
      /\ open # <<>> /\ func' = func
      /\ UNCHANGED <<nodes, parent, kids, table, ref, meant, tokens, phase, todo, cur, finished>>
  BY DEF OpenBlock, Room, tree, walk
<1>2. /\ open \in Seq(Seq(Nodes)) /\ env \in Seq([Names -> Nodes \cup {NoNode}])
      /\ Len(env) = Len(open) + 1 /\ Len(open) \in Nat /\ DOMAIN open = 1 .. Len(open)
      /\ func \in Nodes \cup {NoNode}
  BY Basics
<1>3. NoTable \in [Names -> Nodes \cup {NoNode}] /\ <<>> \in Seq(Nodes)
  BY DEF NoTable
<1>4. /\ open' \in Seq(Seq(Nodes)) /\ Len(open') = Len(open) + 1 /\ DOMAIN open' = 1 .. Len(open) + 1
      /\ \A k \in 1 .. Len(open) : open'[k] = open[k]
      /\ open'[Len(open) + 1] = <<>> /\ open' # <<>>
  <2> DEFINE none == <<>>
             S == Seq(Nodes)
  <2>1. none \in S /\ open \in Seq(S) /\ open' = Append(open, none)
    BY <1>1, <1>2, <1>3
  <2> HIDE DEF none, S
  <2>2. /\ open' \in Seq(S) /\ Len(open') = Len(open) + 1
        /\ \A k \in 1 .. Len(open) : open'[k] = open[k]
        /\ open'[Len(open) + 1] = none
    BY <2>1
  <2>3. DOMAIN open' = 1 .. Len(open) + 1
    BY <2>2
  <2>4. open' # <<>>
    <3>1. Len(<<>>) = 0 /\ Len(open) + 1 # 0
      BY <1>2
    <3>2. QED
      BY <2>2, <3>1
  <2>5. QED
    BY <2>2, <2>3, <2>4 DEF none, S
<1>5. env' \in Seq([Names -> Nodes \cup {NoNode}]) /\ Len(env') = Len(env) + 1
  BY <1>1, <1>2, <1>3
<1>6. Nodes' = Nodes
  BY <1>1 DEF Nodes
<1>7. TypeOK'
  BY <1>1, <1>4, <1>5, <1>6 DEF Tree, TypeOK, Frames
<1>8. Grows /\ \A n \in Nodes : Kept(n)
  BY <1>1, <1>6 DEF Grows, Kept, Stays
<1>9. ASSUME NEW n \in Nodes, n > Unit, parent[n] = NoNode PROVE Placed(n)
  <2>1. n = func \/ \E k \in DOMAIN open : n \in Elems(open[k])
    BY <1>9 DEF Tree, Shape, ShapeBelow
  <2>2. \A k \in DOMAIN open : k \in DOMAIN open' /\ open'[k] = open[k]
    BY <1>2, <1>4
  <2>3. n = func' \/ \E k \in DOMAIN open' : n \in Elems(open'[k])
    BY <1>1, <2>1, <2>2
  <2>4. QED
    BY <1>1, <1>9, <2>3 DEF Placed
<1>10. ShapeOpen'
  <2>1. Elems(<<>>) = {}
    BY DEF Elems
  <2>2. ASSUME NEW k \in DOMAIN open', NEW n \in Elems(open'[k])
        PROVE  k \in DOMAIN open /\ n \in Elems(open[k]) /\ parent'[n] = parent[n]
    <3>1. k # Len(open) + 1
      BY <1>4, <2>1, <2>2
    <3>2. QED
      BY <1>1, <1>2, <1>4, <2>2, <3>1
  <2>3. PICK e \in Nat : e \notin Nodes /\ e > Unit
    <3>1. Len(nodes) + 1 \in Nat /\ Len(nodes) + 1 \notin Nodes /\ Len(nodes) + 1 > Unit
      BY Basics DEF Unit
    <3>2. QED
      BY <3>1
  <2>4. QED
    BY <1>8, <2>2, <2>3, OpenGrows
<1>11. ShapeFunc'
  BY <1>1, <1>4, <1>8, FuncGrows
<1>12. Shape'
  <2>1. nodes' \in Seq(NodeSet)
    BY <1>1 DEF Tree, Shape
  <2>2. QED
    BY <1>1, <1>2, <1>4, <1>5, <1>6, <1>8, <1>9, <1>10, <1>11, <2>1, ShapeKept
<1>13. QED
  BY <1>7, <1>8, <1>12 DEF Tree

(* The items of an open block, apart from the others.                      *)
LEMMA ItemFacts ==
  ASSUME Tree, NEW k \in DOMAIN open
  PROVE  /\ open[k] \in Seq(Nodes) /\ Elems(open[k]) \subseteq Nodes
         /\ \A n \in Elems(open[k]) : /\ n > Unit /\ n # Unit /\ n # func /\ parent[n] = NoNode
                                      /\ Kind(n) \in {"var", "use", "block"}
                                      /\ \A j \in DOMAIN open : n \in Elems(open[j]) => j = k
<1>1. open[k] \in Seq(Nodes)
  BY Basics
<1>2. Elems(open[k]) \subseteq Nodes
  BY <1>1, ElemsType
<1>3. \A n \in Elems(open[k]) : /\ n > Unit /\ parent[n] = NoNode
                                /\ Kind(n) \in {"var", "use", "block"}
                                /\ \A j \in DOMAIN open : n \in Elems(open[j]) => j = k
  BY DEF Tree, Shape, ShapeOpen
<1>4. \A n \in Elems(open[k]) : n # func /\ n # Unit
  <2>1. func # NoNode => Kind(func) = "func"
    BY DEF Tree, Shape, ShapeFunc
  <2>2. \A n \in Nodes : n # NoNode
    BY Basics DEF NoNode
  <2>3. QED
    BY <1>2, <1>3, <2>1, <2>2 DEF Unit
<1>5. QED
  BY <1>1, <1>2, <1>3, <1>4

LEMMA CloseBlockTree ==
  ASSUME Tree, Scopes, CloseBlock
  PROVE  Tree' /\ Grows
<1>1. PICK b \in Nat : b = Len(nodes) + 1
  BY Basics
<1>2. PICK m \in Nat : m = Len(open)
  BY Basics
<1>3. /\ TypeOK' /\ nodes' \in Seq(NodeSet) /\ Nodes' = 1 .. b
      /\ \A n \in Nodes : Stays(n) /\ kids'[n] = kids[n] /\ table'[n] = table[n]
      /\ \A n \in Nodes : n \in Elems(open[m]) => parent'[n] = b
      /\ \A n \in Nodes : n \notin Elems(open[m]) => parent'[n] = parent[n]
      /\ nodes'[b] = Node("block", Builtin, 0)
      /\ parent'[b] = NoNode /\ kids'[b] = open[m]
      /\ m > 1 /\ Len(open') = m - 1
      /\ \A k \in 1 .. m - 2 : open'[k] = open[k]
      /\ Elems(open'[m - 1]) = Elems(open[m - 1]) \cup {b}
      /\ Len(env') = Len(env) - 1
  <2>1. BlockClosed(b)
    BY <1>1, CloseBlockEffect
  <2>2. QED
    BY <1>2, <2>1 DEF BlockClosed
<1>4. phase' = "parse" /\ func' = func
  BY DEF CloseBlock
<1>5. /\ Nodes = 1 .. Len(nodes) /\ Len(nodes) >= Unit /\ Len(env) = m + 1
      /\ DOMAIN open = 1 .. m /\ func \in Nodes \cup {NoNode}
  BY <1>2, Basics
<1>6. /\ b \notin Nodes /\ b > Unit /\ b # NoNode /\ Nodes \subseteq Nodes'
      /\ \A n \in Nodes' : n \notin Nodes => n = b
      /\ \A n \in Nodes : b > n
  BY SMTT(30), <1>1, <1>3, <1>5 DEF Unit, NoNode
<1>7. m \in DOMAIN open /\ m - 1 \in DOMAIN open /\ m - 1 # m
  BY <1>3, <1>5
<1>8. DOMAIN open' = 1 .. m - 1
  <2>1. open' \in Seq(Seq(Nodes'))
    BY <1>3 DEF TypeOK, Frames
  <2>2. QED
    BY <1>3, <2>1
<1>9. \A k \in 1 .. m - 1 : /\ k \in DOMAIN open /\ k # m
                            /\ Elems(open[k]) \subseteq Elems(open'[k])
                            /\ \A n \in Elems(open'[k]) : n \in Elems(open[k]) \/ (n = b /\ k = m - 1)
  <2>1. \A k \in 1 .. m - 1 : k \in DOMAIN open /\ k # m /\ (k \in 1 .. m - 2 \/ k = m - 1)
    BY <1>5
  <2>2. QED
    BY SMTT(30), <1>3, <2>1
<1>10. \A n \in Elems(open[m]) : n > Unit /\ n # Unit /\ n # func /\ parent[n] = NoNode
  BY <1>7, ItemFacts
<1>11. Grows
  <2>1. \A n \in Nodes : parent[n] # NoNode \/ n = Unit => parent'[n] = parent[n]
    BY <1>3, <1>10
  <2>2. \A n \in Nodes : \/ parent'[n] = parent[n]
                         \/ parent[n] = NoNode /\ nodes'[parent'[n]].kind # "var"
    <3>1. nodes'[b].kind # "var"
      BY <1>3 DEF Node
    <3>2. \A n \in Nodes : parent'[n] = parent[n] \/ (parent[n] = NoNode /\ parent'[n] = b)
      BY <1>3, <1>10
    <3>3. QED
      BY <3>1, <3>2
  <2>3. QED
    BY <1>3, <1>6, <2>1, <2>2 DEF Grows
<1>12. ASSUME NEW n \in Nodes, n > Unit, parent[n] = NoNode PROVE Placed(n)
  <2>1. CASE n \in Elems(open[m])
    <3>1. parent'[n] = b /\ n \in Elems(kids'[b]) /\ b > n
      BY <1>3, <1>6, <2>1
    <3>2. n \in Elems(kids'[parent'[n]]) /\ parent'[n] > n /\ parent'[n] # NoNode
      BY <1>6, <3>1
    <3>3. QED
      BY <3>2 DEF Placed
  <2>2. CASE n \notin Elems(open[m])
    <3>1. parent'[n] = NoNode
      BY <1>3, <1>12, <2>2
    <3>2. n = func \/ \E k \in DOMAIN open : n \in Elems(open[k])
      BY <1>12 DEF Tree, Shape, ShapeBelow
    <3>3. \A k \in DOMAIN open : k # m => k \in 1 .. m - 1
      BY <1>5
    <3>4. n = func' \/ \E k \in DOMAIN open' : n \in Elems(open'[k])
      BY <1>4, <1>8, <1>9, <2>2, <3>2, <3>3
    <3>5. QED
      BY <3>1, <3>4 DEF Placed
  <2>3. QED
    BY <2>1, <2>2
<1>13. Kind(b)' = "block"
  BY <1>3 DEF Kind, Node
<1>14. ShapeBelow(b)'
  <2>1. m - 1 \in DOMAIN open' /\ b \in Elems(open'[m - 1])
    BY <1>3, <1>8
  <2>2. QED
    BY <1>3, <1>13, <2>1 DEF ShapeBelow
<1>15. ShapeOpen'
  <2>1. ASSUME NEW k \in DOMAIN open', NEW n \in Elems(open'[k])
        PROVE  \/ k \in DOMAIN open /\ n \in Elems(open[k]) /\ parent'[n] = parent[n]
               \/ n = b /\ k = Len(open') /\ parent'[b] = NoNode /\ Kind(b)' \in {"var", "use", "block"}
    <3>1. CASE n \in Elems(open[k])
      <4>1. k \in DOMAIN open /\ k # m
        BY <1>8, <1>9
      <4>2. n \in Nodes /\ n \notin Elems(open[m])
        BY <1>7, <3>1, <4>1, ItemFacts
      <4>3. QED
        BY <1>3, <3>1, <4>1, <4>2
    <3>2. CASE n = b /\ k = m - 1
      BY <1>3, <1>13, <3>2
    <3>3. QED
      BY <1>8, <1>9, <3>1, <3>2
  <2>2. QED
    BY <1>6, <1>11, <2>1, OpenGrows
<1>16. ShapeFunc'
  <2>1. open # <<>> /\ open' # <<>>
    <3>1. Len(<<>>) = 0 /\ m # 0 /\ m - 1 # 0
      BY <1>3
    <3>2. QED
      BY <1>2, <1>3, <3>1
  <2>2. func # NoNode => /\ parent'[func] = parent[func] /\ kids'[func] = kids[func]
                         /\ table'[func] = table[func]
    BY <1>3, <1>5, <1>10
  <2>3. QED
    BY <1>4, <1>11, <2>1, <2>2, FuncGrows
<1>17. Len(env') = Len(open') + 1
  BY <1>3, <1>5
<1>18. Shape'
  BY <1>3, <1>4, <1>6, <1>11, <1>12, <1>14, <1>15, <1>16, <1>17, ShapeKept
<1>19. QED
  BY <1>3, <1>11, <1>18 DEF Tree

LEMMA CloseBodyTree ==
  ASSUME Tree, Scopes, CloseBody
  PROVE  Tree' /\ Grows
<1>1. PICK b \in Nat : b = Len(nodes) + 1
  BY Basics
<1>2. PICK f \in Nodes : f = func
  <2>1. BodyClosed(Len(nodes) + 1)
    BY CloseBodyEffect
  <2>2. QED
    BY <2>1 DEF BodyClosed
<1>3. /\ TypeOK' /\ nodes' \in Seq(NodeSet) /\ Nodes' = 1 .. b
      /\ \A n \in Nodes : Stays(n)
      /\ f # Unit /\ f # NoNode /\ Len(open) = 1
      /\ \A n \in Nodes : n # f /\ n \in Elems(open[1]) => parent'[n] = b
      /\ \A n \in Nodes : n # f /\ n \notin Elems(open[1]) => parent'[n] = parent[n]
      /\ parent'[f] = Unit /\ parent'[b] = f
      /\ \A n \in Nodes : n # Unit /\ n # f => kids'[n] = kids[n]
      /\ kids'[b] = open[1]
      /\ Elems(kids'[f]) = Elems(kids[f]) \cup {b}
      /\ Elems(kids'[Unit]) = Elems(kids[Unit]) \cup {f}
      /\ nodes'[b] = Node("block", Builtin, 0)
      /\ open' = <<>> /\ func' = NoNode /\ Len(env') = 1
  <2>1. BodyClosed(b)
    BY <1>1, CloseBodyEffect
  <2>2. QED
    BY <1>2, <2>1 DEF BodyClosed
<1>4. phase' = "parse"
  BY DEF CloseBody
<1>5. Nodes = 1 .. Len(nodes) /\ Len(nodes) >= Unit /\ open \in Seq(Seq(Nodes))
  BY Basics
<1>6. /\ b \notin Nodes /\ b > Unit /\ b # NoNode /\ Nodes \subseteq Nodes'
      /\ \A n \in Nodes' : n \notin Nodes => n = b
      /\ \A n \in Nodes : b > n
  BY <1>1, <1>3, <1>5 DEF Unit, NoNode
<1>7. DOMAIN open = {1}
  BY <1>3, <1>5
<1>8. f > Unit /\ Kind(f) = "func" /\ parent[f] = NoNode
  BY <1>2, <1>3 DEF Tree, Shape, ShapeFunc
<1>9. \A n \in Elems(open[1]) : n > Unit /\ n # Unit /\ n # f /\ parent[n] = NoNode
  BY <1>2, <1>7, ItemFacts
<1>10. Kind(Unit) = "unit"
  BY DEF Tree, Shape
<1>11. Grows
  <2>1. \A n \in Nodes : parent[n] # NoNode \/ n = Unit => parent'[n] = parent[n]
    BY <1>3, <1>8, <1>9
  <2>2. \A n \in Nodes : Kind(n) \in {"var", "use"} => kids'[n] = kids[n]
    BY <1>3, <1>8, <1>10
  <2>3. \A n \in Nodes : Elems(kids[n]) \subseteq Elems(kids'[n])
    BY <1>3
  <2>4. ASSUME NEW n \in Nodes, Kind(n) = "use"
        PROVE  \/ parent'[n] = parent[n]
               \/ parent[n] = NoNode /\ nodes'[parent'[n]].kind # "var"
    <3>1. nodes'[b].kind # "var"
      BY <1>3 DEF Node
    <3>2. n # f
      BY <1>8, <2>4
    <3>3. parent'[n] = parent[n] \/ (parent[n] = NoNode /\ parent'[n] = b)
      BY <1>3, <1>9, <3>2, <2>1
    <3>4. QED
      BY <3>1, <3>3
  <2>5. QED
    BY <1>3, <1>6, <2>1, <2>2, <2>3, <2>4 DEF Grows
<1>12. Unit # NoNode
  BY DEF Unit, NoNode
<1>13. ASSUME NEW n \in Nodes, n > Unit, parent[n] = NoNode PROVE Placed(n)
  <2>1. CASE n = f
    <3>1. parent'[n] = Unit /\ n \in Elems(kids'[Unit])
      BY <1>3, <2>1
    <3>2. n \in Elems(kids'[parent'[n]]) /\ parent'[n] # NoNode
      BY <1>12, <3>1
    <3>3. QED
      BY <3>1, <3>2 DEF Placed
  <2>2. CASE n # f
    <3>1. n \in Elems(open[1])
      BY <1>2, <1>7, <1>13, <2>2 DEF Tree, Shape, ShapeBelow
    <3>2. parent'[n] = b /\ n \in Elems(kids'[b]) /\ b > n
      BY <1>3, <1>6, <2>2, <3>1
    <3>3. n \in Elems(kids'[parent'[n]]) /\ parent'[n] > n /\ parent'[n] # NoNode
      BY <1>6, <3>2
    <3>4. QED
      BY <3>3 DEF Placed
  <2>3. QED
    BY <2>1, <2>2
<1>14. Kind(b)' = "block" /\ Kind(f)' = "func"
  <2>1. Kind(f)' = Kind(f)
    BY <1>3, KindsKept
  <2>2. QED
    BY <1>3, <1>8, <2>1 DEF Kind, Node
<1>15. ShapeBelow(b)'
  <2>1. b \in Elems(kids'[f])
    BY <1>3
  <2>2. nodes'[f].kind = "func"
    BY <1>14 DEF Kind
  <2>3. /\ parent'[b] # NoNode /\ b \in Elems(kids'[parent'[b]])
        /\ parent'[b] > Unit /\ nodes'[parent'[b]].kind = "func" /\ parent'[parent'[b]] = Unit
    BY <1>3, <1>8, <2>1, <2>2
  <2>4. QED
    BY <1>14, <2>3 DEF ShapeBelow, Kind
<1>16. ShapeOpen' /\ ShapeFunc' /\ Len(open') = 0
  BY <1>3 DEF ShapeOpen, ShapeFunc
<1>17. Shape'
  BY <1>3, <1>4, <1>6, <1>11, <1>13, <1>15, <1>16, ShapeKept
<1>18. QED
  BY <1>3, <1>11, <1>17 DEF Tree

-----------------------------------------------------------------------------
(* The scopes.                                                             *)

Outermost ==
  /\ \A x \in Names : env[1][x] = IF func # NoNode /\ x = NameOf(func)
                                  THEN func ELSE table[Unit][x]
  /\ func # NoNode => table[Unit][NameOf(func)] = NoNode

ScopeIs(k) ==
  /\ \A x \in Names : env[k + 1][x] # NoNode =>
       env[k + 1][x] \in Declared(k) /\ NameOf(env[k + 1][x]) = x
  /\ \A d \in Declared(k) : env[k + 1][NameOf(d)] = d

IdentsRead == \A n \in Nodes : IdentOf(n) <= tokens

LEMMA ScopesAre ==
  Scopes <=> Outermost /\ (\A k \in DOMAIN open : ScopeIs(k)) /\ IdentsRead
BY DEF Scopes, Outermost, ScopeIs, IdentsRead

LEMMA ScopesFollow ==
  ASSUME Outermost', \A k \in DOMAIN open' : ScopeIs(k)', IdentsRead'
  PROVE  Scopes'
<1>1. (Scopes <=> Outermost /\ (\A k \in DOMAIN open : ScopeIs(k)) /\ IdentsRead)'
  BY ScopesAre, PTL
<1>2. QED
  BY <1>1

LEMMA DeclaredNodes ==
  ASSUME Tree, NEW k \in DOMAIN open
  PROVE  Declared(k) \subseteq Nodes /\ func \in Nodes
<1>1. open # <<>>
  <2>1. DOMAIN <<>> = {}
    OBVIOUS
  <2>2. QED
    BY <2>1
<1>2. func \in Nodes
  BY <1>1, Basics DEF Tree, Shape, ShapeFunc
<1>3. Elems(kids[func]) \subseteq Nodes
  BY <1>2, ParentIsNode
<1>4. QED
  BY <1>2, <1>3, ItemFacts DEF Declared

(* A scope that nothing is declared in.                                    *)
LEMMA ScopeKept ==
  ASSUME Tree, Grows, NEW k \in DOMAIN open, k \in DOMAIN open', ScopeIs(k),
         func' = func, kids'[func] = kids[func], env'[k + 1] = env[k + 1],
         Elems(open[k]) \subseteq Elems(open'[k]),
         \A n \in Elems(open'[k]) : n \in Elems(open[k]) \/ Kind(n)' \notin {"var", "param"}
  PROVE  ScopeIs(k)'
<1>1. Declared(k) \subseteq Nodes /\ func \in Nodes /\ Elems(open[k]) \subseteq Nodes
  BY DeclaredNodes, ItemFacts
<1>2. \A n \in Nodes : Kind(n)' = Kind(n) /\ NameOf(n)' = NameOf(n)
  BY KindsKept DEF Grows
<1>3. Elems(kids[func]) \subseteq Nodes
  BY <1>1, ParentIsNode
<1>4. kids'[func'] = kids[func]
  OBVIOUS
<1>5. Declared(k)' = Declared(k)
  <2>1. \A n \in Declared(k) : n \in Declared(k)'
    BY <1>1, <1>2, <1>4 DEF Declared
  <2>2. \A n \in Declared(k)' : n \in Declared(k)
    BY <1>1, <1>2, <1>3, <1>4 DEF Declared
  <2>3. QED
    BY <2>1, <2>2
<1>6. PICK t : t = env[k + 1] /\ t = env'[k + 1]
  OBVIOUS
<1>7. PICK D : D = Declared(k) /\ D = Declared(k)'
  BY <1>5
<1>8. /\ \A x \in Names : t[x] # NoNode => t[x] \in D /\ NameOf(t[x]) = x
      /\ \A d \in D : t[NameOf(d)] = d
  BY <1>6, <1>7 DEF ScopeIs
<1>9. /\ \A x \in Names : t[x] # NoNode => t[x] \in D /\ NameOf(t[x])' = x
      /\ \A d \in D : t[NameOf(d)'] = d
  <2>1. \A d \in D : NameOf(d)' = NameOf(d)
    BY <1>1, <1>2, <1>7
  <2>2. QED
    BY <1>8, <2>1
<1>10. QED
  BY <1>6, <1>7, <1>9 DEF ScopeIs, NameOf

LEMMA OutermostKept ==
  ASSUME Tree, Grows, Outermost, func' = func, env'[1] = env[1], table'[Unit] = table[Unit]
  PROVE  Outermost'
<1>1. func # NoNode => nodes'[func].name = nodes[func].name
  BY Basics, KindsKept DEF Grows, NameOf
<1>2. PICK f, e, t : f = func /\ e = env[1] /\ t = table[Unit]
  OBVIOUS
<1>3. /\ \A x \in Names : e[x] = IF f # NoNode /\ x = nodes[f].name THEN f ELSE t[x]
      /\ f # NoNode => t[nodes[f].name] = NoNode
  BY <1>2 DEF Outermost, NameOf
<1>4. /\ \A x \in Names : e[x] = IF f # NoNode /\ x = nodes'[f].name THEN f ELSE t[x]
      /\ f # NoNode => t[nodes'[f].name] = NoNode
  BY <1>1, <1>2, <1>3
<1>5. f = func' /\ e = env'[1] /\ t = table'[Unit]
  BY <1>2
<1>6. QED
  BY <1>4, <1>5 DEF Outermost, NameOf

LEMMA IdentsKept ==
  ASSUME Tree, Grows, IdentsRead, tokens' >= tokens, tokens' \in Nat,
         \A n \in Nodes' : n \notin Nodes => IdentOf(n)' <= tokens'
  PROVE  IdentsRead'
<1>1. ASSUME NEW n \in Nodes PROVE IdentOf(n)' <= tokens'
  <2>1. IdentOf(n)' = IdentOf(n) /\ IdentOf(n) <= tokens /\ tokens \in Nat
    BY Basics, KindsKept DEF Grows, IdentsRead
  <2>2. IdentOf(n) \in Nat
    BY Basics DEF IdentOf, NodeSet
  <2>3. QED
    BY <2>1, <2>2
<1>2. QED
  BY <1>1 DEF IdentsRead

LEMMA UseScopes ==
  ASSUME Tree, Scopes, NEW name \in Names, Use(name)
  PROVE  Scopes'
<1>1. PICK u \in Nat : u = Len(nodes) + 1
  BY Basics
<1>2. /\ Nodes' = 1 .. u /\ \A n \in Nodes : Kept(n)
      /\ nodes'[u] = Node("use", name, tokens + 1)
  BY <1>1, UseEffect
<1>3. /\ open # <<>> /\ open' = AddItem(u) /\ func' = func /\ env' = env /\ tokens' = tokens + 1
  BY <1>1 DEF Use, New
<1>4. Grows
  BY UseTree
<1>5. Nodes = 1 .. Len(nodes) /\ Unit \in Nodes /\ tokens \in Nat /\ func \in Nodes \cup {NoNode}
  BY Basics
<1>6. u \notin Nodes /\ \A n \in Nodes' : n \notin Nodes => n = u
  BY <1>1, <1>2, <1>5
<1>7. Kind(u)' = "use" /\ IdentOf(u)' = tokens + 1
  BY <1>2 DEF Kind, IdentOf, Node
<1>8. \A k \in DOMAIN open' :
        /\ k \in DOMAIN open /\ Elems(open[k]) \subseteq Elems(open'[k])
        /\ \A n \in Elems(open'[k]) : n \in Elems(open[k]) \/ n = u
  BY <1>3, AddItemStep
<1>9. ASSUME NEW k \in DOMAIN open' PROVE ScopeIs(k)'
  <2>1. k \in DOMAIN open /\ ScopeIs(k)
    BY <1>8, ScopesAre
  <2>2. /\ Elems(open[k]) \subseteq Elems(open'[k])
        /\ \A n \in Elems(open'[k]) : n \in Elems(open[k]) \/ n = u
    BY <1>8
  <2>3. func \in Nodes
    BY <2>1, DeclaredNodes
  <2>4. kids'[func] = kids[func]
    BY <1>2, <2>3 DEF Kept
  <2>5. Kind(u)' \notin {"var", "param"}
    BY <1>7
  <2>6. \A n \in Elems(open'[k]) : n \in Elems(open[k]) \/ Kind(n)' \notin {"var", "param"}
    BY <2>2, <2>5
  <2>7. QED
    BY <1>3, <1>4, <2>1, <2>2, <2>4, <2>6, ScopeKept
<1>10. Outermost'
  BY <1>2, <1>3, <1>4, <1>5, ScopesAre, OutermostKept DEF Kept
<1>11. IdentsRead'
  <2>1. \A n \in Nodes' : n \notin Nodes => IdentOf(n)' <= tokens'
    BY <1>3, <1>5, <1>6, <1>7
  <2>2. tokens' >= tokens /\ tokens' \in Nat
    BY <1>3, <1>5
  <2>3. QED
    BY <1>4, <2>1, <2>2, ScopesAre, IdentsKept
<1>12. QED
  BY <1>9, <1>10, <1>11, ScopesFollow

(* All that VarDef says of the new nodes and of the innermost scope.       *)
VarDefFacts(name, init, k, d) ==
  /\ VarDefined(name, init, k, d)
  /\ k = 0 <=> init = NoUse
  /\ d = Len(nodes) + k + 1 /\ d \notin Nodes /\ d \in Nodes'
  /\ \A n \in Nodes' : n \notin Nodes => n = d \/ (k = 1 /\ n = Len(nodes) + 1)
  /\ k = 1 => Len(nodes) + 1 < d /\ Len(nodes) + 1 \notin Nodes /\ Len(nodes) + 1 \in Nodes'
  /\ k = 1 => nodes'[Len(nodes) + 1].kind = "use" /\ nodes'[Len(nodes) + 1].name = init
                /\ nodes'[Len(nodes) + 1].ident = tokens + 2
  /\ Kind(d)' = "var" /\ NameOf(d)' = name /\ IdentOf(d)' = tokens + 1
  /\ phase' = "parse" /\ func' = func /\ tokens' = tokens + 1 + k
  /\ open # <<>> => open' = AddItem(d)
  /\ open = <<>> => open' = open
  /\ env[Len(env)][name] = NoNode
  /\ Len(env') = Len(env)
  /\ \A j \in 1 .. Len(env) : j # Len(env) => env'[j] = env[j]
  /\ env'[Len(env)][name] = d
  /\ \A x \in Names : x # name => env'[Len(env)][x] = env[Len(env)][x]

LEMMA VarDefStep ==
  ASSUME Tree, NEW name \in Names, NEW init \in Names \cup {NoUse}, VarDef(name, init)
  PROVE  \E k \in {0, 1}, d \in Nat : VarDefFacts(name, init, k, d)
<1>1. PICK k \in {0, 1} : k = 0 <=> init = NoUse
  <2>1. CASE init = NoUse
    BY <2>1
  <2>2. CASE init # NoUse
    <3>1. 1 \in {0, 1} /\ 1 # 0
      OBVIOUS
    <3>2. QED
      BY <2>2, <3>1
  <2>3. QED
    BY <2>1, <2>2
<1>2. PICK d \in Nat : d = Len(nodes) + k + 1
  <2>1. Len(nodes) + k + 1 \in Nat
    BY Basics
  <2>2. QED
    BY <2>1
<1>3. VarDefined(name, init, k, d)
  BY <1>1, <1>2, VarDefEffect
<1>4. Nodes' = 1 .. d /\ nodes'[d] = Node("var", name, tokens + 1)
      /\ (k = 1 => nodes'[Len(nodes) + 1] = Node("use", init, tokens + 2))
  BY <1>3 DEF VarDefined
<1>5. Nodes = 1 .. Len(nodes) /\ Len(nodes) \in Nat /\ tokens \in Nat /\ Len(env) > 0
      /\ env \in Seq([Names -> Nodes \cup {NoNode}])
  BY Basics
<1>6. /\ d \notin Nodes /\ d \in Nodes'
      /\ \A n \in Nodes' : n \notin Nodes => n = d \/ (k = 1 /\ n = Len(nodes) + 1)
      /\ k = 1 => Len(nodes) + 1 < d /\ Len(nodes) + 1 \notin Nodes /\ Len(nodes) + 1 \in Nodes'
  BY <1>2, <1>4, <1>5
<1>7. /\ k = 1 => nodes'[Len(nodes) + 1].kind = "use" /\ nodes'[Len(nodes) + 1].name = init
                    /\ nodes'[Len(nodes) + 1].ident = tokens + 2
      /\ Kind(d)' = "var" /\ NameOf(d)' = name /\ IdentOf(d)' = tokens + 1
  BY <1>4 DEF Node, Kind, NameOf, IdentOf
<1>8. /\ phase' = "parse" /\ func' = func /\ env' = Declare(name, d) /\ tokens' = tokens + 1 + k
      /\ open # <<>> => open' = AddItem(d)
      /\ open = <<>> => open' = open
      /\ env[Len(env)][name] = NoNode
  <2> DEFINE inner == IF init = NoUse THEN <<>> ELSE << Node("use", init, tokens + 2) >>
  <2>1. Len(inner) = k
    BY <1>1
  <2> HIDE DEF inner
  <2>2. New(k + 1) = d
    BY <1>2, <1>5 DEF New
  <2>3. QED
    BY ZenonT(30), <2>1, <2>2 DEF VarDef, Room, Free, Here, inner
<1>9. EntrySet(Nodes \cup {NoNode} \cup {d}, env, name, d, [env EXCEPT ![Len(env)] = [@ EXCEPT ![name] = d]])
  <2> DEFINE T == Nodes \cup {NoNode} \cup {d}
  <2>1. Nodes \cup {NoNode} \subseteq T /\ d \in T
    OBVIOUS
  <2> HIDE DEF T
  <2>2. EntrySet(T, env, name, d, [env EXCEPT ![Len(env)] = [@ EXCEPT ![name] = d]])
    BY <1>5, <2>1, DeclareEffect
  <2>3. QED
    BY <2>2 DEF T
<1>10. /\ Len(env') = Len(env)
       /\ \A j \in 1 .. Len(env) : j # Len(env) => env'[j] = env[j]
       /\ env'[Len(env)][name] = d
       /\ \A x \in Names : x # name => env'[Len(env)][x] = env[Len(env)][x]
  BY <1>8, <1>9 DEF Declare, EntrySet
<1>11. VarDefFacts(name, init, k, d)
  BY <1>1, <1>2, <1>3, <1>6, <1>7, <1>8, <1>10 DEF VarDefFacts
<1>12. QED
  BY <1>11

LEMMA VarDefScopes ==
  ASSUME Tree, Scopes, NEW name \in Names, NEW init \in Names \cup {NoUse}, VarDef(name, init)
  PROVE  Scopes'
<1>1. PICK k \in {0, 1}, d \in Nat : VarDefFacts(name, init, k, d)
  BY VarDefStep
<1>2. PICK m \in Nat : m = Len(open) /\ Len(env) = m + 1
  BY Basics
<1>3. /\ \A n \in Nodes : open # <<>> \/ n # Unit => Kept(n)
      /\ \A n \in Nodes : Stays(n)
      /\ open = <<>> => table'[Unit] = Emplaced(table[Unit], name, d)
  BY <1>1 DEF VarDefFacts, VarDefined
<1>4. Grows
  BY VarDefTree
<1>5. /\ Nodes = 1 .. Len(nodes) /\ Unit \in Nodes /\ tokens \in Nat /\ func \in Nodes \cup {NoNode}
      /\ table[Unit] \in [Names -> Nodes \cup {NoNode}]
  BY Basics
<1>6. /\ d \notin Nodes /\ func' = func /\ tokens' = tokens + 1 + k
      /\ open # <<>> => open' = AddItem(d)
      /\ open = <<>> => open' = open
      /\ env[m + 1][name] = NoNode /\ env'[m + 1][name] = d
      /\ \A j \in 1 .. m + 1 : j # m + 1 => env'[j] = env[j]
      /\ \A x \in Names : x # name => env'[m + 1][x] = env[m + 1][x]
      /\ Kind(d)' = "var" /\ NameOf(d)' = name /\ IdentOf(d)' = tokens + 1
      /\ k = 1 => nodes'[Len(nodes) + 1].ident = tokens + 2
      /\ \A n \in Nodes' : n \notin Nodes => n = d \/ (k = 1 /\ n = Len(nodes) + 1)
  BY <1>1, <1>2 DEF VarDefFacts
<1>7. IdentsRead'
  <2>1. ASSUME NEW n \in Nodes', n \notin Nodes PROVE IdentOf(n)' <= tokens'
    <3>1. CASE n = d
      BY <1>5, <1>6, <3>1
    <3>2. CASE k = 1 /\ n = Len(nodes) + 1
      <4>1. IdentOf(n)' = tokens + 2
        BY <1>6, <3>2 DEF IdentOf
      <4>2. QED
        BY <1>5, <1>6, <3>2, <4>1
    <3>3. QED
      BY <1>6, <2>1, <3>1, <3>2
  <2>2. tokens' >= tokens /\ tokens' \in Nat
    BY <1>5, <1>6
  <2>3. QED
    BY <1>4, <2>1, <2>2, ScopesAre, IdentsKept
<1>8. CASE open # <<>>
  <2>1. /\ m \in 1 .. m /\ DOMAIN open = 1 .. m /\ DOMAIN open' = 1 .. m
        /\ Elems(open'[m]) = Elems(open[m]) \cup {d}
        /\ \A j \in DOMAIN open' :
              /\ j \in DOMAIN open /\ Elems(open[j]) \subseteq Elems(open'[j])
              /\ \A n \in Elems(open'[j]) : n \in Elems(open[j]) \/ (n = d /\ j = m)
    BY <1>2, <1>6, <1>8, AddItemStep
  <2>2. func \in Nodes /\ kids'[func] = kids[func]
    <3>1. func \in Nodes
      BY <2>1, DeclaredNodes
    <3>2. QED
      BY <1>3, <1>8, <3>1 DEF Kept
  <2>3. ASSUME NEW j \in DOMAIN open', j # m PROVE ScopeIs(j)'
    <3>1. j \in DOMAIN open /\ ScopeIs(j)
      BY <2>1, ScopesAre
    <3>2. j + 1 \in 1 .. m + 1 /\ j + 1 # m + 1
      BY <2>1, <2>3
    <3>3. env'[j + 1] = env[j + 1]
      BY <1>6, <3>2
    <3>4. \A n \in Elems(open'[j]) : n \in Elems(open[j])
      BY <2>1, <2>3
    <3>5. QED
      BY <1>4, <1>6, <2>1, <2>2, <3>1, <3>3, <3>4, ScopeKept
  <2>4. ScopeIs(m)'
    <3>1. PICK D : D = Declared(m)
      OBVIOUS
    <3>2. D \subseteq Nodes
      BY <2>1, <3>1, DeclaredNodes
    <3>3. \A n \in Nodes : Kind(n)' = Kind(n) /\ NameOf(n)' = NameOf(n)
      BY <1>4, KindsKept DEF Grows
    <3>4. Declared(m)' = D \cup {d}
      <4>1. m \in DOMAIN open
        BY <2>1
      <4>2. Elems(open[m]) \subseteq Nodes /\ Elems(kids[func]) \subseteq Nodes
        BY <2>2, <4>1, ItemFacts, ParentIsNode
      <4>3. kids'[func'] = kids[func]
        BY <1>6, <2>2
      <4>4. PICK K : K = Elems(kids[func]) /\ K = Elems(kids'[func'])
        BY <4>3
      <4>5. D = {n \in Elems(open[m]) \cup (IF m = 1 THEN K ELSE {}) : Kind(n) \in {"var", "param"}}
        BY <3>1, <4>4 DEF Declared
      <4>6. Declared(m)' = {n \in Elems(open'[m]) \cup (IF m = 1 THEN K ELSE {}) : Kind(n)' \in {"var", "param"}}
        BY <4>4 DEF Declared
      <4>7. \A n \in Elems(open[m]) \cup (IF m = 1 THEN K ELSE {}) : Kind(n)' = Kind(n)
        BY <3>3, <4>2, <4>4
      <4>8. QED
        BY <1>6, <2>1, <4>5, <4>6, <4>7
    <3>5. PICK t, t2 : t = env[m + 1] /\ t2 = env'[m + 1]
      OBVIOUS
    <3>6. /\ \A x \in Names : t[x] # NoNode => t[x] \in D /\ NameOf(t[x]) = x
          /\ \A n \in D : t[NameOf(n)] = n
      <4>1. ScopeIs(m)
        BY <2>1, ScopesAre
      <4>2. QED
        BY <3>1, <3>5, <4>1 DEF ScopeIs
    <3>7. t[name] = NoNode /\ t2[name] = d /\ \A x \in Names : x # name => t2[x] = t[x]
      BY <1>6, <3>5
    <3>8. ASSUME NEW x \in Names, t2[x] # NoNode PROVE t2[x] \in D \cup {d} /\ NameOf(t2[x])' = x
      <4>1. CASE x = name
        <5>1. t2[x] = d
          BY <3>7, <4>1
        <5>2. QED
          BY <1>6, <4>1, <5>1
      <4>2. CASE x # name
        <5>1. t2[x] = t[x] /\ t[x] \in D /\ NameOf(t[x]) = x
          BY <3>6, <3>7, <3>8, <4>2
        <5>2. QED
          BY <3>2, <3>3, <5>1
      <4>3. QED
        BY <4>1, <4>2
    <3>9. ASSUME NEW n \in D \cup {d} PROVE t2[NameOf(n)'] = n
      <4>1. CASE n = d
        BY <1>6, <3>7, <4>1
      <4>2. CASE n \in D
        <5>1. NameOf(n)' = NameOf(n) /\ t[NameOf(n)] = n /\ n \in Nodes /\ NameOf(n) \in Names
          <6>1. n \in Nodes
            BY <3>2, <4>2
          <6>2. NameOf(n) \in Names
            BY <6>1, Basics DEF NameOf, NodeSet
          <6>3. QED
            BY <3>3, <3>6, <4>2, <6>1, <6>2
        <5>2. n # NoNode
          BY <1>5, <5>1 DEF NoNode
        <5>3. NameOf(n) # name
          BY <3>7, <5>1, <5>2
        <5>4. QED
          BY <3>7, <5>1, <5>3
      <4>3. QED
        BY <4>1, <4>2
    <3>10. QED
      BY <3>4, <3>5, <3>8, <3>9 DEF ScopeIs, NameOf
  <2>5. Outermost'
    <3>1. 1 \in 1 .. m + 1 /\ 1 # m + 1
      BY <2>1
    <3>2. env'[1] = env[1]
      BY <1>6, <3>1
    <3>3. table'[Unit] = table[Unit]
      BY <1>3, <1>5, <1>8 DEF Kept
    <3>4. QED
      BY <1>4, <1>6, <3>2, <3>3, ScopesAre, OutermostKept
  <2>6. QED
    BY <1>7, <2>3, <2>4, <2>5, ScopesFollow
<1>9. CASE open = <<>>
  <2>1. m = 0 /\ func = NoNode /\ func' = NoNode /\ DOMAIN open' = {}
    BY <1>2, <1>6, <1>9 DEF Tree, Shape, ShapeFunc
  <2>2. PICK t : t = table[Unit] /\ t \in [Names -> Nodes \cup {NoNode}]
    BY <1>5
  <2>3. \A x \in Names : env[1][x] = t[x]
    BY <2>1, <2>2 DEF Scopes
  <2>4. t[name] = NoNode
    BY <1>6, <2>1, <2>3
  <2>5. table'[Unit] = [t EXCEPT ![name] = d]
    BY <1>3, <1>9, <2>2, <2>4 DEF Emplaced
  <2>6. env'[1][name] = d /\ \A x \in Names : x # name => env'[1][x] = t[x]
    <3>1. m + 1 = 1
      BY <2>1
    <3>2. QED
      BY <1>6, <2>3, <3>1
  <2>7. \A x \in Names : env'[1][x] = table'[Unit][x]
    BY <2>2, <2>5, <2>6
  <2>8. Outermost'
    BY <2>1, <2>7 DEF Outermost
  <2>9. QED
    BY <1>7, <2>1, <2>8, ScopesFollow
<1>10. QED
  BY <1>8, <1>9

(* All that FuncHead says of the new nodes and of the two scopes.          *)
FuncHeadFacts(name, params, k, f) ==
  /\ FuncOpened(name, params, f)
  /\ k = Len(params) /\ f = Len(nodes) + k + 1 /\ f \notin Nodes /\ f \in Nodes'
  /\ \A n \in Nodes' : n \notin Nodes => n = f \/ \E i \in 1 .. k : n = Len(nodes) + i
  /\ \A i \in 1 .. k :
       /\ Len(nodes) + i \in Nodes' /\ Len(nodes) + i \notin Nodes /\ Len(nodes) + i # f
       /\ nodes'[Len(nodes) + i].kind = "param" /\ nodes'[Len(nodes) + i].name = params[i]
       /\ nodes'[Len(nodes) + i].ident = tokens + 1 + i
  /\ Kind(f)' = "func" /\ NameOf(f)' = name /\ IdentOf(f)' = tokens + 1
  /\ \A i \in 1 .. k : Len(nodes) + i \in Elems(kids'[f])
  /\ \A n \in Elems(kids'[f]) : \E i \in 1 .. k : n = Len(nodes) + i
  /\ open = <<>> /\ func = NoNode /\ env[1][name] = NoNode
  /\ phase' = "parse" /\ func' = f /\ tokens' = tokens + 1 + k
  /\ Len(open') = 1 /\ DOMAIN open' = {1} /\ open'[1] = <<>> /\ Elems(open'[1]) = {}
  /\ Len(env') = 2 /\ env'[1][name] = f
  /\ \A x \in Names : x # name => env'[1][x] = env[1][x]
  /\ \A x \in Names : env'[2][x] # NoNode =>
       \E i \in 1 .. k : x = params[i] /\ env'[2][x] = Len(nodes) + i
  /\ \A i \in 1 .. k : env'[2][params[i]] = Len(nodes) + i

LEMMA FuncHeadStep ==
  ASSUME Tree, NEW name \in Names, NEW params \in Seq(Names), FuncHead(name, params),
         Distinct(params)
  PROVE  \E k \in Nat, f \in Nat : FuncHeadFacts(name, params, k, f)
<1>1. PICK k \in Nat : k = Len(params)
  OBVIOUS
<1>2. PICK N \in Nat : N = Len(nodes) /\ Nodes = 1 .. N /\ N >= Unit
  BY Basics
<1>3. PICK f \in Nat : f = N + k + 1
  OBVIOUS
<1>4. f = Len(nodes) + Len(params) + 1
  BY <1>1, <1>2, <1>3
<1>5. FuncOpened(name, params, f)
  BY <1>4, FuncHeadEffect
<1>6. /\ Nodes' = 1 .. f
      /\ \A i \in 1 .. k : nodes'[N + i] = Node("param", params[i], tokens + 1 + i)
      /\ nodes'[f] = Node("func", name, tokens + 1)
      /\ Len(kids'[f]) = k /\ \A i \in 1 .. k : kids'[f][i] = N + i
      /\ TypeOK'
  BY <1>1, <1>2, <1>5 DEF FuncOpened
<1>7. /\ f \notin Nodes /\ f \in Nodes'
      /\ \A n \in Nodes' : n \notin Nodes => n = f \/ (n - N \in 1 .. k /\ n = N + (n - N))
      /\ \A i \in 1 .. k : N + i \in Nodes' /\ N + i \notin Nodes /\ N + i # f
  BY <1>2, <1>3, <1>6
<1>8. \A n \in Nodes' : n \notin Nodes => n = f \/ \E i \in 1 .. k : n = N + i
  BY <1>7
<1>9. ASSUME NEW i \in 1 .. k
      PROVE  /\ nodes'[N + i].kind = "param" /\ nodes'[N + i].name = params[i]
             /\ nodes'[N + i].ident = tokens + 1 + i
  <2>1. nodes'[N + i] = Node("param", params[i], tokens + 1 + i)
    BY <1>6
  <2>2. QED
    BY <2>1 DEF Node
<1>10. Kind(f)' = "func" /\ NameOf(f)' = name /\ IdentOf(f)' = tokens + 1
  BY <1>6 DEF Node, Kind, NameOf, IdentOf
<1>11. /\ \A i \in 1 .. k : N + i \in Elems(kids'[f])
       /\ \A n \in Elems(kids'[f]) : \E i \in 1 .. k : n = N + i
  <2> DEFINE l == kids'[f]
  <2>1. l \in Seq(Nodes')
    BY <1>6, <1>7 DEF TypeOK
  <2>2. Len(l) = k /\ \A i \in 1 .. k : l[i] = N + i
    BY <1>6
  <2> HIDE DEF l
  <2>3. DOMAIN l = 1 .. k
    BY <2>1, <2>2
  <2>4. Elems(l) = {l[i] : i \in 1 .. k}
    BY <2>3 DEF Elems
  <2>5. /\ \A i \in 1 .. k : N + i \in Elems(l)
        /\ \A n \in Elems(l) : \E i \in 1 .. k : n = N + i
    BY <2>2, <2>4
  <2>6. QED
    BY <2>5 DEF l
<1>12. open = <<>> /\ phase' = "parse" /\ func' = f /\ open' = << <<>> >> /\ Free(name)
       /\ tokens' = tokens + 1 + k
  BY <1>1, <1>2, <1>3 DEF FuncHead, Room, New
<1>13. func = NoNode /\ Len(env) = 1
  <2>1. Len(open) = 0
    BY <1>12
  <2>2. QED
    BY <1>12, <2>1, Basics DEF Tree, Shape, ShapeFunc
<1>14. env[1][name] = NoNode
  BY <1>12, <1>13 DEF Free, Here
<1>15. Len(open') = 1 /\ DOMAIN open' = {1} /\ open'[1] = <<>> /\ Elems(open'[1]) = {}
  <2>1. Elems(<<>>) = {}
    BY DEF Elems
  <2>2. QED
    BY <1>12, <2>1
<1>16. /\ Len(env') = 2 /\ env'[1][name] = f
       /\ \A x \in Names : x # name => env'[1][x] = env[1][x]
       /\ \A x \in Names : env'[2][x] # NoNode =>
            \E i \in 1 .. Len(params) : x = params[i] /\ env'[2][x] = Len(nodes) + i
       /\ Distinct(params) => \A i \in 1 .. Len(params) : env'[2][params[i]] = Len(nodes) + i
  BY SMTT(30), <1>4, FuncEnv
<1>17. FuncHeadFacts(name, params, k, f)
  BY <1>1, <1>2, <1>3, <1>5, <1>7, <1>8, <1>9, <1>10, <1>11, <1>12, <1>13, <1>14, <1>15, <1>16
     DEF FuncHeadFacts
<1>18. QED
  BY <1>17

LEMMA FuncHeadScopes ==
  ASSUME Tree, Scopes, NEW name \in Names, NEW params \in Seq(Names), FuncHead(name, params),
         Distinct(params)
  PROVE  Scopes'
<1>1. PICK k \in Nat, f \in Nat : FuncHeadFacts(name, params, k, f)
  BY FuncHeadStep
<1>2. PICK N \in Nat : N = Len(nodes) /\ Nodes = 1 .. N
  BY Basics
<1>3. /\ Unit \in Nodes /\ tokens \in Nat
      /\ table[Unit] \in [Names -> Nodes \cup {NoNode}]
  BY Basics
<1>4. Grows
  BY FuncHeadTree
<1>5. table'[Unit] = table[Unit]
  BY <1>1, <1>3 DEF FuncHeadFacts, FuncOpened, Kept
<1>6. /\ k = Len(params) /\ func = NoNode /\ func' = f /\ f # NoNode
      /\ NameOf(f)' = name /\ IdentOf(f)' = tokens + 1 /\ tokens' = tokens + 1 + k
      /\ env[1][name] = NoNode /\ env'[1][name] = f
      /\ \A x \in Names : x # name => env'[1][x] = env[1][x]
      /\ DOMAIN open' = {1} /\ Elems(open'[1]) = {}
      /\ \A n \in Nodes' : n \notin Nodes => n = f \/ \E i \in 1 .. k : n = N + i
      /\ \A i \in 1 .. k : /\ nodes'[N + i].kind = "param" /\ nodes'[N + i].name = params[i]
                           /\ nodes'[N + i].ident = tokens + 1 + i
                           /\ N + i \in Elems(kids'[f])
      /\ \A n \in Elems(kids'[f]) : \E i \in 1 .. k : n = N + i
  BY <1>1, <1>2, <1>3 DEF FuncHeadFacts, NoNode
<1>7. /\ \A x \in Names : env'[2][x] # NoNode =>
           \E i \in 1 .. k : x = params[i] /\ env'[2][x] = N + i
      /\ \A i \in 1 .. k : env'[2][params[i]] = N + i
  <2>1. /\ \A x \in Names : env'[2][x] # NoNode =>
             \E i \in 1 .. k : x = params[i] /\ env'[2][x] = Len(nodes) + i
        /\ \A i \in 1 .. k : env'[2][params[i]] = Len(nodes) + i
    BY <1>1, ZenonT(30) DEF FuncHeadFacts
  <2>2. QED
    BY <1>2, <2>1
<1>8. IdentsRead'
  <2>1. ASSUME NEW n \in Nodes', n \notin Nodes PROVE IdentOf(n)' <= tokens'
    <3>1. CASE n = f
      BY <1>3, <1>6, <3>1
    <3>2. CASE \E i \in 1 .. k : n = N + i
      <4>1. PICK i \in 1 .. k : n = N + i
        BY <3>2
      <4>2. IdentOf(n)' = tokens + 1 + i
        BY <1>6, <4>1 DEF IdentOf
      <4>3. QED
        BY <1>3, <1>6, <4>2
    <3>3. QED
      BY <1>6, <2>1, <3>1, <3>2
  <2>2. tokens' >= tokens /\ tokens' \in Nat
    BY <1>3, <1>6
  <2>3. QED
    BY <1>4, <2>1, <2>2, ScopesAre, IdentsKept
<1>9. Outermost'
  <2>1. PICK t : t = table[Unit] /\ t = table'[Unit]
    BY <1>5
  <2>2. \A x \in Names : env[1][x] = t[x]
    BY <1>6, <2>1 DEF Scopes
  <2>3. t[name] = NoNode
    BY <1>6, <2>2
  <2>4. \A x \in Names : env'[1][x] = IF x = name THEN f ELSE t[x]
    BY <1>6, <2>2
  <2>5. nodes'[f].name = name
    BY <1>6 DEF NameOf
  <2>6. QED
    BY <1>6, <2>1, <2>3, <2>4, <2>5 DEF Outermost, NameOf
<1>10. ScopeIs(1)'
  <2>1. PICK e, F : e = env'[2] /\ F = Elems(kids'[f])
    OBVIOUS
  <2>2. Declared(1)' = {d \in F : Kind(d)' \in {"var", "param"}}
    <3>1. F = Elems(kids'[func'])
      BY <1>6, <2>1
    <3>2. QED
      BY <1>6, <3>1 DEF Declared
  <2>3. \A d \in F : \E i \in 1 .. k : d = N + i
    BY <1>6, <2>1
  <2>4. \A i \in 1 .. k : N + i \in F /\ Kind(N + i)' = "param" /\ NameOf(N + i)' = params[i]
    BY <1>6, <2>1 DEF Kind, NameOf
  <2>5. /\ \A x \in Names : e[x] # NoNode => \E i \in 1 .. k : x = params[i] /\ e[x] = N + i
        /\ \A i \in 1 .. k : e[params[i]] = N + i
    BY <1>7, <2>1
  <2>6. ASSUME NEW x \in Names, e[x] # NoNode PROVE e[x] \in Declared(1)' /\ NameOf(e[x])' = x
    <3>1. PICK i \in 1 .. k : x = params[i] /\ e[x] = N + i
      BY <2>5, <2>6
    <3>2. QED
      BY <2>2, <2>4, <3>1
  <2>7. ASSUME NEW d \in Declared(1)' PROVE e[NameOf(d)'] = d
    <3>1. PICK i \in 1 .. k : d = N + i
      BY <2>2, <2>3
    <3>2. QED
      BY <2>4, <2>5, <3>1
  <2>8. 1 + 1 = 2
    OBVIOUS
  <2>9. e = env'[1 + 1]
    BY <2>1, <2>8
  <2>10. QED
    BY <2>6, <2>7, <2>9 DEF ScopeIs, NameOf
<1>11. QED
  BY <1>6, <1>8, <1>9, <1>10, ScopesFollow

LEMMA OpenBlockScopes ==
  ASSUME Tree, Scopes, OpenBlock
  PROVE  Scopes'
<1>1. /\ open' = Append(open, <<>>) /\ env' = Append(env, NoTable)
      /\ open # <<>> /\ func' = func
      /\ UNCHANGED <<nodes, kids, table, tokens>>
  BY DEF OpenBlock, Room, tree, walk
<1>2. PICK m \in Nat : m = Len(open) /\ Len(env) = m + 1 /\ DOMAIN open = 1 .. m
  BY Basics
<1>3. /\ open \in Seq(Seq(Nodes)) /\ env \in Seq([Names -> Nodes \cup {NoNode}])
      /\ Unit \in Nodes /\ tokens \in Nat
  BY Basics
<1>4. Grows /\ \A n \in Nodes : Kept(n)
  BY OpenBlockTree
<1>5. /\ DOMAIN open' = 1 .. m + 1 /\ \A k \in 1 .. m : open'[k] = open[k]
      /\ open'[m + 1] = <<>>
  <2> DEFINE none == <<>>
             S == Seq(Nodes)
  <2>1. none \in S /\ open \in Seq(S) /\ open' = Append(open, none)
    BY <1>1, <1>3
  <2> HIDE DEF none, S
  <2>2. QED
    BY <1>2, <2>1 DEF none
<1>6. m > 0
  <2>1. m # 0
    BY <1>1, <1>2, <1>3
  <2>2. QED
    BY <2>1
<1>7. /\ \A k \in 1 .. m + 1 : env'[k] = env[k]
      /\ env'[m + 2] = NoTable
  <2> DEFINE S == [Names -> Nodes \cup {NoNode}]
  <2>1. NoTable \in S /\ env \in Seq(S)
    BY <1>3 DEF NoTable
  <2> HIDE DEF S
  <2>2. m + 2 = Len(env) + 1
    BY <1>2
  <2>3. SeqAppended(env, NoTable, Append(env, NoTable))
    BY <2>1, SeqAppend
  <2>4. QED
    BY <1>1, <1>2, <2>2, <2>3 DEF SeqAppended
<1>8. Outermost'
  <2>1. env'[1] = env[1]
    BY <1>7, <1>6
  <2>2. QED
    BY <1>1, <1>3, <1>4, <2>1, ScopesAre, OutermostKept
<1>9. IdentsRead'
  <2>1. Nodes' = Nodes
    BY <1>1 DEF Nodes
  <2>2. QED
    BY <1>1, <1>3, <1>4, <2>1, ScopesAre, IdentsKept
<1>10. ASSUME NEW k \in DOMAIN open' PROVE ScopeIs(k)'
  <2>1. CASE k = m + 1
    <3>1. env'[k + 1] = NoTable
      <4>1. k + 1 = m + 2
        BY <2>1
      <4>2. QED
        BY <1>7, <4>1
    <3>2. Elems(open'[k]) = {} /\ k # 1
      <4>1. Elems(<<>>) = {}
        BY DEF Elems
      <4>2. QED
        BY <1>5, <1>6, <2>1, <4>1
    <3>3. Declared(k)' = {}
      BY <3>2 DEF Declared
    <3>4. QED
      BY <3>1, <3>3 DEF ScopeIs, NoTable
  <2>2. CASE k # m + 1
    <3>1. k \in 1 .. m /\ k + 1 \in 1 .. m + 1
      BY <1>5, <2>2
    <3>2. k \in DOMAIN open /\ ScopeIs(k)
      BY <1>2, <3>1, ScopesAre
    <3>3. env'[k + 1] = env[k + 1] /\ open'[k] = open[k]
      BY <1>5, <1>7, <3>1
    <3>4. QED
      BY <1>1, <1>4, <3>2, <3>3, ScopeKept
  <2>3. QED
    BY <2>1, <2>2
<1>11. QED
  BY <1>8, <1>9, <1>10, ScopesFollow

LEMMA CloseBlockScopes ==
  ASSUME Tree, Scopes, CloseBlock
  PROVE  Scopes'
<1>1. PICK b \in Nat : b = Len(nodes) + 1
  BY Basics
<1>2. BlockClosed(b)
  BY <1>1, CloseBlockEffect
<1>3. PICK m \in Nat : m = Len(open) /\ Len(env) = m + 1 /\ DOMAIN open = 1 .. m
  BY Basics
<1>4. /\ Nodes = 1 .. Len(nodes) /\ Unit \in Nodes /\ tokens \in Nat
      /\ func \in Nodes \cup {NoNode}
  BY Basics
<1>5. Grows
  BY CloseBlockTree
<1>6. func' = func /\ tokens' = tokens
  BY DEF CloseBlock
<1>7. /\ Nodes' = 1 .. b /\ \A n \in Nodes : kids'[n] = kids[n] /\ table'[n] = table[n]
      /\ nodes'[b] = Node("block", Builtin, 0)
      /\ m > 1 /\ Len(open') = m - 1
      /\ \A k \in 1 .. m - 2 : open'[k] = open[k]
      /\ Elems(open'[m - 1]) = Elems(open[m - 1]) \cup {b}
      /\ \A k \in 1 .. m : env'[k] = env[k]
      /\ TypeOK'
  <2>1. /\ Nodes' = 1 .. b /\ \A n \in Nodes : kids'[n] = kids[n] /\ table'[n] = table[n]
        /\ nodes'[b] = Node("block", Builtin, 0)
        /\ Len(open) > 1 /\ Len(open') = Len(open) - 1
        /\ \A k \in 1 .. Len(open) - 2 : open'[k] = open[k]
        /\ Elems(open'[Len(open) - 1]) = Elems(open[Len(open) - 1]) \cup {b}
        /\ \A k \in 1 .. Len(env) - 1 : env'[k] = env[k]
        /\ TypeOK'
    BY <1>2, Zenon DEF BlockClosed
  <2>2. Len(env) - 1 = m
    BY <1>3
  <2>3. QED
    BY <1>3, <2>1, <2>2
<1>8. DOMAIN open' = 1 .. m - 1
  BY <1>7 DEF TypeOK, Frames
<1>9. Kind(b)' = "block" /\ IdentOf(b)' = 0
  BY <1>7 DEF Kind, IdentOf, Node
<1>10. \A n \in Nodes' : n \notin Nodes => n = b
  BY <1>1, <1>4, <1>7
<1>11. Outermost'
  <2>1. 1 \in 1 .. m
    BY <1>7
  <2>2. env'[1] = env[1]
    BY <1>7, <2>1
  <2>3. QED
    BY <1>4, <1>5, <1>6, <1>7, <2>2, ScopesAre, OutermostKept
<1>12. IdentsRead'
  BY <1>4, <1>5, <1>6, <1>9, <1>10, ScopesAre, IdentsKept
<1>13. ASSUME NEW k \in DOMAIN open' PROVE ScopeIs(k)'
  <2>1. k \in 1 .. m /\ k \in DOMAIN open /\ k + 1 \in 1 .. m /\ k \in 1 .. m - 1
    BY <1>3, <1>7, <1>8
  <2>2. ScopeIs(k) /\ env'[k + 1] = env[k + 1]
    BY <1>7, <2>1, ScopesAre
  <2>3. func \in Nodes
    BY <2>1, DeclaredNodes
  <2>4. kids'[func] = kids[func]
    BY <1>7, <2>3
  <2>5. Elems(open'[k]) = Elems(open[k]) \/ Elems(open'[k]) = Elems(open[k]) \cup {b}
    <3>1. CASE k = m - 1
      BY <1>7, <3>1
    <3>2. CASE k # m - 1
      <4>1. k \in 1 .. m - 2
        BY <2>1, <3>2
      <4>2. QED
        BY <1>7, <4>1
    <3>3. QED
      BY <3>1, <3>2
  <2>6. Kind(b)' \notin {"var", "param"}
    BY <1>9
  <2>7. /\ Elems(open[k]) \subseteq Elems(open'[k])
        /\ \A n \in Elems(open'[k]) : n \in Elems(open[k]) \/ Kind(n)' \notin {"var", "param"}
    BY <2>5, <2>6
  <2>8. QED
    BY <1>5, <1>6, <1>13, <2>1, <2>2, <2>4, <2>7, ScopeKept
<1>14. QED
  BY <1>11, <1>12, <1>13, ScopesFollow

LEMMA CloseBodyScopes ==
  ASSUME Tree, Scopes, CloseBody
  PROVE  Scopes'
<1>1. PICK b \in Nat : b = Len(nodes) + 1
  BY Basics
<1>2. BodyClosed(b)
  BY <1>1, CloseBodyEffect
<1>3. /\ Nodes = 1 .. Len(nodes) /\ Unit \in Nodes /\ tokens \in Nat
      /\ table[Unit] \in [Names -> Nodes \cup {NoNode}]
  BY Basics
<1>4. Grows
  BY CloseBodyTree
<1>5. /\ Nodes' = 1 .. b /\ func \in Nodes /\ func # NoNode
      /\ table'[Unit] = [table[Unit] EXCEPT ![NameOf(func)] = func]
      /\ nodes'[b] = Node("block", Builtin, 0)
      /\ open' = <<>> /\ func' = NoNode /\ env'[1] = env[1]
  BY <1>2 DEF BodyClosed
<1>6. tokens' = tokens
  BY DEF CloseBody
<1>7. IdentOf(b)' = 0 /\ \A n \in Nodes' : n \notin Nodes => n = b
  BY <1>1, <1>3, <1>5 DEF IdentOf, Node
<1>8. IdentsRead'
  BY <1>3, <1>4, <1>6, <1>7, ScopesAre, IdentsKept
<1>9. Outermost'
  <2>1. PICK t \in [Names -> Nodes \cup {NoNode}] : t = table[Unit]
    BY <1>3
  <2>2. PICK x : x = NameOf(func)
    OBVIOUS
  <2>3. \A y \in Names : env[1][y] = IF y = x THEN func ELSE t[y]
    BY <1>5, <2>1, <2>2 DEF Scopes
  <2>4. x \in Names
    BY <1>5, <2>2, Basics DEF NameOf, NodeSet
  <2>5. table'[Unit] = [t EXCEPT ![x] = func]
    BY <1>5, <2>1, <2>2
  <2>6. \A y \in Names : env'[1][y] = table'[Unit][y]
    BY <1>5, <2>3, <2>4, <2>5
  <2>7. QED
    BY <1>5, <2>6 DEF Outermost
<1>10. DOMAIN open' = {}
  BY <1>5
<1>11. QED
  BY <1>8, <1>9, <1>10, ScopesFollow

-----------------------------------------------------------------------------
(* The traversal.                                                          *)

(* What it leaves alone.                                                   *)
LEMMA Settled ==
  ASSUME UNCHANGED <<tree, parse>>, NEW R, NEW lo, NEW hi
  PROVE  /\ Climbs(R)' <=> Climbs(R)
         /\ Spans(lo, hi)' <=> Spans(lo, hi)
         /\ Scopes' <=> Scopes
         /\ Nodes' = Nodes /\ Uses' = Uses /\ \A n : Kind(n)' = Kind(n)
         /\ \A n : Expected(n)' = Expected(n)
<1>1. /\ nodes' = nodes /\ parent' = parent /\ kids' = kids /\ table' = table /\ tokens' = tokens
      /\ func' = func /\ open' = open /\ env' = env /\ meant' = meant
  BY DEF tree, parse
<1>2. Nodes' = Nodes /\ Uses' = Uses /\ \A n : Kind(n)' = Kind(n)
  BY <1>1 DEF Nodes, Uses, Kind
<1>2a. \A n : Expected(n)' = Expected(n)
  <2>1. \A n : NamesItself(n)' <=> NamesItself(n)
    BY <1>1 DEF NamesItself, Kind, NameOf
  <2>2. QED
    BY <1>1, <2>1 DEF Expected
<1>3. Climbs(R)' <=> Climbs(R)
  <2>1. \A u, n : FoundAt(u, n)' <=> FoundAt(u, n)
    BY <1>1 DEF FoundAt, NameOf, IdentOf
  <2>2. \A u, i : Visible(u, InScope(u, i))' <=> Visible(u, InScope(u, i))
    BY <1>1 DEF Visible, InScope, NameOf, IdentOf
  <2>3. \A u, i : InScope(u, i)' = InScope(u, i)
    BY <1>1 DEF InScope, NameOf
  <2>4. \A u, m : MeansIn(u, m)' <=> MeansIn(u, m)
    BY <1>2a, <2>2, <2>3 DEF MeansIn
  <2>5. \A u, n : AwaitsAt(u, n)' <=> AwaitsAt(u, n)
    BY <1>1, <2>4 DEF AwaitsAt
  <2>6. \A u, n : Stands(R, u, n)' <=> Stands(R, u, n)
    BY <1>1, <1>2a, <2>1, <2>5 DEF Stands, NameOf
  <2>7. \A u : IdentOf(u)' = IdentOf(u)
    BY <1>1 DEF IdentOf
  <2>8. QED
    BY <1>1, <1>2, <2>5, <2>6, <2>7 DEF Climbs, IdentOf
<1>4. Spans(lo, hi)' <=> Spans(lo, hi)
  <2>1. \A n : SpanAt(n, lo, hi)' <=> SpanAt(n, lo, hi)
    BY <1>1 DEF SpanAt, Kind, IdentOf
  <2>2. SpanOpen(lo, hi)' <=> SpanOpen(lo, hi)
    BY <1>1 DEF SpanOpen
  <2>3. SpanFunc(lo, hi)' <=> SpanFunc(lo, hi)
    BY <1>1, <1>2 DEF SpanFunc
  <2>4. QED
    BY <1>2, <2>1, <2>2, <2>3 DEF Spans
<1>5. Scopes' <=> Scopes
  <2>1. \A k : Declared(k)' = Declared(k)
    BY <1>1 DEF Declared, Kind
  <2>2. \A n : NameOf(n)' = NameOf(n) /\ IdentOf(n)' = IdentOf(n)
    BY <1>1 DEF NameOf, IdentOf
  <2>3. Outermost' <=> Outermost
    BY <1>1 DEF Outermost, NameOf
  <2>4. \A k : ScopeIs(k)' <=> ScopeIs(k)
    BY <1>1, <2>1 DEF ScopeIs, NameOf
  <2>5. IdentsRead' <=> IdentsRead
    BY <1>1, <1>2, <2>2 DEF IdentsRead
  <2>6. (Scopes <=> Outermost /\ (\A k \in DOMAIN open : ScopeIs(k)) /\ IdentsRead)'
    BY ScopesAre, PTL
  <2>7. QED
    BY <1>1, <2>3, <2>4, <2>5, <2>6, ScopesAre
<1>6. QED
  BY <1>2, <1>2a, <1>3, <1>4, <1>5

(* The nodes on the list to visit, and the ends of their visits.           *)
Pending == {n \in Int : n \in Nodes \/ -n \in Nodes}

LEMMA PendingIs ==
  ASSUME Tree
  PROVE  todo \in Seq(Pending) /\ \A n \in Nodes : kids[n] \in Seq(Pending) /\ n \in Int
<1>1. /\ todo \in Seq(Int) /\ \A i \in DOMAIN todo : todo[i] \in Nodes \/ -todo[i] \in Nodes
  BY DEF Tree, TypeOK
<1>2. todo \in Seq(Pending)
  <2> DEFINE P == Pending
  <2>1. \A i \in 1 .. Len(todo) : todo[i] \in P
    BY <1>1 DEF Pending
  <2>2. Len(todo) \in Nat /\ todo \in [1 .. Len(todo) -> Int]
    BY <1>1
  <2> HIDE DEF P
  <2>3. todo \in [1 .. Len(todo) -> P]
    BY <2>1, <2>2
  <2>4. QED
    BY <2>2, <2>3 DEF P
<1>3. Nodes \subseteq Pending
  BY DEF Pending, Nodes
<1>4. \A n \in Nodes : kids[n] \in Seq(Nodes) /\ n \in Int
  BY Basics
<1>5. QED
  BY <1>2, <1>3, <1>4, SeqWiden

LEMMA WalkTree ==
  ASSUME Tree, UNCHANGED <<tree, parse>>, open = <<>>,
         ref' \in [Nodes -> Nodes \cup {NoNode}],
         phase' \in {"visit", "find", "done", "thrown"},
         todo' \in Seq(Pending), cur' \in Nodes \cup {NoNode}, finished' \subseteq Nodes
  PROVE  Tree'
<1>1. /\ nodes' = nodes /\ parent' = parent /\ kids' = kids /\ table' = table /\ tokens' = tokens
      /\ func' = func /\ open' = open /\ env' = env /\ meant' = meant
  BY DEF tree, parse
<1>2. Nodes' = Nodes
  BY <1>1 DEF Nodes
<1>3. /\ todo' \in Seq(Int)
      /\ \A i \in DOMAIN todo' : todo'[i] \in Nodes \/ -todo'[i] \in Nodes
  <2>1. Pending \subseteq Int
    BY DEF Pending
  <2>2. \A i \in DOMAIN todo' : todo'[i] \in Pending
    OBVIOUS
  <2>3. QED
    BY <2>1, <2>2, SeqWiden DEF Pending
<1>4. TypeOK'
  BY <1>1, <1>2, <1>3 DEF Tree, TypeOK, Frames
<1>5. /\ ShapeOpen' <=> ShapeOpen
      /\ ShapeFunc' <=> ShapeFunc
      /\ \A n \in Nodes : ShapeBelow(n)' <=> ShapeBelow(n)
  <2>1. ShapeOpen' <=> ShapeOpen
    BY <1>1 DEF ShapeOpen, Kind
  <2>2. ShapeFunc' <=> ShapeFunc
    BY <1>1 DEF ShapeFunc, Kind
  <2>3. \A n \in Nodes : ShapeBelow(n)' <=> ShapeBelow(n)
    BY <1>1 DEF ShapeBelow, Kind
  <2>4. QED
    BY <2>1, <2>2, <2>3
<1>6. Shape'
  BY <1>1, <1>2, <1>5 DEF Tree, Shape, Kind
<1>7. QED
  BY <1>4, <1>6 DEF Tree

(* r is s, of length k, then t without its head.                           *)
Replaced(S, k, s, t, r) ==
  /\ r \in Seq(S) /\ Len(r) = k + Len(t) - 1 /\ Len(t) > 0
  /\ \A i \in 1 .. k : r[i] = s[i]
  /\ \A i \in k + 1 .. Len(r) : i - k + 1 \in 2 .. Len(t) /\ r[i] = t[i - k + 1]
  /\ \A i \in 2 .. Len(t) : i + k - 1 \in k + 1 .. Len(r) /\ r[i + k - 1] = t[i]

LEMMA ReplaceEffect ==
  ASSUME NEW S, NEW k \in Nat, NEW s \in Seq(S), Len(s) = k, NEW t \in Seq(S), t # <<>>
  PROVE  Replaced(S, k, s, t, s \o Tail(t))
<1>1. Len(t) \in Nat /\ Len(t) > 0
  OBVIOUS
<1>2. PICK q : q = Tail(t)
  OBVIOUS
<1>3. q \in Seq(S) /\ Len(q) = Len(t) - 1 /\ \A i \in 1 .. Len(t) - 1 : q[i] = t[i + 1]
  BY <1>1, <1>2
<1>4. PICK r : r = s \o q
  OBVIOUS
<1>5. /\ r \in Seq(S) /\ Len(r) = k + Len(q)
      /\ \A i \in 1 .. k : r[i] = s[i]
      /\ \A i \in 1 .. Len(q) : r[k + i] = q[i]
  <2> DEFINE j == s \o q
  <2>0. q \in Seq(S)
    BY <1>3
  <2>1. j \in Seq(S) /\ Len(j) = Len(s) + Len(q)
    BY <2>0
  <2>2. \A i \in 1 .. Len(s) : j[i] = s[i]
    BY <2>0
  <2>3. \A i \in 1 .. Len(q) : j[Len(s) + i] = q[i]
    BY <2>0
  <2> HIDE DEF j
  <2>4. r = j
    BY <1>4 DEF j
  <2>5. QED
    BY <2>1, <2>2, <2>3, <2>4
<1>6. \A i \in k + 1 .. Len(r) : i - k + 1 \in 2 .. Len(t) /\ r[i] = t[i - k + 1]
  <2>1. SUFFICES ASSUME NEW i \in k + 1 .. Len(r)
                 PROVE  i - k + 1 \in 2 .. Len(t) /\ r[i] = t[i - k + 1]
    OBVIOUS
  <2>2. i - k \in 1 .. Len(q) /\ k + (i - k) = i
    BY <1>1, <1>3, <1>5
  <2>3. r[i] = q[i - k] /\ q[i - k] = t[(i - k) + 1]
    BY <1>1, <1>3, <1>5, <2>2
  <2>4. QED
    BY <1>1, <1>3, <2>2, <2>3
<1>7. \A i \in 2 .. Len(t) : i + k - 1 \in k + 1 .. Len(r) /\ r[i + k - 1] = t[i]
  <2>1. SUFFICES ASSUME NEW i \in 2 .. Len(t)
                 PROVE  i + k - 1 \in k + 1 .. Len(r) /\ r[i + k - 1] = t[i]
    OBVIOUS
  <2>2. i + k - 1 \in k + 1 .. Len(r) /\ (i + k - 1) - k + 1 = i
    BY <1>1, <1>3, <1>5
  <2>3. QED
    BY <1>6, <2>2
<1>8. Replaced(S, k, s, t, r)
  BY <1>1, <1>3, <1>5, <1>6, <1>7 DEF Replaced
<1>9. QED
  BY <1>2, <1>4, <1>8

(* One step of the traversal: h is taken off the list and s put there.     *)
TakesUp(W, V, k, s, h, lo, hi) ==
  /\ Replaced(Pending, k, s, todo, todo') /\ h = todo[1]
  /\ V \subseteq W /\ W \subseteq V \cup {h} /\ W \subseteq Nodes
  /\ h > 0 => /\ h \in W
              /\ \A n \in Elems(kids[h]) : \E i \in 1 .. k : n = s[i]
              /\ Kind(h) = "use" => ref'[h] # NoNode
              /\ Kind(h) = "var" => \E i \in 1 .. k : s[i] = -h
  /\ h < 0 => -h \in finished'
  /\ finished \subseteq finished'
  /\ \A n \in Nodes : ref[n] # NoNode => ref'[n] # NoNode
  /\ h \in Uses => k = 0
  /\ \A i \in 1 .. k : s[i] < 0 =>
       i = 1 \/ (i = 2 /\ s[1] \in Uses /\ parent[s[1]] = -s[2])
  /\ \A i, j \in 1 .. k : i < j /\ s[i] > 0 /\ s[j] > 0 => hi[s[i]] < lo[s[j]]
  /\ \A i \in 1 .. k : s[i] > 0 => h > 0 /\ hi[s[i]] <= hi[h]

LEMMA WalkStep ==
  ASSUME Tree, UNCHANGED <<tree, parse>>, NEW lo, NEW hi, Spans(lo, hi),
         NEW V, Walk(V, lo, hi), NEW W, NEW k \in Nat, NEW s, NEW h,
         TakesUp(W, V, k, s, h, lo, hi)
  PROVE  Walk(W, lo, hi)'
<1> DEFINE t == todo
           r == todo'
<1>1. /\ Nodes' = Nodes /\ Uses' = Uses /\ \A n : Kind(n)' = Kind(n)
      /\ kids' = kids /\ parent' = parent
  BY Settled DEF tree, parse
<1>2. /\ t \in Seq(Pending) /\ \A n \in Nodes : n > 0 /\ n \in Int
      /\ \A n \in Nodes : Elems(kids[n]) \subseteq Nodes
  BY PendingIs, ParentIsNode DEF Nodes
<1>3. /\ V \in SUBSET Nodes /\ Unit \in V
      /\ \A p \in V : \A n \in Elems(kids[p]) : n \in V \/ n \in Elems(t)
      /\ \A n \in V : /\ Kind(n) = "use" => ref[n] # NoNode
                      /\ Kind(n) = "var" => n \in finished \/ -n \in Elems(t)
      /\ \A i \in DOMAIN t : t[i] < 0 => i = 1 \/ (i = 2 /\ t[1] \in Uses /\ parent[t[1]] = -t[2])
      /\ \A i, j \in DOMAIN t : i < j /\ t[i] > 0 /\ t[j] > 0 => hi[t[i]] < lo[t[j]]
  BY DEF Walk
<1>4. lo \in [Nodes -> Int] /\ hi \in [Nodes -> Int]
  BY DEF Spans
<1>5. /\ r \in Seq(Pending) /\ Len(r) = k + Len(t) - 1 /\ Len(t) > 0
      /\ \A i \in 1 .. k : r[i] = s[i]
      /\ \A i \in k + 1 .. Len(r) : i - k + 1 \in 2 .. Len(t) /\ r[i] = t[i - k + 1]
      /\ \A i \in 2 .. Len(t) : i + k - 1 \in k + 1 .. Len(r) /\ r[i + k - 1] = t[i]
  BY DEF TakesUp, Replaced
<1>6. /\ h = t[1]
      /\ V \subseteq W /\ W \subseteq V \cup {h} /\ W \subseteq Nodes
      /\ h > 0 => /\ h \in W
                  /\ \A n \in Elems(kids[h]) : \E i \in 1 .. k : n = s[i]
                  /\ Kind(h) = "use" => ref'[h] # NoNode
                  /\ Kind(h) = "var" => \E i \in 1 .. k : s[i] = -h
      /\ h < 0 => -h \in finished'
      /\ finished \subseteq finished'
      /\ \A n \in Nodes : ref[n] # NoNode => ref'[n] # NoNode
      /\ h \in Uses => k = 0
      /\ \A i \in 1 .. k : s[i] < 0 =>
           i = 1 \/ (i = 2 /\ s[1] \in Uses /\ parent[s[1]] = -s[2])
      /\ \A i, j \in 1 .. k : i < j /\ s[i] > 0 /\ s[j] > 0 => hi[s[i]] < lo[s[j]]
      /\ \A i \in 1 .. k : s[i] > 0 => h > 0 /\ hi[s[i]] <= hi[h]
  BY DEF TakesUp
<1> HIDE DEF t, r
<1>7. Len(t) \in Nat /\ DOMAIN t = 1 .. Len(t) /\ DOMAIN r = 1 .. Len(r) /\ Len(r) \in Nat
  BY <1>2, <1>5
<1>8. \A i \in DOMAIN t : t[i] \in Int /\ (t[i] > 0 => t[i] \in Nodes)
  <2>1. \A i \in DOMAIN t : t[i] \in Pending
    BY <1>2
  <2>2. \A n \in Pending : n \in Int /\ (n > 0 => n \in Nodes)
    BY <1>2 DEF Pending, Nodes
  <2>3. QED
    BY <2>1, <2>2
<1>9. \A i \in DOMAIN r : r[i] \in Int /\ (r[i] > 0 => r[i] \in Nodes)
  <2>1. \A i \in DOMAIN r : r[i] \in Pending
    BY <1>5
  <2>2. \A n \in Pending : n \in Int /\ (n > 0 => n \in Nodes)
    BY <1>2 DEF Pending, Nodes
  <2>3. QED
    BY <2>1, <2>2
<1>10. h \in Int /\ (h > 0 => h \in Nodes) /\ 1 \in DOMAIN t
  <2>1. 1 \in DOMAIN t
    BY <1>5, <1>7
  <2>2. QED
    BY <1>6, <1>8, <2>1
<1>11. \A i \in DOMAIN r : i \in 1 .. k \/ i \in k + 1 .. Len(r)
  BY <1>7
<1>12. \A i \in 1 .. k : i \in DOMAIN r
  BY <1>5, <1>7
<1>13. \A n \in Elems(t) : n # h => n \in Elems(r)
  <2>1. SUFFICES ASSUME NEW i \in DOMAIN t, t[i] # h PROVE t[i] \in Elems(r)
    BY DEF Elems
  <2>2. i \in 2 .. Len(t)
    BY <1>6, <1>7, <2>1
  <2>3. i + k - 1 \in DOMAIN r /\ r[i + k - 1] = t[i]
    BY SMTT(30), <1>5, <1>7, <2>2
  <2>4. QED
    BY <2>3 DEF Elems
<1>14. \A i \in 1 .. k : s[i] \in Elems(r)
  BY <1>5, <1>12 DEF Elems
<1>15. ASSUME NEW p \in W, NEW n \in Elems(kids[p]) PROVE n \in W \/ n \in Elems(r)
  <2>1. p \in Nodes /\ n \in Nodes /\ n > 0
    BY <1>2, <1>6
  <2>2. CASE p = h
    <3>1. \E i \in 1 .. k : n = s[i]
      BY <1>2, <1>6, <1>15, <2>1, <2>2
    <3>2. QED
      BY <1>14, <3>1
  <2>3. CASE p # h
    <3>1. p \in V
      BY <1>6, <2>3
    <3>2. n \in V \/ n \in Elems(t)
      BY <1>3, <1>15, <3>1
    <3>3. n = h => n \in W
      BY <1>6, <2>1
    <3>4. QED
      BY <1>6, <1>13, <3>2, <3>3
  <2>4. QED
    BY <2>2, <2>3
<1>16. ASSUME NEW n \in W
       PROVE  /\ Kind(n) = "use" => ref'[n] # NoNode
              /\ Kind(n) = "var" => n \in finished' \/ -n \in Elems(r)
  <2>1. n \in Nodes /\ n > 0 /\ n \in Int
    BY <1>2, <1>6
  <2>2. CASE n \in V
    <3>1. Kind(n) = "use" => ref'[n] # NoNode
      BY <1>3, <1>6, <2>1, <2>2
    <3>2. ASSUME Kind(n) = "var" PROVE n \in finished' \/ -n \in Elems(r)
      <4>1. n \in finished \/ -n \in Elems(t)
        BY <1>3, <2>2, <3>2
      <4>2. CASE -n = h
        <5>1. h < 0 /\ -h = n
          BY <2>1, <4>2
        <5>2. QED
          BY <1>6, <5>1
      <4>3. CASE -n # h
        BY <1>6, <1>13, <4>1, <4>3
      <4>4. QED
        BY <4>2, <4>3
    <3>3. QED
      BY <3>1, <3>2
  <2>3. CASE n \notin V
    <3>1. n = h /\ h > 0
      BY <1>6, <2>1, <2>3
    <3>2. QED
      BY <1>6, <1>14, <3>1
  <2>4. QED
    BY <2>2, <2>3
<1>17. ASSUME NEW i \in DOMAIN r, r[i] < 0
       PROVE  i = 1 \/ (i = 2 /\ r[1] \in Uses /\ parent[r[1]] = -r[2])
  <2>1. CASE i \in 1 .. k
    <3>1. i = 1 \/ (i = 2 /\ s[1] \in Uses /\ parent[s[1]] = -s[2])
      BY <1>5, <1>6, <1>17, <2>1
    <3>2. i = 2 => 1 \in 1 .. k /\ 2 \in 1 .. k
      BY <2>1
    <3>3. QED
      BY <1>5, <3>1, <3>2
  <2>2. CASE i \in k + 1 .. Len(r)
    <3>1. PICK j \in Int : j = i - k + 1
      BY <1>7, <2>2
    <3>2. j \in DOMAIN t /\ j # 1 /\ t[j] < 0
      BY <1>5, <1>7, <1>17, <2>2, <3>1
    <3>3. j = 2 /\ t[1] \in Uses
      BY <1>3, <3>2
    <3>4. k = 0
      BY <1>6, <3>3
    <3>5. i = 1
      BY <1>7, <2>2, <3>1, <3>3, <3>4
    <3>6. QED
      BY <3>5
  <2>3. QED
    BY <1>11, <2>1, <2>2
<1>18. ASSUME NEW i \in DOMAIN r, NEW j \in DOMAIN r, i < j, r[i] > 0, r[j] > 0
       PROVE  hi[r[i]] < lo[r[j]]
  <2>1. r[i] \in Nodes /\ r[j] \in Nodes
    BY <1>9, <1>18
  <2>2. CASE i \in 1 .. k /\ j \in 1 .. k
    BY <1>5, <1>6, <1>18, <2>2
  <2>3. CASE j \in k + 1 .. Len(r)
    <3>1. PICK b \in Int : b = j - k + 1
      BY <1>7, <2>3
    <3>2. b \in DOMAIN t /\ b > 1 /\ t[b] = r[j]
      BY <1>5, <1>7, <2>3, <3>1
    <3>3. CASE i \in 1 .. k
      <4>1. h > 0 /\ hi[r[i]] <= hi[h]
        BY <1>5, <1>6, <1>18, <3>3
      <4>2. hi[h] < lo[r[j]]
        BY <1>3, <1>6, <1>10, <1>18, <3>2, <4>1
      <4>3. hi[r[i]] \in Int /\ hi[h] \in Int /\ lo[r[j]] \in Int
        BY <1>4, <1>10, <2>1, <4>1
      <4>4. QED
        BY <4>1, <4>2, <4>3
    <3>4. CASE i \in k + 1 .. Len(r)
      <4>1. PICK a \in Int : a = i - k + 1
        BY <1>7, <3>4
      <4>2. a \in DOMAIN t /\ t[a] = r[i]
        BY <1>5, <1>7, <3>4, <4>1
      <4>3. a < b
        BY <1>18, <2>3, <3>1, <3>4, <4>1
      <4>4. QED
        BY <1>3, <1>18, <3>2, <4>2, <4>3
    <3>5. QED
      BY <1>11, <3>3, <3>4
  <2>4. CASE i \in k + 1 .. Len(r) /\ j \in 1 .. k
    BY <1>18, <2>4
  <2>5. QED
    BY <1>11, <2>2, <2>3, <2>4
<1>19. W \in SUBSET Nodes /\ Unit \in W
  BY <1>3, <1>6
<1>20. Walk(W, lo, hi)'
  <2>1. /\ \A p \in W : \A n \in Elems(kids'[p]) : n \in W \/ n \in Elems(r)
        /\ \A n \in W : /\ Kind(n)' = "use" => ref'[n] # NoNode
                        /\ Kind(n)' = "var" => n \in finished' \/ -n \in Elems(r)
    BY <1>1, <1>15, <1>16
  <2>2. \A i \in DOMAIN r : r[i] < 0 =>
          i = 1 \/ (i = 2 /\ r[1] \in Uses' /\ parent'[r[1]] = -r[2])
    BY <1>1, <1>17
  <2>3. \A i, j \in DOMAIN r : i < j /\ r[i] > 0 /\ r[j] > 0 => hi[r[i]] < lo[r[j]]
    BY <1>18
  <2>4. W \in SUBSET Nodes'
    BY <1>1, <1>19
  <2>5. QED
    BY <1>19, <2>1, <2>2, <2>3, <2>4 DEF Walk, Kind, r
<1>21. QED
  BY <1>20

(* What a step of the traversal leads to.                                  *)
Onward(R, lo, hi) ==
  Tree' /\ AtRest' /\ Searching(R)' /\ \E W : Walk(W, lo, hi)'

LEMMA RestStep ==
  ASSUME Tree, AtRest, UNCHANGED <<tree, parse>>, phase' # "parse",
         phase' = "done" => todo' = <<>>,
         phase' = "thrown" => Expected(Head(todo')) = NoNode,
         \A u \in Uses : ref'[u] # NoNode => ref'[u] = ref[u] \/ ref'[u] = Expected(u)
  PROVE  AtRest'
<1>1. Uses' = Uses /\ \A n : Expected(n)' = Expected(n)
  BY Settled
<1>2. \A u \in Uses' : ref'[u] # NoNode => ref'[u] = Expected(u)'
  BY <1>1 DEF AtRest
<1>3. QED
  BY <1>1, <1>2 DEF AtRest

LEMMA Parsed ==
  ASSUME Tree, phase # "parse"
  PROVE  /\ open = <<>> /\ DOMAIN open = {} /\ func = NoNode
         /\ \A n \in Nodes : n > Unit => parent[n] # NoNode
         /\ \A n \in Nodes : Kind(n) \in {"var", "use"} => n > Unit
<1>1. open = <<>> /\ DOMAIN open = {}
  BY DEF Tree, Shape
<1>2. func = NoNode
  BY <1>1 DEF Tree, Shape, ShapeFunc
<1>3. \A n \in Nodes : n > Unit => parent[n] # NoNode
  <2>1. \A n \in Nodes : n > Unit => n # NoNode
    BY DEF Unit, NoNode
  <2>2. QED
    BY <1>1, <1>2, <2>1 DEF Tree, Shape, ShapeBelow
<1>4. \A n \in Nodes : Kind(n) \in {"var", "use"} => n > Unit
  BY DEF Tree, Shape, Nodes, Unit
<1>5. QED
  BY <1>1, <1>2, <1>3, <1>4

LEMMA HeadFacts ==
  ASSUME Tree, todo # <<>>
  PROVE  /\ Head(todo) = todo[1] /\ todo \in Seq(Pending) /\ Len(todo) > 0
         /\ Tail(todo) \in Seq(Pending) /\ todo[1] \in Pending /\ todo[1] \in Int
         /\ todo[1] > 0 => todo[1] \in Nodes
         /\ todo[1] < 0 => -todo[1] \in Nodes
<1>1. todo \in Seq(Pending)
  BY PendingIs
<1>2. Head(todo) = todo[1] /\ Tail(todo) \in Seq(Pending) /\ Len(todo) > 0
  BY <1>1
<1>3. todo[1] \in Pending
  BY <1>1
<1>4. \A n \in Nodes : n > 0 /\ n \in Int
  BY DEF Nodes
<1>5. QED
  BY <1>1, <1>2, <1>3, <1>4 DEF Pending

LEMMA ConcatOne ==
  ASSUME NEW S, NEW s \in Seq(S), NEW e \in S
  PROVE  s \o <<e>> \in Seq(S) /\ SeqAppended(s, e, s \o <<e>>)
<1> DEFINE t == <<e>>
<1>0. t \in Seq(S)
  OBVIOUS
<1>1. Len(t) = 1 /\ t[1] = e
  OBVIOUS
<1> HIDE DEF t
<1>2. /\ s \o t \in Seq(S) /\ Len(s \o t) = Len(s) + 1
      /\ \A i \in 1 .. Len(s) : (s \o t)[i] = s[i]
      /\ (s \o t)[Len(s) + 1] = t[1]
  <2>1. s \o t \in Seq(S) /\ Len(s \o t) = Len(s) + Len(t)
    BY <1>0
  <2>2. \A i \in 1 .. Len(s) : (s \o t)[i] = s[i]
    BY <1>0
  <2>3. \A i \in 1 .. Len(t) : (s \o t)[Len(s) + i] = t[i]
    BY <1>0
  <2>4. Len(t) = 1 /\ 1 \in 1 .. Len(t)
    BY <1>1
  <2>5. QED
    BY <2>1, <2>2, <2>3, <2>4
<1>3. QED
  BY <1>1, <1>2 DEF SeqAppended, t

LEMMA EndParseStep ==
  ASSUME Tree, AtRest, NEW R, NEW lo, NEW hi, Spans(lo, hi), EndParse
  PROVE  Onward(R, lo, hi)
<1>1. /\ phase = "parse" /\ open = <<>> /\ phase' = "visit" /\ todo' = kids[Unit]
      /\ UNCHANGED <<tree, parse>> /\ UNCHANGED <<cur, ref, finished>>
  BY DEF EndParse
<1>2. Unit \in Nodes /\ kids[Unit] \in Seq(Pending) /\ kids[Unit] \in Seq(Nodes)
      /\ ref \in [Nodes -> Nodes \cup {NoNode}]
  BY Basics, PendingIs
<1>3. cur \in Nodes \cup {NoNode} /\ finished \subseteq Nodes
  BY DEF Tree, TypeOK
<1>4. Tree'
  BY <1>1, <1>2, <1>3, WalkTree
<1>5. AtRest'
  BY <1>1, RestStep
<1>6. Searching(R)'
  BY <1>1 DEF Searching
<1>7. Walk({Unit}, lo, hi)'
  <2>1. Nodes' = Nodes /\ \A n : Kind(n)' = Kind(n)
    BY <1>1, Settled
  <2>2. kids' = kids
    BY <1>1 DEF tree
  <2>3. Kind(Unit) = "unit"
    BY DEF Tree, Shape
  <2>4. PICK t : t = todo' /\ t = kids[Unit]
    BY <1>1
  <2>5. \A i \in DOMAIN t : t[i] \in Nodes /\ t[i] > 0 /\ t[i] \in Int
    BY <1>2, <2>4 DEF Nodes
  <2>6. \A i, j \in DOMAIN t : i < j => hi[t[i]] < lo[t[j]]
    BY <1>2, <2>4 DEF Spans, SpanAt, Ascending
  <2>7. \A p \in {Unit} : \A n \in Elems(kids'[p]) : n \in {Unit} \/ n \in Elems(t)
    BY <2>2, <2>4
  <2>8. \A n \in {Unit} : Kind(n)' \notin {"use", "var"}
    BY <2>1, <2>3
  <2>9. \A i \in DOMAIN t : ~(t[i] < 0)
    BY <2>5
  <2>10. QED
    BY <1>2, <2>1, <2>4, <2>6, <2>7, <2>8, <2>9 DEF Walk
<1>8. QED
  BY <1>4, <1>5, <1>6, <1>7 DEF Onward

LEMMA VisitAllStep ==
  ASSUME Tree, AtRest, NEW R, NEW lo, NEW hi, Spans(lo, hi), NEW V, Walk(V, lo, hi), VisitAll
  PROVE  Onward(R, lo, hi)
<1>1. /\ phase = "visit" /\ phase' = "visit" /\ todo # <<>>
      /\ Head(todo) > 0 /\ Kind(Head(todo)) \in {"param", "func", "block"}
      /\ todo' = kids[Head(todo)] \o Tail(todo)
      /\ UNCHANGED <<tree, parse>> /\ UNCHANGED <<cur, ref, finished>>
  BY DEF VisitAll, Visiting
<1>2. PICK h : h = Head(todo)
  OBVIOUS
<1>3. /\ h = todo[1] /\ h \in Nodes /\ h > 0 /\ todo \in Seq(Pending) /\ Tail(todo) \in Seq(Pending)
      /\ h \in Int
  BY <1>1, <1>2, HeadFacts
<1>4. PICK s : s = kids[h]
  OBVIOUS
<1>5. s \in Seq(Pending) /\ s \in Seq(Nodes) /\ ref \in [Nodes -> Nodes \cup {NoNode}]
  BY <1>3, <1>4, PendingIs, Basics
<1>6. cur \in Nodes \cup {NoNode} /\ finished \subseteq Nodes
  BY DEF Tree, TypeOK
<1>7. todo' = s \o Tail(todo)
  BY <1>1, <1>2, <1>4
<1>8. PICK k \in Nat : k = Len(s)
  BY <1>5
<1>9. Replaced(Pending, k, s, todo, todo')
  BY <1>1, <1>3, <1>5, <1>7, <1>8, ReplaceEffect
<1>10. Tree'
  <2>1. todo' \in Seq(Pending)
    BY <1>9 DEF Replaced
  <2>2. QED
    BY <1>1, <1>5, <1>6, <2>1, Parsed, WalkTree
<1>11. AtRest'
  BY <1>1, RestStep
<1>12. Searching(R)'
  BY <1>1 DEF Searching
<1>13. TakesUp(V \cup {h}, V, k, s, h, lo, hi)
  <2>1. DOMAIN s = 1 .. k /\ \A i \in 1 .. k : s[i] \in Nodes /\ s[i] > 0 /\ s[i] \in Int
    BY <1>5, <1>8 DEF Nodes
  <2>2. \A n \in Elems(kids[h]) : \E i \in 1 .. k : n = s[i]
    BY <1>4, <2>1 DEF Elems
  <2>3. \A i \in 1 .. k : s[i] \in Elems(kids[h])
    BY <1>4, <2>1 DEF Elems
  <2>4. Kind(h) \notin {"use", "var"} /\ h \notin Uses /\ h # Unit
    BY <1>1, <1>2 DEF Uses, Tree, Shape
  <2>5. \A i, j \in 1 .. k : i < j => hi[s[i]] < lo[s[j]]
    BY <1>3, <1>4, <2>1 DEF Spans, SpanAt, Ascending
  <2>6. \A i \in 1 .. k : hi[s[i]] <= hi[h]
    BY <1>3, <2>3, <2>4 DEF Spans, SpanAt
  <2>7. V \subseteq Nodes
    BY DEF Walk
  <2>8. ~(h < 0)
    BY <1>3
  <2>9. \A i \in 1 .. k : ~(s[i] < 0)
    BY <2>1
  <2>10. \A n \in Nodes : ref[n] # NoNode => ref'[n] # NoNode
    BY <1>1
  <2>11. finished \subseteq finished'
    BY <1>1
  <2>12. QED
    BY <1>3, <1>9, <2>2, <2>4, <2>5, <2>6, <2>7, <2>8, <2>9, <2>10, <2>11 DEF TakesUp
<1>14. Walk(V \cup {h}, lo, hi)'
  BY <1>1, <1>13, WalkStep
<1>15. QED
  BY <1>10, <1>11, <1>12, <1>14 DEF Onward

LEMMA VisitVarStep ==
  ASSUME Tree, AtRest, NEW R, NEW lo, NEW hi, Spans(lo, hi), NEW V, Walk(V, lo, hi), VisitVar
  PROVE  Onward(R, lo, hi)
<1>1. /\ phase = "visit" /\ phase' = "visit" /\ todo # <<>>
      /\ Head(todo) > 0 /\ Kind(Head(todo)) \in {"var"}
      /\ todo' = kids[Head(todo)] \o << -Head(todo) >> \o Tail(todo)
      /\ UNCHANGED <<tree, parse>> /\ UNCHANGED <<cur, ref, finished>>
  BY DEF VisitVar, Visiting
<1>2. PICK h : h = Head(todo)
  OBVIOUS
<1>3. /\ h = todo[1] /\ h \in Nodes /\ h > 0 /\ todo \in Seq(Pending) /\ Tail(todo) \in Seq(Pending)
      /\ h \in Int
  BY <1>1, <1>2, HeadFacts
<1>4. PICK l : l = kids[h]
  OBVIOUS
<1>5. l \in Seq(Pending) /\ l \in Seq(Nodes) /\ ref \in [Nodes -> Nodes \cup {NoNode}]
  BY <1>3, <1>4, PendingIs, Basics
<1>6. cur \in Nodes \cup {NoNode} /\ finished \subseteq Nodes
  BY DEF Tree, TypeOK
<1>7. PICK s : s = l \o << -h >>
  OBVIOUS
<1>8. -h \in Pending /\ -h < 0
  <2>1. -h \in Int /\ -(-h) = h
    BY <1>3
  <2>2. QED
    BY <1>3, <2>1 DEF Pending
<1>9. /\ s \in Seq(Pending) /\ Len(s) = Len(l) + 1 /\ s[Len(l) + 1] = -h
      /\ \A i \in 1 .. Len(l) : s[i] = l[i]
  BY <1>5, <1>7, <1>8, ConcatOne DEF SeqAppended
<1>10. todo' = s \o Tail(todo)
  BY <1>1, <1>2, <1>4, <1>7
<1>11. PICK k \in Nat : k = Len(s)
  BY <1>9
<1>12. Replaced(Pending, k, s, todo, todo')
  BY <1>1, <1>3, <1>9, <1>10, <1>11, ReplaceEffect
<1>13. Tree'
  <2>1. todo' \in Seq(Pending)
    BY <1>12 DEF Replaced
  <2>2. QED
    BY <1>1, <1>5, <1>6, <2>1, Parsed, WalkTree
<1>14. AtRest'
  BY <1>1, RestStep
<1>15. Searching(R)'
  BY <1>1 DEF Searching
<1>16. TakesUp(V \cup {h}, V, k, s, h, lo, hi)
  <2>1. DOMAIN l = 1 .. Len(l) /\ \A i \in 1 .. Len(l) : l[i] \in Nodes /\ l[i] > 0 /\ l[i] \in Int
    BY <1>5 DEF Nodes
  <2>2. Kind(h) = "var" /\ Kind(h) # "use" /\ h \notin Uses /\ h # Unit /\ h > Unit
    BY <1>1, <1>2, <1>3, Parsed DEF Uses, Unit
  <2>3. \A i \in 1 .. Len(l) : l[i] \in Elems(kids[h])
    BY <1>4, <2>1 DEF Elems
  <2>4. Len(l) \in Nat /\ Len(l) <= 1 /\ \A c \in Elems(kids[h]) : c \in Nodes /\ Kind(c) = "use" /\ parent[c] = h
    BY <1>1, <1>2, <1>3, <1>4, <1>5, <2>2, ParentIsNode DEF Tree, Shape, ShapeBelow
  <2>5. \A n \in Elems(kids[h]) : \E i \in 1 .. k : n = s[i]
    <3>1. SUFFICES ASSUME NEW i \in DOMAIN l PROVE \E j \in 1 .. k : l[i] = s[j]
      BY <1>4 DEF Elems
    <3>2. i \in 1 .. k /\ s[i] = l[i]
      BY <1>9, <1>11, <2>1, <2>4
    <3>3. QED
      BY <3>2
  <2>6. \E i \in 1 .. k : s[i] = -h
    <3>1. Len(l) + 1 \in 1 .. k
      BY <1>9, <1>11, <2>4
    <3>2. QED
      BY <1>9, <3>1
  <2>7. \A i \in 1 .. k : i \in 1 .. Len(l) \/ i = Len(l) + 1
    BY <1>9, <1>11, <2>4
  <2>8. ASSUME NEW i \in 1 .. k, s[i] < 0
        PROVE  i = 1 \/ (i = 2 /\ s[1] \in Uses /\ parent[s[1]] = -s[2])
    <3>1. i = Len(l) + 1
      BY <1>9, <2>1, <2>7, <2>8
    <3>2. CASE Len(l) = 0
      <4>1. Len(l) + 1 = 1
        BY <3>2
      <4>2. QED
        BY <3>1, <4>1
    <3>3. CASE Len(l) = 1
      <4>1. 1 \in 1 .. Len(l) /\ i = 2
        BY <3>1, <3>3
      <4>2. s[1] = l[1] /\ l[1] \in Elems(kids[h]) /\ s[2] = -h
        BY <1>9, <2>3, <3>1, <4>1
      <4>3. s[1] \in Uses /\ parent[s[1]] = h
        BY <2>4, <4>2 DEF Uses
      <4>4. h = -s[2]
        BY <1>3, <4>2
      <4>5. QED
        BY <4>1, <4>3, <4>4
    <3>4. Len(l) \in Nat /\ Len(l) <= 1
      BY <2>4
    <3>5. PICK n \in Nat : n = Len(l) /\ n <= 1
      BY <3>4
    <3>6. n = 0 \/ n = 1
      BY <3>5
    <3>7. QED
      BY <3>2, <3>3, <3>5, <3>6
  <2>9. ASSUME NEW i \in 1 .. k, s[i] > 0 PROVE i \in 1 .. Len(l) /\ s[i] = l[i] /\ hi[s[i]] <= hi[h]
    <3>1. i \in 1 .. Len(l)
      BY <1>3, <1>9, <2>7, <2>9
    <3>2. s[i] = l[i] /\ l[i] \in Elems(kids[h])
      BY <1>9, <2>3, <3>1
    <3>3. \A c \in Elems(kids[h]) : hi[c] <= hi[h]
      BY <1>3, <2>2 DEF Spans, SpanAt
    <3>4. QED
      BY <3>1, <3>2, <3>3
  <2>10. \A i, j \in 1 .. k : i < j /\ s[i] > 0 /\ s[j] > 0 => hi[s[i]] < lo[s[j]]
    <3>1. \A i, j \in 1 .. k : i < j /\ s[i] > 0 /\ s[j] > 0 => i \in 1 .. Len(l) /\ j \in 1 .. Len(l)
      BY <2>9
    <3>2. \A i, j \in 1 .. Len(l) : ~(i < j)
      BY <2>4
    <3>3. QED
      BY <3>1, <3>2
  <2>11. V \subseteq Nodes
    BY DEF Walk
  <2>12. ~(h < 0)
    BY <1>3
  <2>13. \A n \in Nodes : ref[n] # NoNode => ref'[n] # NoNode
    BY <1>1
  <2>14. finished \subseteq finished'
    BY <1>1
  <2>15. QED
    BY <1>3, <1>12, <2>2, <2>5, <2>6, <2>8, <2>9, <2>10, <2>11, <2>12, <2>13, <2>14 DEF TakesUp
<1>17. Walk(V \cup {h}, lo, hi)'
  BY <1>1, <1>16, WalkStep
<1>18. QED
  BY <1>13, <1>14, <1>15, <1>17 DEF Onward

(* The head of the list goes, nothing comes.                               *)
LEMMA TailStep ==
  ASSUME Tree, todo # <<>>, todo' = Tail(todo)
  PROVE  Replaced(Pending, 0, <<>>, todo, todo') /\ todo' \in Seq(Pending)
<1>1. todo \in Seq(Pending) /\ Tail(todo) \in Seq(Pending)
  BY HeadFacts
<1> DEFINE none == <<>>
<1>2. none \in Seq(Pending) /\ Len(none) = 0
  OBVIOUS
<1>3. none \o Tail(todo) = Tail(todo)
  BY <1>1
<1> HIDE DEF none
<1>4. PICK k \in Nat : k = 0 /\ Len(none) = k
  BY <1>2
<1>5. Replaced(Pending, k, none, todo, none \o Tail(todo))
  BY <1>1, <1>2, <1>4, ReplaceEffect
<1>6. QED
  BY <1>1, <1>3, <1>4, <1>5 DEF none

LEMMA LeaveVarStep ==
  ASSUME Tree, AtRest, NEW R, NEW lo, NEW hi, Spans(lo, hi), NEW V, Walk(V, lo, hi), LeaveVar
  PROVE  Onward(R, lo, hi)
<1>1. /\ phase = "visit" /\ phase' = "visit" /\ todo # <<>> /\ Head(todo) < 0
      /\ finished' = finished \cup {-Head(todo)} /\ todo' = Tail(todo)
      /\ UNCHANGED <<tree, parse>> /\ UNCHANGED <<cur, ref>>
  BY DEF LeaveVar
<1>2. PICK h : h = Head(todo)
  OBVIOUS
<1>3. h = todo[1] /\ h < 0 /\ -h \in Nodes /\ h \in Int
  BY <1>1, <1>2, HeadFacts
<1>4. Replaced(Pending, 0, <<>>, todo, todo') /\ todo' \in Seq(Pending)
  BY <1>1, TailStep
<1>5. /\ cur \in Nodes \cup {NoNode} /\ finished' \subseteq Nodes
      /\ ref \in [Nodes -> Nodes \cup {NoNode}]
  BY <1>1, <1>2, <1>3 DEF Tree, TypeOK
<1>6. Tree'
  BY <1>1, <1>4, <1>5, Parsed, WalkTree
<1>7. AtRest'
  BY <1>1, RestStep
<1>8. Searching(R)'
  BY <1>1 DEF Searching
<1>9. TakesUp(V, V, 0, <<>>, h, lo, hi)
  <2>1. ~(h > 0) /\ V \subseteq Nodes
    BY <1>3 DEF Walk
  <2>2. -h \in finished' /\ finished \subseteq finished'
    BY <1>1, <1>2
  <2>3. \A i \in 1 .. 0 : FALSE
    OBVIOUS
  <2>4. \A n \in Nodes : ref[n] # NoNode => ref'[n] # NoNode
    BY <1>1
  <2>5. QED
    BY <1>3, <1>4, <2>1, <2>2, <2>3, <2>4 DEF TakesUp
<1>10. Walk(V, lo, hi)'
  BY <1>1, <1>9, WalkStep
<1>11. QED
  BY <1>6, <1>7, <1>8, <1>10 DEF Onward

(* Where the search of a use begins, and where it goes.                    *)
LEMMA SearchBegins ==
  ASSUME Tree, phase # "parse", NEW R, Climbs(R), NEW u \in Uses
  PROVE  parent[u] \in Nodes /\ <<u, parent[u]>> \in R
<1>1. DOMAIN open = {}
  BY Parsed
<1>2. ~AwaitsAt(u, u)
  BY <1>1 DEF AwaitsAt
<1>3. parent[u] # NoNode /\ <<u, parent[u]>> \in R
  BY <1>2 DEF Climbs
<1>4. QED
  BY <1>3, ParentIsNode DEF Uses

LEMMA SearchGoesOn ==
  ASSUME Tree, phase # "parse", NEW R, Climbs(R), NEW u \in Uses, NEW n \in Nodes,
         <<u, n>> \in R
  PROVE  /\ FoundAt(u, n) => table[n][NameOf(u)] = Expected(u)
         /\ ~FoundAt(u, n) /\ parent[n] # NoNode =>
              parent[n] \in Nodes /\ <<u, parent[n]>> \in R
         /\ ~FoundAt(u, n) /\ parent[n] = NoNode => Expected(u) = NoNode
<1>1. DOMAIN open = {}
  BY Parsed
<1>2. ~AwaitsAt(u, n)
  BY <1>1 DEF AwaitsAt
<1>3. Stands(R, u, n)
  BY DEF Climbs
<1>4. parent[n] # NoNode => parent[n] \in Nodes
  BY ParentIsNode
<1>5. QED
  BY <1>2, <1>3, <1>4 DEF Stands

LEMMA VisitUseStep ==
  ASSUME Tree, AtRest, NEW R, Climbs(R), NEW lo, NEW hi, Spans(lo, hi),
         NEW V, Walk(V, lo, hi), VisitUse
  PROVE  Onward(R, lo, hi)
<1>1. /\ phase = "visit" /\ phase' = "find" /\ todo # <<>>
      /\ Head(todo) > 0 /\ Kind(Head(todo)) \in {"use"}
      /\ cur' = parent[Head(todo)]
      /\ UNCHANGED <<tree, parse>> /\ UNCHANGED <<todo, ref, finished>>
  BY DEF VisitUse, Visiting
<1>2. PICK h : h = Head(todo)
  OBVIOUS
<1>3. h \in Nodes /\ h \in Uses /\ todo \in Seq(Pending)
  BY <1>1, <1>2, HeadFacts DEF Uses
<1>4. parent[h] \in Nodes /\ <<h, parent[h]>> \in R
  BY <1>1, <1>3, SearchBegins
<1>5. finished \subseteq Nodes /\ ref \in [Nodes -> Nodes \cup {NoNode}]
  BY DEF Tree, TypeOK
<1>6. Tree'
  <2>1. cur' \in Nodes \cup {NoNode}
    BY <1>1, <1>2, <1>4
  <2>2. QED
    BY <1>1, <1>3, <1>5, <2>1, Parsed, WalkTree
<1>7. AtRest'
  BY <1>1, RestStep
<1>8. Searching(R)'
  <2>1. Uses' = Uses /\ Nodes' = Nodes
    BY <1>1, Settled
  <2>2. Head(todo') = h /\ todo' # <<>> /\ cur' = parent[h]
    BY <1>1, <1>2
  <2>3. QED
    BY <1>3, <1>4, <2>1, <2>2 DEF Searching
<1>9. Walk(V, lo, hi)'
  <2>1. Uses' = Uses /\ Nodes' = Nodes /\ \A n : Kind(n)' = Kind(n)
    BY <1>1, Settled
  <2>2. kids' = kids /\ parent' = parent
    BY <1>1 DEF tree
  <2>3. QED
    BY <1>1, <2>1, <2>2 DEF Walk, Kind
<1>10. QED
  BY <1>6, <1>7, <1>8, <1>9 DEF Onward

LEMMA FindHereStep ==
  ASSUME Tree, AtRest, NEW R, Climbs(R), Searching(R), NEW lo, NEW hi, Spans(lo, hi),
         NEW V, Walk(V, lo, hi), FindHere
  PROVE  Onward(R, lo, hi)
<1>1. /\ phase = "find" /\ phase' = "visit" /\ FoundAt(Head(todo), cur)
      /\ ref' = [ref EXCEPT ![Head(todo)] = table[cur][NameOf(Head(todo))]]
      /\ todo' = Tail(todo)
      /\ UNCHANGED <<tree, parse>> /\ UNCHANGED <<cur, finished>>
  BY DEF FindHere
<1>2. PICK u \in Uses : u = Head(todo) /\ todo # <<>> /\ cur \in Nodes /\ <<u, cur>> \in R
  BY <1>1 DEF Searching
<1>3. u = todo[1] /\ u \in Nodes /\ u > 0 /\ Kind(u) = "use"
  BY <1>2, HeadFacts DEF Uses, Nodes
<1>4. table[cur][NameOf(u)] = Expected(u) /\ table[cur][NameOf(u)] # NoNode
  <2>1. FoundAt(u, cur)
    BY <1>1, <1>2
  <2>2. QED
    BY ZenonT(30), <1>1, <1>2, <2>1, SearchGoesOn DEF FoundAt
<1>5. Expected(u) \in Nodes \cup {NoNode} /\ ref \in [Nodes -> Nodes \cup {NoNode}]
  BY <1>3 DEF Tree, TypeOK, Expected
<1>6. ref' = [ref EXCEPT ![u] = Expected(u)]
  BY <1>1, <1>2, <1>4
<1>7. /\ ref' \in [Nodes -> Nodes \cup {NoNode}] /\ ref'[u] = Expected(u) /\ Expected(u) # NoNode
      /\ \A n \in Nodes : n # u => ref'[n] = ref[n]
  BY <1>3, <1>4, <1>5, <1>6
<1>8. Replaced(Pending, 0, <<>>, todo, todo') /\ todo' \in Seq(Pending)
  BY <1>1, <1>2, TailStep
<1>9. finished \subseteq Nodes /\ cur \in Nodes
  BY <1>2 DEF Tree, TypeOK
<1>10. Tree'
  BY <1>1, <1>7, <1>8, <1>9, Parsed, WalkTree
<1>11. AtRest'
  <2>1. \A n \in Uses : ref'[n] # NoNode => ref'[n] = ref[n] \/ ref'[n] = Expected(n)
    BY <1>7 DEF Uses
  <2>2. QED
    BY <1>1, <2>1, RestStep
<1>12. Searching(R)'
  BY <1>1 DEF Searching
<1>13. TakesUp(V \cup {u}, V, 0, <<>>, u, lo, hi)
  <2>1. kids[u] = <<>>
    <3>1. u > Unit
      BY <1>1, <1>3, Parsed
    <3>2. QED
      BY <1>3, <3>1 DEF Tree, Shape, ShapeBelow
  <2>2. Elems(kids[u]) = {}
    BY <2>1 DEF Elems
  <2>3. V \subseteq Nodes /\ ~(u < 0)
    BY <1>3 DEF Walk, Nodes
  <2>4. \A i \in 1 .. 0 : FALSE
    OBVIOUS
  <2>5. \A n \in Nodes : ref[n] # NoNode => ref'[n] # NoNode
    BY <1>7
  <2>6. finished \subseteq finished'
    BY <1>1
  <2>7. Kind(u) # "var"
    BY <1>3
  <2>8. QED
    BY <1>3, <1>7, <1>8, <2>2, <2>3, <2>4, <2>5, <2>6, <2>7 DEF TakesUp
<1>14. Walk(V \cup {u}, lo, hi)'
  BY <1>1, <1>13, WalkStep
<1>15. QED
  BY <1>10, <1>11, <1>12, <1>14 DEF Onward

(* The list stays as it is.                                                *)
LEMMA SameList ==
  ASSUME Tree, AtRest, phase # "parse", UNCHANGED <<tree, parse>>,
         UNCHANGED <<todo, ref, finished>>,
         phase' \in {"find", "done", "thrown"}, cur' \in Nodes \cup {NoNode},
         phase' = "done" => todo = <<>>,
         phase' = "thrown" => Expected(Head(todo)) = NoNode,
         NEW R, Searching(R)', NEW lo, NEW hi, NEW V, Walk(V, lo, hi)
  PROVE  Onward(R, lo, hi)
<1>1. todo \in Seq(Pending) /\ finished \subseteq Nodes /\ ref \in [Nodes -> Nodes \cup {NoNode}]
  BY PendingIs DEF Tree, TypeOK
<1>2. Tree'
  BY <1>1, Parsed, WalkTree
<1>3. AtRest'
  BY RestStep
<1>4. Uses' = Uses /\ Nodes' = Nodes /\ \A n : Kind(n)' = Kind(n)
  BY Settled
<1>5. kids' = kids /\ parent' = parent
  BY DEF tree
<1>6. Walk(V, lo, hi)'
  BY <1>4, <1>5 DEF Walk, Kind
<1>7. QED
  BY <1>2, <1>3, <1>6 DEF Onward

LEMMA ClimbStep ==
  ASSUME Tree, AtRest, NEW R, Climbs(R), Searching(R), NEW lo, NEW hi,
         NEW V, Walk(V, lo, hi), Climb
  PROVE  Onward(R, lo, hi)
<1>1. /\ phase = "find" /\ phase' = "find" /\ ~FoundAt(Head(todo), cur)
      /\ parent[cur] # NoNode /\ cur' = parent[cur]
      /\ UNCHANGED <<tree, parse>> /\ UNCHANGED <<todo, ref, finished>>
  BY DEF Climb
<1>2. PICK u \in Uses : u = Head(todo) /\ todo # <<>> /\ cur \in Nodes /\ <<u, cur>> \in R
  BY <1>1 DEF Searching
<1>3. cur' \in Nodes /\ <<u, cur'>> \in R
  <2>1. ~FoundAt(u, cur)
    BY <1>1, <1>2
  <2>2. QED
    BY <1>1, <1>2, <2>1, SearchGoesOn
<1>4. Searching(R)'
  <2>1. Uses' = Uses /\ Nodes' = Nodes
    BY <1>1, Settled
  <2>2. Head(todo') = u /\ todo' # <<>>
    BY <1>1, <1>2
  <2>3. QED
    BY <1>2, <1>3, <2>1, <2>2 DEF Searching
<1>5. QED
  BY <1>1, <1>3, <1>4, SameList

LEMMA NotFoundStep ==
  ASSUME Tree, AtRest, NEW R, Climbs(R), Searching(R), NEW lo, NEW hi,
         NEW V, Walk(V, lo, hi), NotFound
  PROVE  Onward(R, lo, hi)
<1>1. /\ phase = "find" /\ phase' = "thrown" /\ ~FoundAt(Head(todo), cur)
      /\ parent[cur] = NoNode
      /\ UNCHANGED <<tree, parse>> /\ UNCHANGED <<todo, cur, ref, finished>>
  BY DEF NotFound, walk
<1>2. PICK u \in Uses : u = Head(todo) /\ todo # <<>> /\ cur \in Nodes /\ <<u, cur>> \in R
  BY <1>1 DEF Searching
<1>3. Expected(u) = NoNode
  <2>1. ~FoundAt(u, cur)
    BY <1>1, <1>2
  <2>2. QED
    BY <1>1, <1>2, <2>1, SearchGoesOn
<1>4. Searching(R)'
  <2>1. Uses' = Uses /\ Nodes' = Nodes
    BY <1>1, Settled
  <2>2. Head(todo') = u /\ todo' # <<>> /\ cur' = cur
    BY <1>1, <1>2
  <2>3. QED
    BY <1>2, <2>1, <2>2 DEF Searching
<1>5. cur' \in Nodes
  BY <1>1, <1>2
<1>6. QED
  BY <1>1, <1>2, <1>3, <1>4, <1>5, SameList

LEMMA ReturnStep ==
  ASSUME Tree, AtRest, NEW R, NEW lo, NEW hi, NEW V, Walk(V, lo, hi), Return
  PROVE  Onward(R, lo, hi)
<1>1. /\ phase = "visit" /\ phase' = "done" /\ todo = <<>>
      /\ UNCHANGED <<tree, parse>> /\ UNCHANGED <<todo, cur, ref, finished>>
  BY DEF Return, walk
<1>2. cur' \in Nodes \cup {NoNode}
  BY <1>1 DEF Tree, TypeOK
<1>3. Searching(R)'
  BY <1>1 DEF Searching
<1>4. QED
  BY <1>1, <1>2, <1>3, SameList

LEMMA StutterStep ==
  ASSUME Tree, AtRest, NEW R, Searching(R), NEW lo, NEW hi, UNCHANGED vars
  PROVE  /\ Tree' /\ AtRest' /\ Searching(R)' /\ phase' = phase
         /\ \A V : Walk(V, lo, hi)' <=> Walk(V, lo, hi)
<1>1. /\ UNCHANGED <<tree, parse>> /\ UNCHANGED <<todo, cur, ref, finished, phase>>
      /\ UNCHANGED <<nodes, parent, kids, table, tokens>> /\ UNCHANGED <<func, open, env, meant>>
  BY DEF vars, walk, tree, parse
<1>2. /\ Uses' = Uses /\ Nodes' = Nodes /\ \A n : Kind(n)' = Kind(n)
      /\ \A n : Expected(n)' = Expected(n)
  BY <1>1, Settled
<1>3. AtRest' /\ Searching(R)'
  BY <1>1, <1>2 DEF AtRest, Searching
<1>4. \A V : Walk(V, lo, hi)' <=> Walk(V, lo, hi)
  BY <1>1, <1>2 DEF Walk, Kind
<1>5. TypeOK'
  BY <1>1, <1>2 DEF Tree, TypeOK, Frames
<1>6. /\ ShapeOpen' <=> ShapeOpen
      /\ ShapeFunc' <=> ShapeFunc
      /\ \A n \in Nodes : ShapeBelow(n)' <=> ShapeBelow(n)
  <2>1. ShapeOpen' <=> ShapeOpen
    BY <1>1 DEF ShapeOpen, Kind
  <2>2. ShapeFunc' <=> ShapeFunc
    BY <1>1 DEF ShapeFunc, Kind
  <2>3. \A n \in Nodes : ShapeBelow(n)' <=> ShapeBelow(n)
    BY <1>1 DEF ShapeBelow, Kind
  <2>4. QED
    BY <2>1, <2>2, <2>3
<1>7. Shape'
  BY <1>1, <1>2, <1>6 DEF Tree, Shape, Kind
<1>8. QED
  BY <1>1, <1>3, <1>4, <1>5, <1>7 DEF Tree

-----------------------------------------------------------------------------
(* The parser.                                                             *)

(* What it leaves to the traversal.                                        *)
LEMMA ParseRest ==
  ASSUME Tree, AtRest, Grows, phase = "parse", phase' = "parse", todo' = todo,
         \A n \in Nodes' : n \notin Nodes => ref'[n] = NoNode
  PROVE  AtRest'
<1>1. \A n \in Nodes' : ref'[n] = NoNode
  <2>1. \A n \in Nodes : ref'[n] = ref[n] /\ ref[n] = NoNode
    BY DEF Grows, Stays, AtRest
  <2>2. QED
    BY <2>1
<1>2. Uses' \subseteq Nodes'
  BY DEF Uses
<1>3. QED
  BY <1>1, <1>2 DEF AtRest

LEMMA UseRest ==
  ASSUME Tree, AtRest, NEW name \in Names, Use(name)
  PROVE  AtRest'
<1>1. PICK u : u = Len(nodes) + 1
  OBVIOUS
<1>2. Nodes' = 1 .. u /\ ref'[u] = NoNode
  BY <1>1, UseEffect
<1>3. Grows
  BY UseTree
<1>4. phase = "parse" /\ phase' = "parse" /\ todo' = todo
  BY DEF Use, Room
<1>5. Nodes = 1 .. Len(nodes) /\ Len(nodes) \in Nat
  BY Basics
<1>6. \A n \in Nodes' : n \notin Nodes => n = u
  BY <1>1, <1>2, <1>5
<1>7. QED
  BY <1>2, <1>3, <1>4, <1>6, ParseRest

LEMMA VarDefRest ==
  ASSUME Tree, AtRest, NEW name \in Names, NEW init \in Names \cup {NoUse}, VarDef(name, init)
  PROVE  AtRest'
<1>1. PICK k \in {0, 1}, d \in Nat : VarDefFacts(name, init, k, d)
  BY VarDefStep
<1>2. /\ \A n \in Nodes' : n \notin Nodes => n = d \/ (k = 1 /\ n = Len(nodes) + 1)
      /\ ref'[d] = NoNode /\ (k = 1 => ref'[Len(nodes) + 1] = NoNode)
  BY <1>1 DEF VarDefFacts, VarDefined
<1>3. Grows
  BY VarDefTree
<1>4. phase = "parse" /\ phase' = "parse" /\ todo' = todo
  BY Zenon DEF VarDef, Room
<1>5. QED
  BY <1>2, <1>3, <1>4, ParseRest

LEMMA FuncHeadRest ==
  ASSUME Tree, AtRest, NEW name \in Names, NEW params \in Seq(Names), FuncHead(name, params),
         Distinct(params)
  PROVE  AtRest'
<1>1. PICK k \in Nat, f \in Nat : FuncHeadFacts(name, params, k, f)
  BY FuncHeadStep
<1>2. /\ \A n \in Nodes' : n \notin Nodes => n = f \/ \E i \in 1 .. k : n = Len(nodes) + i
      /\ ref'[f] = NoNode /\ \A i \in 1 .. k : ref'[Len(nodes) + i] = NoNode
  BY <1>1 DEF FuncHeadFacts, FuncOpened
<1>3. Grows
  BY FuncHeadTree
<1>4. phase = "parse" /\ phase' = "parse" /\ todo' = todo
  BY Zenon DEF FuncHead, Room
<1>5. \A n \in Nodes' : n \notin Nodes => ref'[n] = NoNode
  BY <1>2
<1>6. QED
  BY <1>3, <1>4, <1>5, ParseRest

LEMMA OpenBlockRest ==
  ASSUME Tree, AtRest, OpenBlock
  PROVE  AtRest'
<1>1. phase = "parse" /\ phase' = "parse" /\ todo' = todo /\ nodes' = nodes
  BY DEF OpenBlock, Room, walk, tree
<1>2. Grows
  BY OpenBlockTree
<1>3. Nodes' = Nodes
  BY <1>1 DEF Nodes
<1>4. QED
  BY <1>1, <1>2, <1>3, ParseRest

LEMMA CloseBlockRest ==
  ASSUME Tree, Scopes, AtRest, CloseBlock
  PROVE  AtRest'
<1>1. PICK b : b = Len(nodes) + 1
  OBVIOUS
<1>2. Nodes' = 1 .. b /\ ref'[b] = NoNode
  BY <1>1, CloseBlockEffect DEF BlockClosed
<1>3. Grows
  BY CloseBlockTree
<1>4. phase = "parse" /\ phase' = "parse" /\ todo' = todo
  BY DEF CloseBlock
<1>5. Nodes = 1 .. Len(nodes) /\ Len(nodes) \in Nat
  BY Basics
<1>6. \A n \in Nodes' : n \notin Nodes => n = b
  BY <1>1, <1>2, <1>5
<1>7. QED
  BY <1>2, <1>3, <1>4, <1>6, ParseRest

LEMMA CloseBodyRest ==
  ASSUME Tree, Scopes, AtRest, CloseBody
  PROVE  AtRest'
<1>1. PICK b : b = Len(nodes) + 1
  OBVIOUS
<1>2. Nodes' = 1 .. b /\ ref'[b] = NoNode
  BY <1>1, CloseBodyEffect DEF BodyClosed
<1>3. Grows
  BY CloseBodyTree
<1>4. phase = "parse" /\ phase' = "parse" /\ todo' = todo
  BY DEF CloseBody
<1>5. Nodes = 1 .. Len(nodes) /\ Len(nodes) \in Nat
  BY Basics
<1>6. \A n \in Nodes' : n \notin Nodes => n = b
  BY <1>1, <1>2, <1>5
<1>7. QED
  BY <1>2, <1>3, <1>4, <1>6, ParseRest

(* Spans of the new nodes; those of the others are kept.                   *)
Widens(lo, hi, lo2, hi2) ==
  /\ lo2 \in [Nodes' -> Int] /\ hi2 \in [Nodes' -> Int]
  /\ \A n \in Nodes : lo2[n] = lo[n] /\ hi2[n] = hi[n]

LEMMA SpanFacts ==
  ASSUME Tree, NEW lo, NEW hi, Spans(lo, hi)
  PROVE  /\ \A n \in Nodes : lo[n] \in Int /\ hi[n] \in Int /\ hi[n] <= tokens /\ lo[n] <= hi[n] + 1
         /\ tokens \in Nat
         /\ \A n \in Nodes : Elems(kids[n]) \subseteq Nodes
         /\ \A k \in DOMAIN open : Elems(open[k]) \subseteq Nodes
BY Basics, ParentIsNode, ItemFacts DEF Spans, SpanAt

LEMMA SpanKept ==
  ASSUME Tree, Grows, NEW lo, NEW hi, Spans(lo, hi), NEW lo2, NEW hi2, Widens(lo, hi, lo2, hi2),
         tokens' >= tokens, tokens' \in Nat, NEW n \in Nodes, kids'[n] = kids[n]
  PROVE  SpanAt(n, lo2, hi2)'
<1>1. /\ lo[n] \in Int /\ hi[n] \in Int /\ hi[n] <= tokens /\ tokens \in Nat
      /\ Elems(kids[n]) \subseteq Nodes
  BY SpanFacts
<1>2. SpanAt(n, lo, hi)
  BY DEF Spans
<1>3. \A c \in Nodes : lo2[c] = lo[c] /\ hi2[c] = hi[c]
  BY DEF Widens
<1>4. Kind(n)' = Kind(n) /\ IdentOf(n)' = IdentOf(n)
  BY KindsKept DEF Grows
<1>5. PICK s : s = kids[n] /\ s = kids'[n]
  OBVIOUS
<1>6. \A i \in DOMAIN s : s[i] \in Nodes
  BY <1>1, <1>5 DEF Elems
<1>7. Ascending(s, lo2, hi2)
  <2>1. Ascending(s, lo, hi)
    BY <1>2, <1>5 DEF SpanAt
  <2>2. QED
    BY <1>3, <1>6, <2>1 DEF Ascending
<1>8. n # Unit => \A c \in Elems(s) : lo2[n] <= lo2[c] /\ hi2[c] <= hi2[n]
  <2>1. \A c \in Elems(s) : c \in Nodes
    BY <1>1, <1>5
  <2>2. n # Unit => \A c \in Elems(s) : lo[n] <= lo[c] /\ hi[c] <= hi[n]
    BY <1>2, <1>5 DEF SpanAt
  <2>3. QED
    BY <1>3, <2>1, <2>2
<1>9. /\ lo2[n] <= hi2[n] + 1 /\ hi2[n] <= tokens'
      /\ Kind(n)' \in {"var", "use"} => lo2[n] <= IdentOf(n)' /\ IdentOf(n)' <= hi2[n]
      /\ Kind(n)' = "use" => lo2[n] = hi2[n]
  BY <1>1, <1>2, <1>3, <1>4 DEF SpanAt
<1>10. QED
  BY <1>5, <1>7, <1>8, <1>9 DEF SpanAt, Kind, IdentOf

(* The item e comes after all that is there.                               *)
ItemLast(e, L) ==
  /\ L \in DOMAIN open /\ DOMAIN open' = 1 .. L
  /\ \A k \in 1 .. L : k # L => open'[k] = open[k]
  /\ open'[L] = Append(open[L], e)

LEMMA AppendAscends ==
  ASSUME NEW S, NEW s \in Seq(S), NEW e, NEW lo, NEW hi, Ascending(s, lo, hi),
         \A i \in DOMAIN s : hi[s[i]] < lo[e]
  PROVE  Ascending(Append(s, e), lo, hi)
<1> DEFINE T == S \cup {e}
           r == Append(s, e)
<1>1. s \in Seq(T) /\ e \in T
  BY SeqWiden
<1> HIDE DEF T
<1>2. SeqAppended(s, e, r) /\ r \in Seq(T) /\ Len(s) \in Nat /\ DOMAIN s = 1 .. Len(s)
  BY <1>1, SeqAppend
<1>3. /\ Len(r) = Len(s) + 1 /\ DOMAIN r = 1 .. Len(r) /\ r[Len(s) + 1] = e
      /\ \A i \in 1 .. Len(s) : r[i] = s[i]
  BY <1>2 DEF SeqAppended
<1> HIDE DEF r
<1>4. ASSUME NEW i \in DOMAIN r, NEW j \in DOMAIN r, i < j PROVE hi[r[i]] < lo[r[j]]
  <2>1. i \in 1 .. Len(s)
    BY <1>2, <1>3, <1>4
  <2>2. r[i] = s[i] /\ i \in DOMAIN s
    BY <1>2, <1>3, <2>1
  <2>3. CASE j = Len(s) + 1
    BY <1>3, <2>2, <2>3
  <2>4. CASE j # Len(s) + 1
    <3>1. j \in DOMAIN s /\ r[j] = s[j]
      BY <1>2, <1>3, <2>4
    <3>2. QED
      BY <1>4, <2>2, <3>1 DEF Ascending
  <2>5. QED
    BY <2>3, <2>4
<1>5. QED
  BY <1>4 DEF Ascending, r

LEMMA ItemSpans ==
  ASSUME Tree, NEW lo, NEW hi, Spans(lo, hi), NEW lo2, NEW hi2, Widens(lo, hi, lo2, hi2),
         NEW e, e \notin Nodes, NEW L \in Nat, ItemLast(e, L), func' = func,
         Nodes \subseteq Nodes',
         \A k \in 1 .. L : \A n \in Elems(open[k]) : hi[n] < lo2[e],
         hi[func] < lo2[e], kids'[Unit] = kids[Unit],
         \A n \in Nodes' : func \notin Elems(kids'[n])
  PROVE  SpanOpen(lo2, hi2)' /\ SpanFunc(lo2, hi2)'
<1>1. /\ \A k \in DOMAIN open : Elems(open[k]) \subseteq Nodes /\ open[k] \in Seq(Nodes)
      /\ \A n \in Nodes : Elems(kids[n]) \subseteq Nodes
      /\ DOMAIN open = 1 .. Len(open) /\ Len(open) \in Nat
  BY SpanFacts, ItemFacts, Basics
<1>2. \A n \in Nodes : lo2[n] = lo[n] /\ hi2[n] = hi[n]
  BY DEF Widens
<1>3. /\ L \in DOMAIN open /\ DOMAIN open' = 1 .. L /\ L \in 1 .. L
      /\ \A k \in 1 .. L : k \in DOMAIN open
      /\ \A k \in 1 .. L : k # L => open'[k] = open[k]
      /\ open'[L] = Append(open[L], e)
  BY <1>1 DEF ItemLast
<1>4. Elems(open'[L]) = Elems(open[L]) \cup {e}
  <2>1. open[L] \in Seq(Nodes \cup {e})
    BY <1>1, <1>3, SeqWiden
  <2>2. Elems(Append(open[L], e)) = Elems(open[L]) \cup {e}
    BY <2>1, ElemsAppend
  <2>3. QED
    BY <1>3, <2>2
<1>5. /\ \A k \in DOMAIN open : Ascending(open[k], lo, hi)
      /\ \A j, k \in DOMAIN open : j < k =>
           \A m \in Elems(open[j]), n \in Elems(open[k]) : hi[m] < lo[n]
  BY DEF Spans, SpanOpen
<1>6. \A k \in 1 .. L : \A n \in Elems(open'[k]) :
        (n \in Elems(open[k]) /\ n \in Nodes) \/ (n = e /\ k = L)
  <2>1. ASSUME NEW k \in 1 .. L, NEW n \in Elems(open'[k])
        PROVE  (n \in Elems(open[k]) /\ n \in Nodes) \/ (n = e /\ k = L)
    <3>1. CASE k = L
      BY <1>1, <1>3, <1>4, <2>1, <3>1
    <3>2. CASE k # L
      BY <1>1, <1>3, <2>1, <3>2
    <3>3. QED
      BY <3>1, <3>2
  <2>2. QED
    BY <2>1
<1>7. ASSUME NEW k \in DOMAIN open PROVE Ascending(open[k], lo2, hi2)
  <2>1. \A i \in DOMAIN open[k] : open[k][i] \in Nodes
    BY <1>1, <1>7
  <2>2. Ascending(open[k], lo, hi)
    BY <1>5, <1>7
  <2>3. QED
    BY <1>2, <2>1, <2>2 DEF Ascending
<1>8. ASSUME NEW k \in 1 .. L PROVE Ascending(open'[k], lo2, hi2)
  <2>1. CASE k # L
    BY <1>3, <1>7, <1>8, <2>1
  <2>2. CASE k = L
    <3>1. open[L] \in Seq(Nodes) /\ Ascending(open[L], lo2, hi2)
      BY <1>1, <1>3, <1>7
    <3>2. \A i \in DOMAIN open[L] : hi2[open[L][i]] < lo2[e]
      <4>1. \A n \in Elems(open[L]) : n \in Nodes /\ hi[n] < lo2[e]
        BY <1>1, <1>3
      <4>2. QED
        BY <1>2, <4>1 DEF Elems
    <3>3. Ascending(Append(open[L], e), lo2, hi2)
      BY <3>1, <3>2, AppendAscends
    <3>4. QED
      BY <1>3, <2>2, <3>3
  <2>3. QED
    BY <2>1, <2>2
<1>9. ASSUME NEW j \in 1 .. L, NEW k \in 1 .. L, j < k,
             NEW m \in Elems(open'[j]), NEW n \in Elems(open'[k])
      PROVE  hi2[m] < lo2[n]
  <2>1. j # L
    BY <1>9
  <2>2. m \in Elems(open[j]) /\ m \in Nodes
    BY <1>6, <1>9, <2>1
  <2>3. CASE n = e
    BY <1>2, <2>2, <2>3
  <2>4. CASE n \in Elems(open[k]) /\ n \in Nodes
    <3>1. hi[m] < lo[n]
      BY <1>3, <1>5, <1>9, <2>2, <2>4
    <3>2. QED
      BY <1>2, <2>2, <2>4, <3>1
  <2>5. QED
    BY <1>6, <2>3, <2>4
<1>10. SpanOpen(lo2, hi2)'
  BY <1>3, <1>8, <1>9 DEF SpanOpen
<1>11. SpanFunc(lo2, hi2)'
  <2>1. SUFFICES ASSUME func # NoNode
                 PROVE  /\ \A n \in Elems(kids'[Unit]) : hi2[n] < lo2[func]
                        /\ \A k \in DOMAIN open' : \A n \in Elems(open'[k]) : hi2[func] < lo2[n]
    BY DEF SpanFunc
  <2>2. func \in Nodes /\ Unit \in Nodes
    BY <2>1, Basics
  <2>3. /\ \A n \in Elems(kids[Unit]) : hi[n] < lo[func]
        /\ \A k \in DOMAIN open : \A n \in Elems(open[k]) : hi[func] < lo[n]
    BY <2>1 DEF Spans, SpanFunc
  <2>4. \A n \in Elems(kids'[Unit]) : hi2[n] < lo2[func]
    BY <1>1, <1>2, <2>2, <2>3
  <2>5. ASSUME NEW k \in 1 .. L, NEW n \in Elems(open'[k]) PROVE hi2[func] < lo2[n]
    <3>1. CASE n = e
      BY <1>2, <2>2, <3>1
    <3>2. CASE n \in Elems(open[k]) /\ n \in Nodes
      BY <1>2, <1>3, <2>2, <2>3, <3>2
    <3>3. QED
      BY <1>6, <3>1, <3>2
  <2>6. QED
    BY <1>3, <2>4, <2>5
<1>12. QED
  BY <1>10, <1>11

WidensBy(lo, hi, A, B) ==
  \E lo2, hi2 : /\ Widens(lo, hi, lo2, hi2)
                /\ \A n \in Nodes' : n \notin Nodes => lo2[n] = A[n] /\ hi2[n] = B[n]

LEMMA Widening ==
  ASSUME NEW lo, NEW hi, Spans(lo, hi), Nodes \subseteq Nodes',
         NEW A \in [Nodes' -> Int], NEW B \in [Nodes' -> Int]
  PROVE  WidensBy(lo, hi, A, B)
<1>1. lo \in [Nodes -> Int] /\ hi \in [Nodes -> Int]
  BY DEF Spans
<1>2. PICK M : M = Nodes'
  OBVIOUS
<1>3. PICK lo2 : lo2 = [n \in M |-> IF n \in Nodes THEN lo[n] ELSE A[n]]
  OBVIOUS
<1>4. PICK hi2 : hi2 = [n \in M |-> IF n \in Nodes THEN hi[n] ELSE B[n]]
  OBVIOUS
<1>5. lo2 \in [M -> Int] /\ hi2 \in [M -> Int]
  BY <1>1, <1>2, <1>3, <1>4
<1>6. \A n \in M : n \notin Nodes => lo2[n] = A[n] /\ hi2[n] = B[n]
  BY <1>3, <1>4
<1>7. \A n \in Nodes : lo2[n] = lo[n] /\ hi2[n] = hi[n]
  BY <1>2, <1>3, <1>4
<1>8. QED
  BY <1>2, <1>5, <1>6, <1>7 DEF Widens, WidensBy

LEMMA WideningOne ==
  ASSUME NEW lo, NEW hi, Spans(lo, hi), Nodes \subseteq Nodes', NEW e \in Nodes', e \notin Nodes,
         NEW a \in Int, NEW b \in Int
  PROVE  \E lo2, hi2 : Widens(lo, hi, lo2, hi2) /\ lo2[e] = a /\ hi2[e] = b
<1>1. PICK M : M = Nodes'
  OBVIOUS
<1>2. PICK A : A = [n \in M |-> a]
  OBVIOUS
<1>3. PICK B : B = [n \in M |-> b]
  OBVIOUS
<1>4. A \in [Nodes' -> Int] /\ B \in [Nodes' -> Int] /\ A[e] = a /\ B[e] = b
  BY <1>1, <1>2, <1>3
<1>5. QED
  <2>1. WidensBy(lo, hi, A, B)
    BY <1>4, Widening
  <2>2. QED
    BY <1>4, <2>1 DEF WidensBy

(* A node that has no children yet.                                        *)
LEMMA SpanOfLeaf ==
  ASSUME NEW e, NEW lo, NEW hi, kids'[e] = <<>>, Kind(e)' \in {"use", "param"},
         IdentOf(e)' \in Nat, lo[e] = IdentOf(e)', hi[e] = IdentOf(e)', IdentOf(e)' <= tokens'
  PROVE  SpanAt(e, lo, hi)'
<1>1. Ascending(kids'[e], lo, hi)
  BY DEF Ascending
<1>2. \A c \in Elems(kids'[e]) : FALSE
  BY DEF Elems
<1>3. QED
  BY <1>1, <1>2 DEF SpanAt, IdentOf, Kind

LEMMA UseSpans ==
  ASSUME Tree, Scopes, NEW lo, NEW hi, Spans(lo, hi), NEW name \in Names, Use(name)
  PROVE  \E lo2, hi2 : Spans(lo2, hi2)'
<1>1. PICK u \in Nat : u = Len(nodes) + 1
  BY Basics
<1>2. /\ Nodes' = 1 .. u /\ \A n \in Nodes : Kept(n)
      /\ nodes'[u] = Node("use", name, tokens + 1) /\ kids'[u] = <<>>
  BY <1>1, UseEffect
<1>3. open # <<>> /\ open' = AddItem(u) /\ func' = func /\ tokens' = tokens + 1
  BY <1>1 DEF Use, New
<1>4. Grows
  BY UseTree
<1>5. /\ Nodes = 1 .. Len(nodes) /\ Len(nodes) \in Nat /\ Unit \in Nodes
      /\ func \in Nodes \cup {NoNode}
  BY Basics
<1>6. /\ u \notin Nodes /\ u \in Nodes' /\ Nodes \subseteq Nodes'
      /\ \A n \in Nodes' : n \notin Nodes => n = u
  BY <1>1, <1>2, <1>5
<1>7. Kind(u)' = "use" /\ IdentOf(u)' = tokens + 1
  BY <1>2 DEF Kind, IdentOf, Node
<1>8. /\ \A n \in Nodes : hi[n] \in Int /\ hi[n] <= tokens /\ Elems(kids[n]) \subseteq Nodes
      /\ tokens \in Nat /\ \A k \in DOMAIN open : Elems(open[k]) \subseteq Nodes
  BY SpanFacts
<1>9. PICK lo2, hi2 : Widens(lo, hi, lo2, hi2) /\ lo2[u] = tokens + 1 /\ hi2[u] = tokens + 1
  BY <1>6, <1>8, WideningOne
<1>10. \A n \in Nodes' : SpanAt(n, lo2, hi2)'
  <2>1. ASSUME NEW n \in Nodes PROVE SpanAt(n, lo2, hi2)'
    <3>1. kids'[n] = kids[n]
      BY <1>2 DEF Kept
    <3>2. tokens' >= tokens /\ tokens' \in Nat
      BY <1>3, <1>8
    <3>3. QED
      BY <1>4, <1>9, <3>1, <3>2, SpanKept
  <2>2. SpanAt(u, lo2, hi2)'
    BY <1>2, <1>3, <1>7, <1>8, <1>9, SpanOfLeaf
  <2>3. QED
    BY <1>6, <2>1, <2>2
<1>11. SpanOpen(lo2, hi2)' /\ SpanFunc(lo2, hi2)'
  <2>1. func \in Nodes
    <3>1. func # NoNode
      BY <1>3 DEF Tree, Shape, ShapeFunc
    <3>2. QED
      BY <1>5, <3>1
  <2>2. PICK L \in Nat : L = Len(open)
    BY Basics
  <2>3. ItemLast(u, L)
    BY <1>3, <2>2, AddItemStep DEF ItemLast
  <2>4. \A k \in 1 .. L : \A n \in Elems(open[k]) : hi[n] < lo2[u]
    <3>1. ASSUME NEW k \in 1 .. L, NEW n \in Elems(open[k]) PROVE hi[n] < lo2[u]
      <4>1. n \in Nodes
        BY <1>3, <1>8, <2>2, AddItemStep
      <4>2. QED
        BY <1>8, <1>9, <4>1
    <3>2. QED
      BY <3>1
  <2>5. hi[func] < lo2[u]
    BY <1>8, <1>9, <2>1
  <2>6. \A n \in Nodes' : func \notin Elems(kids'[n])
    <3>1. \A n \in Nodes : func \notin Elems(kids[n])
      BY <2>1, <1>5 DEF Spans, SpanFunc, NoNode, Nodes
    <3>2. func \notin Elems(kids'[u])
      BY <1>2 DEF Elems
    <3>3. QED
      BY <1>2, <1>6, <3>1, <3>2 DEF Kept
  <2>7. kids'[Unit] = kids[Unit]
    BY <1>2, <1>5 DEF Kept
  <2>8. QED
    BY <1>3, <1>6, <1>9, <2>3, <2>4, <2>5, <2>6, <2>7, ItemSpans
<1>12. Spans(lo2, hi2)'
  BY <1>9, <1>10, <1>11 DEF Spans, Widens
<1>13. QED
  BY <1>12

LEMMA OpenBlockSpans ==
  ASSUME Tree, NEW lo, NEW hi, Spans(lo, hi), OpenBlock
  PROVE  Spans(lo, hi)'
<1>1. /\ open' = Append(open, <<>>) /\ open # <<>> /\ func' = func
      /\ UNCHANGED <<nodes, parent, kids, table, tokens>>
  BY DEF OpenBlock, tree
<1>2. open \in Seq(Seq(Nodes)) /\ Len(open) \in Nat /\ DOMAIN open = 1 .. Len(open)
  BY Basics
<1>3. PICK m \in Nat : m = Len(open)
  BY <1>2
<1>4. /\ DOMAIN open' = 1 .. m + 1 /\ \A k \in 1 .. m : open'[k] = open[k]
      /\ open'[m + 1] = <<>>
  <2> DEFINE none == <<>>
             S == Seq(Nodes)
  <2>1. none \in S /\ open \in Seq(S) /\ open' = Append(open, none)
    BY <1>1, <1>2
  <2> HIDE DEF none, S
  <2>2. QED
    BY <1>3, <2>1 DEF none
<1>5. /\ \A k \in DOMAIN open' : Elems(open'[k]) # {} => k \in 1 .. m
      /\ Elems(open'[m + 1]) = {}
  <2>1. Elems(<<>>) = {}
    BY DEF Elems
  <2>2. QED
    BY <1>4, <2>1
<1>6. Nodes' = Nodes /\ \A n : SpanAt(n, lo, hi)' <=> SpanAt(n, lo, hi)
  BY <1>1 DEF Nodes, SpanAt, Kind, IdentOf
<1>7. SpanOpen(lo, hi)'
  <2>1. /\ \A k \in 1 .. m : Ascending(open[k], lo, hi)
        /\ \A j, k \in 1 .. m : j < k =>
             \A x \in Elems(open[j]), y \in Elems(open[k]) : hi[x] < lo[y]
    BY <1>2, <1>3 DEF Spans, SpanOpen
  <2>2. Ascending(<<>>, lo, hi)
    BY DEF Ascending
  <2>3. \A k \in DOMAIN open' : Ascending(open'[k], lo, hi)
    BY <1>4, <2>1, <2>2
  <2>4. ASSUME NEW j \in DOMAIN open', NEW k \in DOMAIN open', j < k,
               NEW x \in Elems(open'[j]), NEW y \in Elems(open'[k])
        PROVE  hi[x] < lo[y]
    <3>1. j \in 1 .. m /\ k \in 1 .. m
      BY <1>5, <2>4
    <3>2. QED
      BY <1>4, <2>1, <2>4, <3>1
  <2>5. QED
    BY <2>3, <2>4 DEF SpanOpen
<1>8. SpanFunc(lo, hi)'
  <2>1. SUFFICES ASSUME func # NoNode
                 PROVE  /\ \A n \in Nodes' : func' \notin Elems(kids'[n])
                        /\ \A n \in Elems(kids'[Unit]) : hi[n] < lo[func']
                        /\ \A k \in DOMAIN open' : \A n \in Elems(open'[k]) : hi[func'] < lo[n]
    BY <1>1 DEF SpanFunc
  <2>2. /\ \A n \in Nodes : func \notin Elems(kids[n])
        /\ \A n \in Elems(kids[Unit]) : hi[n] < lo[func]
        /\ \A k \in 1 .. m : \A n \in Elems(open[k]) : hi[func] < lo[n]
    BY <1>2, <1>3, <2>1 DEF Spans, SpanFunc
  <2>3. ASSUME NEW k \in DOMAIN open', NEW n \in Elems(open'[k]) PROVE hi[func] < lo[n]
    <3>1. k \in 1 .. m
      BY <1>5, <2>3
    <3>2. QED
      BY <1>4, <2>2, <2>3, <3>1
  <2>4. QED
    BY <1>1, <1>6, <2>2, <2>3
<1>9. QED
  BY <1>6, <1>7, <1>8 DEF Spans

(* The unit takes one more declaration.                                    *)
LEMMA UnitSpans ==
  ASSUME Tree, Grows, NEW lo, NEW hi, Spans(lo, hi), NEW lo2, NEW hi2,
         lo2[Unit] = lo[Unit], hi2[Unit] = hi[Unit],
         \A n \in Elems(kids[Unit]) : lo2[n] = lo[n] /\ hi2[n] = hi[n],
         tokens' >= tokens, tokens' \in Nat,
         NEW d, kids'[Unit] = Append(kids[Unit], d),
         \A n \in Elems(kids[Unit]) : hi[n] < lo2[d]
  PROVE  SpanAt(Unit, lo2, hi2)'
<1>1. Unit \in Nodes /\ kids[Unit] \in Seq(Nodes)
  BY Basics
<1>2. /\ lo[Unit] \in Int /\ hi[Unit] \in Int /\ hi[Unit] <= tokens /\ lo[Unit] <= hi[Unit] + 1
      /\ tokens \in Nat
  BY <1>1, SpanFacts
<1>3. Kind(Unit)' = "unit"
  BY <1>1, KindsKept DEF Grows, Tree, Shape
<1>4. PICK s : s = kids[Unit]
  OBVIOUS
<1>5. Ascending(s, lo2, hi2)
  <2>1. Ascending(s, lo, hi)
    BY <1>1, <1>4 DEF Spans, SpanAt
  <2>2. \A i \in DOMAIN s : lo2[s[i]] = lo[s[i]] /\ hi2[s[i]] = hi[s[i]]
    BY <1>4 DEF Elems
  <2>3. QED
    BY <2>1, <2>2 DEF Ascending
<1>6. \A i \in DOMAIN s : hi2[s[i]] < lo2[d]
  BY <1>4 DEF Elems
<1>7. Ascending(Append(s, d), lo2, hi2)
  BY <1>1, <1>4, <1>5, <1>6, AppendAscends
<1>8. Ascending(kids'[Unit], lo2, hi2)
  BY <1>4, <1>7
<1>9. lo2[Unit] <= hi2[Unit] + 1 /\ hi2[Unit] <= tokens'
  BY <1>2
<1>10. QED
  BY <1>3, <1>8, <1>9 DEF SpanAt, Kind

LEMMA VarDefSpans ==
  ASSUME Tree, Scopes, NEW lo, NEW hi, Spans(lo, hi),
         NEW name \in Names, NEW init \in Names \cup {NoUse}, VarDef(name, init)
  PROVE  \E lo2, hi2 : Spans(lo2, hi2)'
<1>1. PICK k \in {0, 1}, d \in Nat : VarDefFacts(name, init, k, d)
  BY VarDefStep
<1>2. PICK N \in Nat : N = Len(nodes) /\ Nodes = 1 .. N
  BY Basics
<1>3. /\ \A n \in Nodes : Stays(n) /\ parent'[n] = parent[n]
      /\ \A n \in Nodes : open # <<>> \/ n # Unit => Kept(n)
      /\ k = 1 => kids'[N + 1] = <<>>
      /\ Len(kids'[d]) = k /\ (k = 0 => Elems(kids'[d]) = {})
      /\ k = 1 => Elems(kids'[d]) = {N + 1}
      /\ open = <<>> => kids'[Unit] = Append(kids[Unit], d)
      /\ TypeOK' /\ Nodes' = 1 .. d
  BY <1>1, <1>2 DEF VarDefFacts, VarDefined
<1>4. /\ d = N + k + 1 /\ d \notin Nodes /\ d \in Nodes'
      /\ \A n \in Nodes' : n \notin Nodes => n = d \/ (k = 1 /\ n = N + 1)
      /\ k = 1 => /\ N + 1 < d /\ N + 1 \notin Nodes /\ N + 1 \in Nodes'
                  /\ nodes'[N + 1].kind = "use" /\ nodes'[N + 1].ident = tokens + 2
      /\ Kind(d)' = "var" /\ IdentOf(d)' = tokens + 1
      /\ func' = func /\ tokens' = tokens + 1 + k
      /\ open # <<>> => open' = AddItem(d)
      /\ open = <<>> => open' = open
  BY <1>1, <1>2 DEF VarDefFacts
<1>5. Grows
  BY VarDefTree
<1>6. /\ Unit \in Nodes /\ func \in Nodes \cup {NoNode} /\ Nodes \subseteq Nodes'
      /\ \A n \in Nodes : n # NoNode
  BY <1>5, Basics DEF Grows, Nodes, NoNode
<1>7. /\ \A n \in Nodes : hi[n] \in Int /\ hi[n] <= tokens /\ Elems(kids[n]) \subseteq Nodes
      /\ tokens \in Nat /\ \A j \in DOMAIN open : Elems(open[j]) \subseteq Nodes
  BY SpanFacts
<1>8. PICK lo2, hi2 : /\ Widens(lo, hi, lo2, hi2)
                      /\ lo2[d] = tokens + 1 /\ hi2[d] = tokens + 1 + k
                      /\ k = 1 => lo2[N + 1] = tokens + 2 /\ hi2[N + 1] = tokens + 2
  <2>1. PICK M : M = Nodes'
    OBVIOUS
  <2>2. PICK A : A = [n \in M |-> IF n = d THEN tokens + 1 ELSE tokens + 2]
    OBVIOUS
  <2>3. PICK B : B = [n \in M |-> IF n = d THEN tokens + 1 + k ELSE tokens + 2]
    OBVIOUS
  <2>4. A \in [M -> Int] /\ B \in [M -> Int]
    BY <1>7, <2>2, <2>3
  <2>5. A[d] = tokens + 1 /\ B[d] = tokens + 1 + k
        /\ (k = 1 => A[N + 1] = tokens + 2 /\ B[N + 1] = tokens + 2)
    BY <1>4, <2>1, <2>2, <2>3
  <2>6. PICK lo2, hi2 : /\ Widens(lo, hi, lo2, hi2)
                        /\ \A n \in Nodes' : n \notin Nodes => lo2[n] = A[n] /\ hi2[n] = B[n]
    <3>1. WidensBy(lo, hi, A, B)
      BY <1>6, <2>1, <2>4, Widening
    <3>2. QED
      BY <3>1 DEF WidensBy
  <2>7. QED
    BY <1>4, <2>5, <2>6
<1>9. tokens' >= tokens /\ tokens' \in Nat
  BY <1>4, <1>7
<1>10. k = 1 => SpanAt(N + 1, lo2, hi2)'
  <2>1. SUFFICES ASSUME k = 1 PROVE SpanAt(N + 1, lo2, hi2)'
    OBVIOUS
  <2>2. Kind(N + 1)' = "use" /\ IdentOf(N + 1)' = tokens + 2 /\ tokens' = tokens + 2
    BY <1>4, <1>7, <2>1 DEF Kind, IdentOf
  <2>3. QED
    BY <1>3, <1>7, <1>8, <2>1, <2>2, SpanOfLeaf
<1>11. SpanAt(d, lo2, hi2)'
  <2>1. PICK s \in Seq(Nodes') : s = kids'[d]
    BY <1>3, <1>4 DEF TypeOK
  <2>2. Len(s) <= 1 /\ Len(s) \in Nat /\ DOMAIN s = 1 .. Len(s)
    BY <1>3, <2>1
  <2>3. Ascending(s, lo2, hi2)
    BY <2>2 DEF Ascending
  <2>4. \A c \in Elems(s) : lo2[d] <= lo2[c] /\ hi2[c] <= hi2[d]
    BY <1>3, <1>7, <1>8, <2>1
  <2>5. lo2[d] <= hi2[d] + 1 /\ hi2[d] <= tokens' /\ lo2[d] <= tokens + 1 /\ tokens + 1 <= hi2[d]
    BY <1>4, <1>7, <1>8
  <2>6. QED
    BY <1>4, <2>1, <2>3, <2>4, <2>5 DEF SpanAt, Kind, IdentOf
<1>12. ASSUME NEW n \in Nodes, open # <<>> \/ n # Unit PROVE SpanAt(n, lo2, hi2)'
  <2>1. kids'[n] = kids[n]
    BY <1>3, <1>12 DEF Kept
  <2>2. QED
    BY <1>5, <1>8, <1>9, <2>1, SpanKept
<1>13. CASE open # <<>>
  <2>1. \A n \in Nodes' : SpanAt(n, lo2, hi2)'
    BY <1>4, <1>10, <1>11, <1>12, <1>13
  <2>2. func \in Nodes
    <3>1. func # NoNode
      BY <1>13 DEF Tree, Shape, ShapeFunc
    <3>2. QED
      BY <1>6, <3>1
  <2>3. PICK L \in Nat : L = Len(open)
    BY Basics
  <2>4. open' = AddItem(d)
    BY <1>4, <1>13
  <2>5. ItemLast(d, L) /\ DOMAIN open = 1 .. L
    BY <1>13, <2>3, <2>4, AddItemStep DEF ItemLast
  <2>6. \A j \in 1 .. L : \A n \in Elems(open[j]) : hi[n] < lo2[d]
    <3>1. ASSUME NEW j \in 1 .. L, NEW n \in Elems(open[j]) PROVE hi[n] < lo2[d]
      <4>1. n \in Nodes
        BY <1>7, <2>5
      <4>2. QED
        BY <1>7, <1>8, <4>1
    <3>2. QED
      BY <3>1
  <2>7. hi[func] < lo2[d]
    BY <1>7, <1>8, <2>2
  <2>8. \A n \in Nodes' : func \notin Elems(kids'[n])
    <3>1. \A n \in Nodes : func \notin Elems(kids'[n])
      BY <1>3, <1>6, <1>13, <2>2 DEF Spans, SpanFunc, Kept
    <3>2. func \notin Elems(kids'[d])
      BY <1>3, <1>4, <2>2
    <3>3. k = 1 => func \notin Elems(kids'[N + 1])
      BY <1>3 DEF Elems
    <3>4. QED
      BY <1>4, <3>1, <3>2, <3>3
  <2>9. kids'[Unit] = kids[Unit]
    BY <1>3, <1>6, <1>13 DEF Kept
  <2>10. SpanOpen(lo2, hi2)' /\ SpanFunc(lo2, hi2)'
    BY <1>4, <1>6, <1>8, <2>5, <2>6, <2>7, <2>8, <2>9, ItemSpans
  <2>11. Spans(lo2, hi2)'
    BY <1>8, <2>1, <2>10 DEF Spans, Widens
  <2>12. QED
    BY <2>11
<1>14. CASE open = <<>>
  <2>1. SpanAt(Unit, lo2, hi2)'
    <3>1. lo2[Unit] = lo[Unit] /\ hi2[Unit] = hi[Unit]
      BY <1>6, <1>8 DEF Widens
    <3>2. \A n \in Elems(kids[Unit]) : lo2[n] = lo[n] /\ hi2[n] = hi[n] /\ hi[n] < lo2[d]
      BY <1>6, <1>7, <1>8 DEF Widens
    <3>3. kids'[Unit] = Append(kids[Unit], d)
      BY <1>3, <1>14
    <3>4. QED
      BY <1>5, <1>9, <3>1, <3>2, <3>3, UnitSpans
  <2>2. \A n \in Nodes' : SpanAt(n, lo2, hi2)'
    BY <1>4, <1>10, <1>11, <1>12, <2>1
  <2>3. DOMAIN open' = {} /\ func' = NoNode
    BY <1>4, <1>14 DEF Tree, Shape, ShapeFunc
  <2>4. SpanOpen(lo2, hi2)' /\ SpanFunc(lo2, hi2)'
    BY <2>3 DEF SpanOpen, SpanFunc
  <2>5. Spans(lo2, hi2)'
    BY <1>8, <2>2, <2>4 DEF Spans, Widens
  <2>6. QED
    BY <2>5
<1>15. QED
  BY <1>13, <1>14

LEMMA FuncHeadSpans ==
  ASSUME Tree, Scopes, NEW lo, NEW hi, Spans(lo, hi),
         NEW name \in Names, NEW params \in Seq(Names), FuncHead(name, params), Distinct(params)
  PROVE  \E lo2, hi2 : Spans(lo2, hi2)'
<1>1. PICK k \in Nat, f \in Nat : FuncHeadFacts(name, params, k, f)
  BY FuncHeadStep
<1>2. PICK N \in Nat : N = Len(nodes) /\ Nodes = 1 .. N
  BY Basics
<1>3. /\ \A n \in Nodes : Kept(n)
      /\ \A i \in 1 .. k : kids'[N + i] = <<>>
      /\ Len(kids'[f]) = k /\ \A i \in 1 .. k : kids'[f][i] = N + i
      /\ TypeOK' /\ Nodes' = 1 .. f
  BY <1>1, <1>2 DEF FuncHeadFacts, FuncOpened
<1>4. /\ f = N + k + 1 /\ f \notin Nodes /\ f \in Nodes'
      /\ \A n \in Nodes' : n \notin Nodes => n = f \/ \E i \in 1 .. k : n = N + i
      /\ \A i \in 1 .. k : /\ N + i \in Nodes' /\ N + i \notin Nodes /\ N + i # f
                           /\ nodes'[N + i].kind = "param" /\ nodes'[N + i].ident = tokens + 1 + i
      /\ Kind(f)' = "func" /\ IdentOf(f)' = tokens + 1
      /\ \A n \in Elems(kids'[f]) : \E i \in 1 .. k : n = N + i
      /\ func' = f /\ tokens' = tokens + 1 + k
      /\ DOMAIN open' = {1} /\ Elems(open'[1]) = {} /\ open'[1] = <<>>
  BY <1>1, <1>2 DEF FuncHeadFacts
<1>5. Grows
  BY FuncHeadTree
<1>6. Unit \in Nodes /\ Nodes \subseteq Nodes' /\ f # NoNode /\ f # Unit
  BY SMTT(30), <1>2, <1>4, <1>5, Basics DEF Grows, NoNode
<1>7. /\ \A n \in Nodes : hi[n] \in Int /\ hi[n] <= tokens /\ Elems(kids[n]) \subseteq Nodes
      /\ tokens \in Nat
  BY SpanFacts
<1>8. PICK lo2, hi2 : /\ Widens(lo, hi, lo2, hi2)
                      /\ lo2[f] = tokens + 1 /\ hi2[f] = tokens + 1 + k
                      /\ \A i \in 1 .. k : lo2[N + i] = tokens + 1 + i /\ hi2[N + i] = tokens + 1 + i
  <2>1. PICK M : M = Nodes' /\ M = 1 .. f
    BY <1>3
  <2>2. PICK A : A = [n \in M |-> IF n = f THEN tokens + 1 ELSE tokens + 1 + (n - N)]
    OBVIOUS
  <2>3. PICK B : B = [n \in M |-> IF n = f THEN tokens + 1 + k ELSE tokens + 1 + (n - N)]
    OBVIOUS
  <2>4. A \in [M -> Int] /\ B \in [M -> Int]
    BY <1>7, <2>1, <2>2, <2>3
  <2>5. A[f] = tokens + 1 /\ B[f] = tokens + 1 + k
    BY <1>4, <2>1, <2>2, <2>3
  <2>6. \A i \in 1 .. k : A[N + i] = tokens + 1 + i /\ B[N + i] = tokens + 1 + i
    <3>1. ASSUME NEW i \in 1 .. k PROVE A[N + i] = tokens + 1 + i /\ B[N + i] = tokens + 1 + i
      <4>1. N + i \in M /\ N + i # f
        BY <1>4, <2>1
      <4>2. A[N + i] = tokens + 1 + ((N + i) - N) /\ B[N + i] = tokens + 1 + ((N + i) - N)
        BY <2>2, <2>3, <4>1
      <4>3. QED
        BY <4>2
    <3>2. QED
      BY <3>1
  <2>7. PICK lo2, hi2 : /\ Widens(lo, hi, lo2, hi2)
                        /\ \A n \in Nodes' : n \notin Nodes => lo2[n] = A[n] /\ hi2[n] = B[n]
    <3>1. A \in [Nodes' -> Int] /\ B \in [Nodes' -> Int]
      BY <2>1, <2>4
    <3>2. Nodes \subseteq Nodes'
      BY <1>6
    <3>3. WidensBy(lo, hi, A, B)
      BY <3>1, <3>2, Widening
    <3>4. QED
      BY <3>3 DEF WidensBy
  <2>8. QED
    BY <1>4, <2>5, <2>6, <2>7
<1>9. tokens' >= tokens /\ tokens' \in Nat
  BY <1>4, <1>7
<1>10. ASSUME NEW n \in Nodes PROVE SpanAt(n, lo2, hi2)'
  <2>1. kids'[n] = kids[n]
    BY <1>3, <1>10 DEF Kept
  <2>2. QED
    BY <1>5, <1>8, <1>9, <2>1, SpanKept
<1>11. ASSUME NEW i \in 1 .. k PROVE SpanAt(N + i, lo2, hi2)'
  <2>1. Kind(N + i)' = "param" /\ IdentOf(N + i)' = tokens + 1 + i /\ kids'[N + i] = <<>>
    BY <1>3, <1>4 DEF Kind, IdentOf
  <2>2. tokens + 1 + i \in Nat /\ tokens + 1 + i <= tokens'
    BY <1>4, <1>7
  <2>3. QED
    BY <1>8, <2>1, <2>2, SpanOfLeaf
<1>12. SpanAt(f, lo2, hi2)'
  <2>1. PICK s \in Seq(Nodes') : s = kids'[f]
    BY <1>3, <1>4 DEF TypeOK
  <2>2. DOMAIN s = 1 .. k /\ \A i \in 1 .. k : s[i] = N + i
    BY <1>3, <2>1
  <2>3. Ascending(s, lo2, hi2)
    <3>1. SUFFICES ASSUME NEW i \in 1 .. k, NEW j \in 1 .. k, i < j
                   PROVE  hi2[s[i]] < lo2[s[j]]
      BY <2>2 DEF Ascending
    <3>2. hi2[s[i]] = tokens + 1 + i /\ lo2[s[j]] = tokens + 1 + j
      BY <1>8, <2>2
    <3>3. QED
      BY <1>7, <3>1, <3>2
  <2>4. ASSUME NEW c \in Elems(s) PROVE lo2[f] <= lo2[c] /\ hi2[c] <= hi2[f]
    <3>1. PICK i \in 1 .. k : c = N + i
      BY <1>4, <2>1
    <3>2. lo2[c] = tokens + 1 + i /\ hi2[c] = tokens + 1 + i
      BY <1>8, <3>1
    <3>3. QED
      BY <1>7, <1>8, <3>2
  <2>5. lo2[f] <= hi2[f] + 1 /\ hi2[f] <= tokens'
    BY <1>4, <1>7, <1>8
  <2>6. QED
    BY <1>4, <2>1, <2>3, <2>4, <2>5 DEF SpanAt, Kind
<1>13. \A n \in Nodes' : SpanAt(n, lo2, hi2)'
  BY <1>4, <1>10, <1>11, <1>12
<1>14. SpanOpen(lo2, hi2)'
  <2>1. Ascending(<<>>, lo2, hi2)
    BY DEF Ascending
  <2>2. \A j \in {1}, i \in {1} : ~(j < i)
    OBVIOUS
  <2>3. QED
    BY <1>4, <2>1, <2>2 DEF SpanOpen
<1>15. SpanFunc(lo2, hi2)'
  <2>1. \A n \in Nodes' : f \notin Elems(kids'[n])
    <3>1. \A n \in Nodes : f \notin Elems(kids'[n])
      BY <1>3, <1>4, <1>7 DEF Kept
    <3>2. f \notin Elems(kids'[f])
      BY <1>4
    <3>3. \A i \in 1 .. k : f \notin Elems(kids'[N + i])
      BY <1>3 DEF Elems
    <3>4. QED
      BY <1>4, <3>1, <3>2, <3>3
  <2>2. \A n \in Elems(kids'[Unit]) : hi2[n] < lo2[f]
    <3>1. kids'[Unit] = kids[Unit] /\ Elems(kids[Unit]) \subseteq Nodes
      BY <1>3, <1>6, <1>7 DEF Kept
    <3>2. \A n \in Nodes : hi2[n] < lo2[f]
      BY <1>7, <1>8 DEF Widens
    <3>3. QED
      BY <3>1, <3>2
  <2>3. \A j \in DOMAIN open' : Elems(open'[j]) = {}
    BY <1>4
  <2>4. QED
    BY <1>4, <2>1, <2>2, <2>3 DEF SpanFunc
<1>16. Spans(lo2, hi2)'
  BY <1>8, <1>13, <1>14, <1>15 DEF Spans, Widens
<1>17. QED
  BY <1>16

LEMMA CloseBlockSpans ==
  ASSUME Tree, Scopes, NEW lo, NEW hi, Spans(lo, hi), CloseBlock
  PROVE  \E lo2, hi2 : Spans(lo2, hi2)'
<1>1. PICK b \in Nat : b = Len(nodes) + 1
  BY Basics
<1>2. BlockClosed(b)
  BY <1>1, CloseBlockEffect
<1>3. PICK m \in Nat : m = Len(open) /\ DOMAIN open = 1 .. m
  BY Basics
<1>4. PICK s : s = open[m]
  OBVIOUS
<1>5. /\ Nodes' = 1 .. b /\ \A n \in Nodes : kids'[n] = kids[n]
      /\ nodes'[b] = Node("block", Builtin, 0) /\ kids'[b] = s
      /\ m > 1 /\ Len(open') = m - 1 /\ TypeOK'
      /\ \A k \in 1 .. m - 2 : open'[k] = open[k]
      /\ open'[m - 1] = Append(open[m - 1], b)
  BY <1>2, <1>3, <1>4, Zenon DEF BlockClosed
<1>6. func' = func /\ tokens' = tokens
  BY DEF CloseBlock
<1>7. Grows
  BY CloseBlockTree
<1>8. /\ Nodes = 1 .. Len(nodes) /\ Unit \in Nodes /\ func \in Nodes \cup {NoNode}
  BY Basics
<1>9. /\ b \notin Nodes /\ b \in Nodes' /\ Nodes \subseteq Nodes'
      /\ \A n \in Nodes' : n \notin Nodes => n = b
  BY <1>1, <1>5, <1>8
<1>10. /\ \A n \in Nodes : lo[n] \in Int /\ hi[n] \in Int /\ hi[n] <= tokens /\ lo[n] <= hi[n] + 1
       /\ \A n \in Nodes : Elems(kids[n]) \subseteq Nodes
       /\ tokens \in Nat /\ \A k \in DOMAIN open : Elems(open[k]) \subseteq Nodes
  BY SpanFacts
<1>11. func \in Nodes /\ func # NoNode
  <2>1. open # <<>>
    <3>1. DOMAIN <<>> = {} /\ m \in DOMAIN open
      BY <1>3, <1>5
    <3>2. QED
      BY <3>1
  <2>2. QED
    BY <1>8, <2>1 DEF Tree, Shape, ShapeFunc
<1>12. m \in DOMAIN open /\ s \in Seq(Nodes) /\ Elems(s) \subseteq Nodes /\ func \notin Elems(s)
       /\ Len(s) \in Nat /\ DOMAIN s = 1 .. Len(s)
  <2>1. m \in DOMAIN open
    BY <1>3, <1>5
  <2>2. QED
    BY <1>4, <2>1, ItemFacts
<1>13. /\ \A i, j \in DOMAIN s : i < j => hi[s[i]] < lo[s[j]]
       /\ \A k \in 1 .. m - 1 : \A x \in Elems(open[k]), y \in Elems(s) : hi[x] < lo[y]
       /\ \A y \in Elems(s) : hi[func] < lo[y]
  <2>1. Ascending(s, lo, hi)
    BY <1>4, <1>12 DEF Spans, SpanOpen
  <2>2. \A k \in 1 .. m - 1 : k \in DOMAIN open /\ k < m
    BY <1>3
  <2>3. \A k \in 1 .. m - 1 : \A x \in Elems(open[k]), y \in Elems(s) : hi[x] < lo[y]
    BY <1>4, <1>12, <2>2 DEF Spans, SpanOpen
  <2>4. \A y \in Elems(s) : hi[func] < lo[y]
    BY <1>4, <1>11, <1>12 DEF Spans, SpanFunc
  <2>5. QED
    BY <2>1, <2>3, <2>4 DEF Ascending
<1>14. \A i \in DOMAIN s : s[i] \in Elems(s) /\ s[i] \in Nodes
  BY <1>12 DEF Elems
<1>15. PICK a \in Int : /\ a <= tokens + 1 /\ \A c \in Elems(s) : a <= lo[c]
                        /\ \A k \in 1 .. m - 1 : \A x \in Elems(open[k]) : hi[x] < a
                        /\ hi[func] < a
  <2>1. CASE s = <<>>
    <3>1. Elems(s) = {}
      BY <2>1 DEF Elems
    <3>2. tokens + 1 \in Int /\ hi[func] < tokens + 1
      BY <1>10, <1>11
    <3>3. \A k \in 1 .. m - 1 : \A x \in Elems(open[k]) : hi[x] < tokens + 1
      <4>1. ASSUME NEW k \in 1 .. m - 1, NEW x \in Elems(open[k]) PROVE hi[x] < tokens + 1
        <5>1. x \in Nodes
          BY <1>3, <1>10
        <5>2. QED
          BY <1>10, <5>1
      <4>2. QED
        BY <4>1
    <3>4. QED
      BY <3>1, <3>2, <3>3
  <2>2. CASE s # <<>>
    <3>1. 1 \in DOMAIN s
      BY <1>12, <2>2
    <3>2. PICK e \in Nodes : e = s[1] /\ e \in Elems(s)
      BY <1>14, <3>1
    <3>3. lo[e] \in Int /\ lo[e] <= tokens + 1
      BY <1>10
    <3>4. ASSUME NEW i \in DOMAIN s PROVE lo[e] <= lo[s[i]]
      <4>1. CASE i = 1
        BY <3>2, <3>3, <4>1
      <4>2. CASE i # 1
        <5>1. 1 < i
          BY <1>12, <4>2
        <5>2. hi[e] < lo[s[i]]
          BY <1>13, <3>1, <3>2, <5>1
        <5>3. lo[e] <= hi[e] + 1 /\ hi[e] \in Int /\ lo[s[i]] \in Int
          BY <1>10, <1>14
        <5>4. QED
          BY <3>3, <5>2, <5>3
      <4>3. QED
        BY <4>1, <4>2
    <3>5. \A c \in Elems(s) : lo[e] <= lo[c]
      BY <3>4 DEF Elems
    <3>6. QED
      BY <1>13, <3>2, <3>3, <3>5
  <2>3. QED
    BY <2>1, <2>2
<1>16. PICK lo2, hi2 : Widens(lo, hi, lo2, hi2) /\ lo2[b] = a /\ hi2[b] = tokens
  <2>1. tokens \in Int
    BY <1>10
  <2>2. QED
    BY <1>9, <2>1, WideningOne
<1>17. \A n \in Nodes : lo2[n] = lo[n] /\ hi2[n] = hi[n]
  BY <1>16 DEF Widens
<1>18. ASSUME NEW n \in Nodes PROVE SpanAt(n, lo2, hi2)'
  <2>1. kids'[n] = kids[n] /\ tokens' >= tokens /\ tokens' \in Nat
    BY <1>5, <1>6, <1>10
  <2>2. QED
    BY <1>7, <1>16, <2>1, SpanKept
<1>19. SpanAt(b, lo2, hi2)'
  <2>1. Kind(b)' = "block"
    BY <1>5 DEF Kind, Node
  <2>2. Ascending(s, lo2, hi2)
    BY <1>13, <1>14, <1>17 DEF Ascending
  <2>3. \A c \in Elems(s) : lo2[b] <= lo2[c] /\ hi2[c] <= hi2[b]
    BY <1>10, <1>12, <1>15, <1>16, <1>17
  <2>4. lo2[b] <= hi2[b] + 1 /\ hi2[b] <= tokens'
    BY <1>6, <1>10, <1>15, <1>16
  <2>5. QED
    BY <1>5, <2>1, <2>2, <2>3, <2>4 DEF SpanAt, Kind
<1>20. SpanOpen(lo2, hi2)' /\ SpanFunc(lo2, hi2)'
  <2>1. PICK L \in Nat : L = m - 1
    BY <1>5
  <2>2. ItemLast(b, L)
    <3>1. DOMAIN open' = 1 .. L
      BY <1>5, <2>1 DEF TypeOK, Frames
    <3>2. \A k \in 1 .. L : k # L => k \in 1 .. m - 2
      BY <2>1
    <3>3. L \in DOMAIN open
      BY <1>3, <1>5, <2>1
    <3>4. QED
      BY <1>5, <2>1, <3>1, <3>2, <3>3 DEF ItemLast
  <2>3. \A k \in 1 .. L : \A n \in Elems(open[k]) : hi[n] < lo2[b]
    BY <1>15, <1>16, <2>1
  <2>4. hi[func] < lo2[b]
    BY <1>15, <1>16
  <2>5. \A n \in Nodes' : func \notin Elems(kids'[n])
    <3>1. \A n \in Nodes : func \notin Elems(kids[n])
      BY <1>11 DEF Spans, SpanFunc
    <3>2. QED
      BY <1>5, <1>9, <1>12, <3>1
  <2>6. kids'[Unit] = kids[Unit]
    BY <1>5, <1>8
  <2>7. QED
    BY <1>6, <1>9, <1>16, <2>2, <2>3, <2>4, <2>5, <2>6, ItemSpans
<1>21. Spans(lo2, hi2)'
  BY <1>9, <1>16, <1>18, <1>19, <1>20 DEF Spans, Widens
<1>22. QED
  BY <1>21

LEMMA CloseBodySpans ==
  ASSUME Tree, Scopes, NEW lo, NEW hi, Spans(lo, hi), CloseBody
  PROVE  \E lo2, hi2 : Spans(lo2, hi2)'
<1>1. PICK b \in Nat : b = Len(nodes) + 1
  BY Basics
<1>2. BodyClosed(b)
  BY <1>1, CloseBodyEffect
<1>3. PICK f \in Nodes : f = func /\ f # Unit /\ f # NoNode
  BY <1>2 DEF BodyClosed
<1>4. PICK s : s = open[1]
  OBVIOUS
<1>5. /\ Nodes' = 1 .. b /\ Len(open) = 1 /\ kids'[b] = s
      /\ \A n \in Nodes : n # Unit /\ n # f => kids'[n] = kids[n]
      /\ kids'[f] = Append(kids[f], b) /\ kids'[Unit] = Append(kids[Unit], f)
      /\ Elems(kids'[f]) = Elems(kids[f]) \cup {b}
      /\ nodes'[b] = Node("block", Builtin, 0)
      /\ open' = <<>> /\ func' = NoNode
  BY <1>2, <1>3, <1>4, Zenon DEF BodyClosed
<1>6. tokens' = tokens
  BY DEF CloseBody
<1>7. Grows
  BY CloseBodyTree
<1>8. Nodes = 1 .. Len(nodes) /\ Unit \in Nodes
  BY Basics
<1>9. /\ b \notin Nodes /\ b \in Nodes' /\ Nodes \subseteq Nodes'
      /\ \A n \in Nodes' : n \notin Nodes => n = b
  BY <1>1, <1>5, <1>8
<1>10. /\ \A n \in Nodes : lo[n] \in Int /\ hi[n] \in Int /\ hi[n] <= tokens /\ lo[n] <= hi[n] + 1
       /\ \A n \in Nodes : Elems(kids[n]) \subseteq Nodes
       /\ tokens \in Nat
  BY SpanFacts
<1>11. 1 \in DOMAIN open
  BY <1>5, Basics
<1>12. /\ s \in Seq(Nodes) /\ Elems(s) \subseteq Nodes /\ f \notin Elems(s)
       /\ \A i \in DOMAIN s : s[i] \in Elems(s)
  BY <1>3, <1>4, <1>11, ItemFacts DEF Elems
<1>13. /\ \A n \in Nodes : f \notin Elems(kids[n])
       /\ \A n \in Elems(kids[Unit]) : hi[n] < lo[f]
       /\ \A n \in Elems(s) : hi[f] < lo[n]
  BY <1>3, <1>4, <1>11 DEF Spans, SpanFunc
<1>14. PICK lo2, h : Widens(lo, hi, lo2, h) /\ lo2[b] = hi[f] + 1 /\ h[b] = tokens
  <2>1. hi[f] + 1 \in Int /\ tokens \in Int
    BY <1>3, <1>10
  <2>2. QED
    BY <1>9, <2>1, WideningOne
<1>15. PICK M : M = Nodes'
  OBVIOUS
<1>16. PICK hi2 : hi2 = [n \in M |-> IF n = f THEN tokens ELSE h[n]]
  OBVIOUS
<1>17. /\ lo2 \in [M -> Int] /\ hi2 \in [M -> Int]
       /\ \A n \in Nodes : lo2[n] = lo[n] /\ h[n] = hi[n]
       /\ \A n \in M : n # f => hi2[n] = h[n]
       /\ hi2[f] = tokens
  BY <1>3, <1>9, <1>10, <1>14, <1>15, <1>16 DEF Widens
<1>18. /\ \A n \in Nodes : n # f => lo2[n] = lo[n] /\ hi2[n] = hi[n]
       /\ hi2[b] = tokens /\ b # f
  BY <1>9, <1>14, <1>15, <1>17
<1>19. tokens' >= tokens /\ tokens' \in Nat
  BY <1>6, <1>10
<1>20. ASSUME NEW n \in Nodes, n # Unit, n # f PROVE SpanAt(n, lo2, hi2)'
  <2>1. kids'[n] = kids[n]
    BY <1>5, <1>20
  <2>2. SpanAt(n, lo2, h)'
    BY <1>7, <1>14, <1>19, <2>1, SpanKept
  <2>3. PICK c : c = kids'[n] /\ c = kids[n]
    BY <2>1
  <2>4. \A x \in Elems(c) : hi2[x] = h[x]
    <3>1. \A x \in Elems(c) : x \in Nodes /\ x # f
      BY <1>10, <1>13, <2>3
    <3>2. QED
      BY <1>17, <1>18, <3>1
  <2>5. hi2[n] = h[n]
    BY <1>17, <1>18, <1>20
  <2>6. Ascending(c, lo2, hi2)
    <3>1. Ascending(c, lo2, h)
      BY <2>2, <2>3 DEF SpanAt
    <3>2. \A i \in DOMAIN c : hi2[c[i]] = h[c[i]]
      BY <2>4 DEF Elems
    <3>3. QED
      BY <3>1, <3>2 DEF Ascending
  <2>7. \A x \in Elems(c) : lo2[n] <= lo2[x] /\ hi2[x] <= hi2[n]
    BY <1>20, <2>2, <2>3, <2>4, <2>5 DEF SpanAt
  <2>8. /\ lo2[n] <= hi2[n] + 1 /\ hi2[n] <= tokens'
        /\ Kind(n)' \in {"var", "use"} => lo2[n] <= IdentOf(n)' /\ IdentOf(n)' <= hi2[n]
        /\ Kind(n)' = "use" => lo2[n] = hi2[n]
    BY <2>2, <2>5 DEF SpanAt, Kind, IdentOf
  <2>9. QED
    BY <2>3, <2>6, <2>7, <2>8 DEF SpanAt, Kind, IdentOf
<1>21. SpanAt(f, lo2, hi2)'
  <2>1. Kind(f)' = "func"
    <3>1. Kind(f) = "func"
      BY <1>3 DEF Tree, Shape, ShapeFunc
    <3>2. QED
      BY <3>1, <1>7, KindsKept DEF Grows
  <2>2. PICK c \in Seq(Nodes) : c = kids[f]
    BY <1>3, Basics
  <2>3. \A x \in Elems(c) : x \in Nodes /\ x # f /\ lo[f] <= lo[x] /\ hi[x] <= hi[f]
    BY <1>3, <1>10, <1>13, <2>2 DEF Spans, SpanAt
  <2>4. \A i \in DOMAIN c : c[i] \in Elems(c)
    BY DEF Elems
  <2>5. Ascending(c, lo2, hi2)
    <3>1. Ascending(c, lo, hi)
      BY <2>2 DEF Spans, SpanAt
    <3>2. \A i \in DOMAIN c : lo2[c[i]] = lo[c[i]] /\ hi2[c[i]] = hi[c[i]]
      BY <1>18, <2>3, <2>4
    <3>3. QED
      BY <3>1, <3>2 DEF Ascending
  <2>6. \A i \in DOMAIN c : hi2[c[i]] < lo2[b]
    <3>1. ASSUME NEW i \in DOMAIN c PROVE hi2[c[i]] < lo2[b]
      <4>1. PICK x \in Nodes : x = c[i] /\ x # f /\ hi[x] <= hi[f]
        BY <2>3, <2>4
      <4>2. hi2[x] = hi[x] /\ hi[x] \in Int /\ hi[f] \in Int
        BY <1>10, <1>18, <4>1
      <4>3. QED
        BY <1>14, <4>1, <4>2
    <3>2. QED
      BY <3>1
  <2>7. Ascending(kids'[f], lo2, hi2)
    BY <1>5, <2>2, <2>5, <2>6, AppendAscends
  <2>8. ASSUME NEW x \in Elems(kids'[f]) PROVE lo2[f] <= lo2[x] /\ hi2[x] <= hi2[f]
    <3>1. lo2[f] = lo[f] /\ hi2[f] = tokens /\ lo[f] \in Int /\ lo[f] <= hi[f] + 1
      BY <1>10, <1>17
    <3>2. CASE x = b
      BY <1>10, <1>14, <1>18, <3>1, <3>2
    <3>3. CASE x \in Elems(c)
      <4>1. x \in Nodes /\ x # f /\ lo[f] <= lo[x]
        BY <2>3, <3>3
      <4>2. lo2[x] = lo[x] /\ hi2[x] = hi[x] /\ hi[x] <= tokens
        BY <1>10, <1>18, <4>1
      <4>3. QED
        BY <3>1, <4>1, <4>2
    <3>4. QED
      BY <1>5, <2>2, <2>8, <3>2, <3>3
  <2>9. lo2[f] <= hi2[f] + 1 /\ hi2[f] <= tokens'
    <3>1. lo2[f] = lo[f] /\ hi2[f] = tokens /\ lo[f] \in Int /\ lo[f] <= hi[f] + 1
          /\ hi[f] \in Int /\ hi[f] <= tokens
      BY <1>10, <1>17
    <3>2. QED
      BY <1>6, <1>10, <3>1
  <2>10. QED
    BY <2>1, <2>7, <2>8, <2>9 DEF SpanAt, Kind
<1>22. SpanAt(Unit, lo2, hi2)'
  <2>1. lo2[Unit] = lo[Unit] /\ hi2[Unit] = hi[Unit]
    BY <1>3, <1>8, <1>18
  <2>2. \A n \in Elems(kids[Unit]) : n \in Nodes /\ n # f
    BY <1>8, <1>10, <1>13
  <2>3. \A n \in Elems(kids[Unit]) : lo2[n] = lo[n] /\ hi2[n] = hi[n] /\ hi[n] < lo2[f]
    BY <1>13, <1>17, <1>18, <2>2
  <2>4. kids'[Unit] = Append(kids[Unit], f)
    BY <1>5
  <2>5. QED
    BY <1>7, <1>19, <2>1, <2>3, <2>4, UnitSpans
<1>23. SpanAt(b, lo2, hi2)'
  <2>1. Kind(b)' = "block"
    BY <1>5 DEF Kind, Node
  <2>2. \A x \in Elems(s) : x \in Nodes /\ lo2[x] = lo[x] /\ hi2[x] = hi[x] /\ hi[f] < lo[x]
    BY <1>12, <1>13, <1>18
  <2>3. Ascending(s, lo2, hi2)
    <3>1. Ascending(s, lo, hi)
      BY <1>4, <1>11 DEF Spans, SpanOpen
    <3>2. QED
      BY <1>12, <2>2, <3>1 DEF Ascending
  <2>4. ASSUME NEW x \in Elems(s) PROVE lo2[b] <= lo2[x] /\ hi2[x] <= hi2[b]
    <3>1. x \in Nodes /\ lo2[x] = lo[x] /\ hi2[x] = hi[x] /\ hi[f] < lo[x]
      BY <2>2
    <3>2. lo[x] \in Int /\ hi[f] \in Int /\ hi[x] <= tokens
      BY <1>10, <3>1
    <3>3. QED
      BY <1>14, <1>18, <3>1, <3>2
  <2>5. lo2[b] <= hi2[b] + 1 /\ hi2[b] <= tokens'
    BY <1>3, <1>6, <1>10, <1>14, <1>18
  <2>6. QED
    BY <1>5, <2>1, <2>3, <2>4, <2>5 DEF SpanAt, Kind
<1>24. \A n \in Nodes' : SpanAt(n, lo2, hi2)'
  BY <1>9, <1>20, <1>21, <1>22, <1>23
<1>25. SpanOpen(lo2, hi2)' /\ SpanFunc(lo2, hi2)'
  BY <1>5 DEF SpanOpen, SpanFunc
<1>26. Spans(lo2, hi2)'
  BY <1>15, <1>17, <1>24, <1>25 DEF Spans
<1>27. QED
  BY <1>26

-----------------------------------------------------------------------------
(* The searches to come, while the parser goes on.                         *)

(* What u finds in a table whose entry t has become t2: a declaration read *)
(* after u changes nothing.                                                *)
SameEntry(u, t, t2) == t2 = t \/ (t = NoNode /\ nodes[u].ident <= nodes'[t2].ident)
SeenThen(u, t2) == t2 # NoNode /\ nodes'[u].ident > nodes'[t2].ident

EntriesTyped ==
  /\ \A n \in Nodes : nodes[n].ident \in Int
  /\ \A n \in Nodes, x \in Names : table[n][x] \in Nodes \cup {NoNode}
  /\ \A i \in 1 .. Len(env), x \in Names : env[i][x] \in Nodes \cup {NoNode}

LEMMA EntryTypes ==
  Tree => EntriesTyped
<1> SUFFICES ASSUME Tree PROVE EntriesTyped
  OBVIOUS
<1>1. \A n \in Nodes : nodes[n].ident \in Int
  BY Basics DEF NodeSet
<1>2. \A n \in Nodes, x \in Names : table[n][x] \in Nodes \cup {NoNode}
  BY Basics
<1>3. \A i \in 1 .. Len(env), x \in Names : env[i][x] \in Nodes \cup {NoNode}
  BY Basics
<1>4. QED
  BY <1>1, <1>2, <1>3 DEF EntriesTyped

LEMMA EntryTypesThen ==
  ASSUME Tree'
  PROVE  /\ \A n \in Nodes' : nodes'[n].ident \in Int
         /\ \A n \in Nodes', x \in Names : table'[n][x] \in Nodes' \cup {NoNode}
         /\ \A i \in 1 .. Len(env'), x \in Names : env'[i][x] \in Nodes' \cup {NoNode}
<1>1. (Tree => EntriesTyped)'
  BY EntryTypes, PTL
<1>2. QED
  BY <1>1 DEF EntriesTyped

LEMMA EntryKept ==
  ASSUME Tree, Tree', Grows, NEW u \in Uses, NEW t \in Nodes \cup {NoNode},
         NEW t2 \in Nodes' \cup {NoNode}, SameEntry(u, t, t2)
  PROVE  /\ SeenThen(u, t2) <=> Visible(u, t)
         /\ Visible(u, t) => t2 = t
<1>1. u \in Nodes /\ nodes'[u] = nodes[u]
  BY DEF Uses, Grows, Stays
<1>2. \A n \in Nodes : nodes'[n] = nodes[n] /\ nodes[n].ident \in Int
  BY Basics DEF Grows, Stays, NodeSet
<1>3. \A n \in Nodes' : nodes'[n].ident \in Int
  BY EntryTypesThen
<1>4. CASE t = NoNode
  <2>1. ~Visible(u, t)
    BY <1>4 DEF Visible
  <2>2. ASSUME SeenThen(u, t2) PROVE FALSE
    <3>1. t2 \in Nodes' /\ t2 # NoNode
      BY <2>2 DEF SeenThen
    <3>2. nodes[u].ident <= nodes'[t2].ident
      BY <3>1, <1>4 DEF SameEntry
    <3>3. QED
      BY <1>1, <1>2, <1>3, <2>2, <3>1, <3>2 DEF SeenThen
  <2>3. QED
    BY <2>1, <2>2
<1>5. CASE t # NoNode
  <2>1. t2 = t /\ t \in Nodes
    BY <1>5 DEF SameEntry
  <2>2. QED
    BY <1>1, <1>2, <2>1, <1>5 DEF SeenThen, Visible, IdentOf
<1>6. QED
  BY <1>4, <1>5

TableLike(u, n) == SameEntry(u, table[n][nodes[u].name], table'[n][nodes[u].name])
ScopeLike(u, i) == SameEntry(u, env[i][nodes[u].name], env'[i][nodes[u].name])

LEMMA UseFacts ==
  ASSUME Tree, NEW u \in Uses
  PROVE  u \in Nodes /\ NameOf(u) = nodes[u].name /\ NameOf(u) \in Names
BY Basics DEF Uses, NameOf, NodeSet

LEMMA FoundKept ==
  ASSUME Tree, Tree', Grows, NEW u \in Uses, NEW n \in Nodes, TableLike(u, n)
  PROVE  /\ FoundAt(u, n)' <=> FoundAt(u, n)
         /\ FoundAt(u, n) => table'[n][NameOf(u)] = table[n][NameOf(u)]
<1>1. PICK x \in Names : x = NameOf(u) /\ x = nodes[u].name
  BY UseFacts
<1>2. NameOf(u)' = x
  BY <1>1, UseFacts DEF Grows, Stays, NameOf
<1>3. n \in Nodes' /\ table'[n][x] \in Nodes' \cup {NoNode}
  BY EntryTypesThen DEF Grows
<1>4. table[n][x] \in Nodes \cup {NoNode}
  BY Basics
<1>5. SameEntry(u, table[n][x], table'[n][x])
  BY <1>1 DEF TableLike
<1>6. /\ SeenThen(u, table'[n][x]) <=> Visible(u, table[n][x])
      /\ Visible(u, table[n][x]) => table'[n][x] = table[n][x]
  BY <1>3, <1>4, <1>5, EntryKept
<1>7. FoundAt(u, n) <=> Visible(u, table[n][x])
  BY <1>1 DEF FoundAt, Visible
<1>8. FoundAt(u, n)' <=> SeenThen(u, table'[n][x])
  BY <1>2 DEF FoundAt, SeenThen, IdentOf
<1>9. QED
  BY <1>1, <1>6, <1>7, <1>8

LEMMA EntryInScope ==
  ASSUME Tree, Tree', Grows, NEW u \in Uses, NEW i, i \in 1 .. Len(env), i \in 1 .. Len(env'),
         ScopeLike(u, i)
  PROVE  /\ Visible(u, InScope(u, i))' <=> Visible(u, InScope(u, i))
         /\ Visible(u, InScope(u, i)) => InScope(u, i)' = InScope(u, i)
<1>1. PICK x \in Names : x = NameOf(u) /\ x = nodes[u].name
  BY UseFacts
<1>2. NameOf(u)' = x
  BY <1>1, UseFacts DEF Grows, Stays, NameOf
<1>3. env'[i][x] \in Nodes' \cup {NoNode}
  BY EntryTypesThen
<1>4. env[i][x] \in Nodes \cup {NoNode}
  BY EntryTypes DEF EntriesTyped
<1>5. SameEntry(u, env[i][x], env'[i][x])
  BY <1>1 DEF ScopeLike
<1>6. /\ SeenThen(u, env'[i][x]) <=> Visible(u, env[i][x])
      /\ Visible(u, env[i][x]) => env'[i][x] = env[i][x]
  BY <1>3, <1>4, <1>5, EntryKept
<1>7. InScope(u, i) = env[i][x] /\ InScope(u, i)' = env'[i][x]
  BY <1>1, <1>2 DEF InScope
<1>8. Visible(u, InScope(u, i))' <=> SeenThen(u, env'[i][x])
  BY <1>7 DEF Visible, SeenThen, IdentOf
<1>9. QED
  BY <1>6, <1>7, <1>8

LEMMA MeansKept ==
  ASSUME Tree, Tree', Grows, NEW u \in Uses, NEW m \in Nat, m <= Len(env), m <= Len(env'),
         \A i \in 1 .. m : ScopeLike(u, i), MeansIn(u, m)
  PROVE  MeansIn(u, m)'
<1>1. Expected(u)' = Expected(u)
  BY ExpectedKept
<1>2. Len(env) \in Nat /\ Len(env') \in Nat
  BY SMTT(30), Basics DEF Tree, TypeOK
<1>3. \A i \in 1 .. m : i \in 1 .. Len(env) /\ i \in 1 .. Len(env')
  BY <1>2
<1>4. \A i \in 1 .. m :
        /\ Visible(u, InScope(u, i))' <=> Visible(u, InScope(u, i))
        /\ Visible(u, InScope(u, i)) => InScope(u, i)' = InScope(u, i)
  BY <1>3, EntryInScope
<1>5. CASE Expected(u) = NoNode /\ \A i \in 1 .. m : ~Visible(u, InScope(u, i))
  BY <1>1, <1>4, <1>5 DEF MeansIn
<1>6. ASSUME NEW i \in 1 .. m, Visible(u, InScope(u, i)), Expected(u) = InScope(u, i),
             \A j \in i + 1 .. m : ~Visible(u, InScope(u, j))
      PROVE  MeansIn(u, m)'
  <2>1. Visible(u, InScope(u, i))' /\ Expected(u)' = InScope(u, i)'
    BY <1>1, <1>4, <1>6
  <2>2. \A j \in i + 1 .. m : j \in 1 .. m
    OBVIOUS
  <2>3. \A j \in i + 1 .. m : ~Visible(u, InScope(u, j))'
    BY <1>4, <1>6, <2>2
  <2>4. QED
    BY <2>1, <2>3 DEF MeansIn
<1>7. QED
  BY <1>5, <1>6 DEF MeansIn

(* The innermost of m scopes.                                              *)
LEMMA MeansTop ==
  ASSUME NEW u, NEW m \in Nat, m > 0, MeansIn(u, m)
  PROVE  /\ Visible(u, InScope(u, m)) => Expected(u) = InScope(u, m)
         /\ ~Visible(u, InScope(u, m)) => MeansIn(u, m - 1)
<1>1. CASE Expected(u) = NoNode /\ \A i \in 1 .. m : ~Visible(u, InScope(u, i))
  <2>1. m \in 1 .. m /\ \A i \in 1 .. m - 1 : i \in 1 .. m
    OBVIOUS
  <2>2. QED
    BY <1>1, <2>1 DEF MeansIn
<1>2. ASSUME NEW i \in 1 .. m, Visible(u, InScope(u, i)), Expected(u) = InScope(u, i),
             \A j \in i + 1 .. m : ~Visible(u, InScope(u, j))
      PROVE  /\ Visible(u, InScope(u, m)) => Expected(u) = InScope(u, m)
             /\ ~Visible(u, InScope(u, m)) => MeansIn(u, m - 1)
  <2>1. CASE i = m
    BY <1>2, <2>1
  <2>2. CASE i # m
    <3>1. i \in 1 .. m - 1 /\ m \in i + 1 .. m /\ \A j \in i + 1 .. m - 1 : j \in i + 1 .. m
      BY <2>2
    <3>2. ~Visible(u, InScope(u, m)) /\ \A j \in i + 1 .. m - 1 : ~Visible(u, InScope(u, j))
      BY <1>2, <3>1
    <3>3. MeansIn(u, m - 1)
      BY <1>2, <3>1, <3>2 DEF MeansIn
    <3>4. QED
      BY <3>2, <3>3
  <2>3. QED
    BY <2>1, <2>2
<1>3. QED
  BY <1>1, <1>2 DEF MeansIn

(* Where a name means what the open scopes say.                            *)
LEMMA MeansFresh ==
  ASSUME NEW S, NEW e \in Seq([Names -> S]), env = e, NEW u, NameOf(u) \in Names,
         Expected(u) = Meaning(e, NameOf(u)),
         \A i \in 1 .. Len(e) : e[i][NameOf(u)] # NoNode => Visible(u, e[i][NameOf(u)])
  PROVE  MeansIn(u, Len(e))
<1>1. PICK x \in Names : x = NameOf(u)
  OBVIOUS
<1>2. \A i : InScope(u, i) = e[i][x]
  BY <1>1 DEF InScope
<1>3. \A i \in 1 .. Len(e) : Visible(u, InScope(u, i)) <=> e[i][x] # NoNode
  BY <1>1, <1>2 DEF Visible
<1>4. Len(e) \in Nat
  OBVIOUS
<1>5. ASSUME NEW i \in 1 .. Len(e), e[i][x] # NoNode, Meaning(e, x) = e[i][x],
             \A j \in i + 1 .. Len(e) : e[j][x] = NoNode
      PROVE  MeansIn(u, Len(e))
  <2>1. Visible(u, InScope(u, i)) /\ Expected(u) = InScope(u, i)
    BY <1>1, <1>2, <1>3, <1>5
  <2>2. \A j \in i + 1 .. Len(e) : j \in 1 .. Len(e)
    BY <1>4
  <2>3. \A j \in i + 1 .. Len(e) : ~Visible(u, InScope(u, j))
    BY <1>3, <1>5, <2>2
  <2>4. QED
    BY <2>1, <2>3 DEF MeansIn
<1>6. ASSUME Meaning(e, x) = NoNode, \A i \in 1 .. Len(e) : e[i][x] = NoNode
      PROVE  MeansIn(u, Len(e))
  BY <1>1, <1>3, <1>6 DEF MeansIn
<1>7. QED
  BY <1>1, <1>5, <1>6, MeaningIs

FreshMeans ==
  \A u : /\ NameOf(u) \in Names /\ Expected(u) = Meaning(env, NameOf(u))
         /\ \A i \in 1 .. Len(env) :
              env[i][NameOf(u)] # NoNode => Visible(u, env[i][NameOf(u)])
         => MeansIn(u, Len(env))

LEMMA FreshMeansNow ==
  Tree => FreshMeans
<1> SUFFICES ASSUME Tree PROVE FreshMeans
  OBVIOUS
<1>1. env \in Seq([Names -> Nodes \cup {NoNode}])
  BY Basics
<1>2. QED
  BY <1>1, MeansFresh DEF FreshMeans

LEMMA FreshMeansThen ==
  ASSUME Tree', NEW u \in Nodes', NEW x \in Names, nodes'[u].name = x,
         Expected(u)' = Meaning(env', x), NEW m, m = Len(env'),
         \A i \in 1 .. m : env'[i][x] # NoNode => SeenThen(u, env'[i][x])
  PROVE  MeansIn(u, m)'
<1>1. FreshMeans'
  <2>1. (Tree => FreshMeans)'
    BY FreshMeansNow, PTL
  <2>2. QED
    BY <2>1
<1>2. NameOf(u)' = x
  BY DEF NameOf
<1>3. \A i \in 1 .. m : env'[i][x] # NoNode => (nodes'[u].ident > nodes'[env'[i][x]].ident)
  BY DEF SeenThen
<1>4. QED
  BY <1>1, <1>2, <1>3 DEF FreshMeans, Visible, IdentOf, NameOf

-----------------------------------------------------------------------------
(* R2 holds where the searches go after the step.                          *)
StartsThen(R2, u) ==
  IF parent'[u] = NoNode THEN AwaitsAt(u, u)' ELSE <<u, parent'[u]>> \in R2

LEMMA ClimbsFollow ==
  ASSUME NEW R2, R2 \in SUBSET (Uses' \X Nodes'),
         \A u \in Uses' : StartsThen(R2, u),
         \A u \in Uses', n \in Nodes' : <<u, n>> \in R2 => Stands(R2, u, n)',
         func' # NoNode => \A u \in Uses' : <<u, Unit>> \in R2 => IdentOf(u)' < IdentOf(func)'
  PROVE  Climbs(R2)'
BY DEF Climbs, StartsThen

LEMMA ClimbsFacts ==
  ASSUME NEW R, Climbs(R)
  PROVE  /\ R \in SUBSET (Uses \X Nodes)
         /\ \A u \in Uses : parent[u] = NoNode => AwaitsAt(u, u)
         /\ \A u \in Uses : parent[u] # NoNode => <<u, parent[u]>> \in R
         /\ \A u \in Uses, n \in Nodes : <<u, n>> \in R => Stands(R, u, n)
BY DEF Climbs

LEMMA UsesGrow ==
  ASSUME Tree, Grows
  PROVE  /\ Uses \subseteq Uses' /\ Nodes \subseteq Nodes'
         /\ \A u \in Uses' : u \in Nodes => u \in Uses
         /\ Uses \subseteq Nodes /\ Uses' \subseteq Nodes'
<1>1. \A n \in Nodes : Kind(n)' = Kind(n)
  BY DEF Grows, Stays, Kind
<1>2. QED
  BY <1>1 DEF Uses, Grows

(* A search that has arrived at n goes on from there.                      *)
LEMMA StandsKept ==
  ASSUME Tree, Tree', Grows, NEW R, NEW R2, R \subseteq R2, NEW u \in Uses, NEW n \in Nodes,
         Stands(R, u, n), TableLike(u, n),
         n # Unit /\ parent[n] = NoNode /\ AwaitsAt(u, n) =>
           IF parent'[n] = NoNode THEN AwaitsAt(u, n)' ELSE <<u, parent'[n]>> \in R2
  PROVE  Stands(R2, u, n)'
<1>1. /\ FoundAt(u, n)' <=> FoundAt(u, n)
      /\ FoundAt(u, n) => table'[n][NameOf(u)] = table[n][NameOf(u)]
  BY FoundKept
<1>2. NameOf(u)' = NameOf(u) /\ Expected(u)' = Expected(u)
  BY UseFacts, ExpectedKept DEF Grows, Stays, NameOf
<1>3. parent[n] # NoNode \/ n = Unit => parent'[n] = parent[n]
  BY DEF Grows
<1>4. CASE FoundAt(u, n)
  BY <1>1, <1>2, <1>4 DEF Stands
<1>5. CASE ~FoundAt(u, n) /\ parent[n] # NoNode
  <2>1. <<u, parent'[n]>> \in R2 /\ parent'[n] # NoNode
    BY <1>3, <1>5 DEF Stands
  <2>2. QED
    BY <1>1, <1>5, <2>1 DEF Stands
<1>6. CASE ~FoundAt(u, n) /\ n = Unit /\ parent[n] = NoNode
  <2>1. Expected(u)' = NoNode /\ parent'[n] = NoNode
    BY <1>2, <1>3, <1>6 DEF Stands
  <2>2. QED
    BY <1>1, <1>6, <2>1 DEF Stands
<1>7. CASE ~FoundAt(u, n) /\ n # Unit /\ parent[n] = NoNode
  <2>1. AwaitsAt(u, n)
    BY <1>7 DEF Stands
  <2>2. QED
    BY <1>1, <1>7, <2>1 DEF Stands
<1>8. QED
  BY <1>4, <1>5, <1>6, <1>7

(* A step that opens and declares, and closes nothing.                     *)
Opening ==
  /\ Len(env) <= Len(env')
  /\ \A u \in Uses : \A i \in 1 .. Len(env) : ScopeLike(u, i)
  /\ \A u \in Uses, n \in Nodes : TableLike(u, n)
  /\ \A n \in Nodes : parent'[n] = parent[n]
  /\ \A k \in DOMAIN open : k \in DOMAIN open' /\ Elems(open[k]) \subseteq Elems(open'[k])

LEMMA AwaitsKept ==
  ASSUME Tree, Tree', Grows, Opening, NEW u \in Uses, NEW n, AwaitsAt(u, n)
  PROVE  AwaitsAt(u, n)'
<1>1. PICK k \in DOMAIN open : n \in Elems(open[k]) /\ MeansIn(u, k + 1)
  BY DEF AwaitsAt
<1>2. k \in DOMAIN open' /\ n \in Elems(open'[k])
  BY <1>1 DEF Opening
<1>3. k \in 1 .. Len(open) /\ Len(open) \in Nat /\ Len(env) = Len(open) + 1
  BY Basics
<1>4. Len(env') \in Nat
  BY DEF Tree, TypeOK
<1>5. PICK m \in Nat : m = k + 1 /\ m <= Len(env) /\ m <= Len(env')
  BY <1>3, <1>4 DEF Opening
<1>6. \A i \in 1 .. m : ScopeLike(u, i)
  BY <1>3, <1>5 DEF Opening
<1>7. MeansIn(u, m)'
  BY <1>1, <1>5, <1>6, MeansKept
<1>8. QED
  BY <1>2, <1>5, <1>7 DEF AwaitsAt

LEMMA OpeningSearches ==
  ASSUME Tree, Tree', Grows, Opening, NEW R, Climbs(R), NEW R2, R \subseteq R2
  PROVE  /\ \A u \in Uses : StartsThen(R2, u)
         /\ \A u \in Uses, n \in Nodes : <<u, n>> \in R => Stands(R2, u, n)'
<1>1. \A u \in Uses : u \in Nodes /\ parent'[u] = parent[u]
  BY UseFacts DEF Opening
<1>2. ASSUME NEW u \in Uses PROVE StartsThen(R2, u)
  <2>1. CASE parent[u] = NoNode
    <3>1. AwaitsAt(u, u)'
      BY <2>1, ClimbsFacts, AwaitsKept
    <3>2. QED
      BY <1>1, <2>1, <3>1 DEF StartsThen
  <2>2. CASE parent[u] # NoNode
    BY <1>1, <2>2, ClimbsFacts DEF StartsThen
  <2>3. QED
    BY <2>1, <2>2
<1>3. ASSUME NEW u \in Uses, NEW n \in Nodes, <<u, n>> \in R PROVE Stands(R2, u, n)'
  <2>1. Stands(R, u, n) /\ TableLike(u, n) /\ parent'[n] = parent[n]
    BY <1>3, ClimbsFacts DEF Opening
  <2>2. n # Unit /\ parent[n] = NoNode /\ AwaitsAt(u, n) =>
           IF parent'[n] = NoNode THEN AwaitsAt(u, n)' ELSE <<u, parent'[n]>> \in R2
    BY <2>1, AwaitsKept
  <2>3. QED
    BY <2>1, <2>2, StandsKept
<1>4. QED
  BY <1>2, <1>3

(* The uses of an open function are newer than its name.                   *)
LEMMA UnitPairs ==
  ASSUME Tree, Tree', Grows, NEW R, Climbs(R), func' = func, func # NoNode,
         NEW u \in Uses, <<u, Unit>> \in R
  PROVE  IdentOf(u)' < IdentOf(func)'
<1>1. PICK f \in Nodes : f = func
  BY Basics
<1>2. IdentOf(u) < IdentOf(f)
  BY <1>1 DEF Climbs
<1>3. u \in Nodes /\ nodes'[u] = nodes[u] /\ nodes'[f] = nodes[f]
  BY UseFacts DEF Grows, Stays
<1>4. QED
  BY <1>1, <1>2, <1>3 DEF IdentOf

LEMMA UseResolves ==
  ASSUME Tree, Scopes, NEW R, Climbs(R), NEW name \in Names, Use(name)
  PROVE  \E R2 : Climbs(R2)'
<1>1. PICK e \in Nat : e = Len(nodes) + 1
  BY Basics
<1>2. /\ Nodes' = 1 .. e /\ \A n \in Nodes : Kept(n)
      /\ nodes'[e] = Node("use", name, tokens + 1)
      /\ parent'[e] = NoNode /\ meant'[e] = Meaning(env, name)
  BY <1>1, UseEffect
<1>3. /\ open # <<>> /\ open' = AddItem(e) /\ func' = func /\ env' = env /\ tokens' = tokens + 1
  BY <1>1 DEF Use, New
<1>4. Tree' /\ Grows
  BY UseTree
<1>5. Nodes = 1 .. Len(nodes) /\ Unit \in Nodes /\ tokens \in Nat /\ Len(nodes) \in Nat
      /\ Len(env) = Len(open) + 1 /\ Len(open) \in Nat
  BY Basics
<1>6. e \notin Nodes /\ e \in Nodes' /\ \A n \in Nodes' : n \notin Nodes => n = e
  BY <1>1, <1>2, <1>5
<1>7. /\ Len(open) \in DOMAIN open /\ Len(open) \in DOMAIN open'
      /\ e \in Elems(open'[Len(open)])
      /\ \A k \in DOMAIN open : k \in DOMAIN open' /\ Elems(open[k]) \subseteq Elems(open'[k])
  BY <1>3, AddItemStep
<1>8. Opening
  <2>1. \A u : \A i \in 1 .. Len(env) : ScopeLike(u, i)
    BY <1>3 DEF ScopeLike, SameEntry
  <2>2. \A u : \A n \in Nodes : TableLike(u, n) /\ parent'[n] = parent[n]
    BY <1>2 DEF TableLike, SameEntry, Kept
  <2>3. Len(env) <= Len(env')
    BY <1>3, <1>5
  <2>4. QED
    BY <1>7, <2>1, <2>2, <2>3 DEF Opening
<1>9. PICK m \in Nat : m = Len(open) + 1
  BY <1>5
<1>10. MeansIn(e, m)'
  <2>1. nodes'[e].name = name /\ nodes'[e].ident = tokens + 1
    BY <1>2 DEF Node
  <2>2. Expected(e)' = Meaning(env', name) /\ m = Len(env')
    <3>1. Expected(e)' = meant'[e]
      BY <1>2 DEF Expected, NamesItself
    <3>2. QED
      BY <1>2, <1>3, <1>5, <1>9, <3>1
  <2>3. ASSUME NEW i \in 1 .. m, env'[i][name] # NoNode PROVE SeenThen(e, env'[i][name])
    <3>1. PICK t \in Nodes : t = env'[i][name] /\ t # NoNode
      BY <1>3, <1>5, <1>9, <2>3, EntryTypes DEF EntriesTyped
    <3>2. nodes'[t] = nodes[t] /\ nodes[t].ident <= tokens /\ nodes[t].ident \in Int
      BY <1>2, EntryTypes DEF EntriesTyped, Scopes, IdentOf, Kept, Stays
    <3>3. QED
      BY <1>5, <2>1, <3>1, <3>2 DEF SeenThen
  <2>4. QED
    BY <1>4, <1>6, <2>1, <2>2, <2>3, FreshMeansThen
<1>11. AwaitsAt(e, e)'
  BY <1>7, <1>9, <1>10 DEF AwaitsAt
<1>12. /\ Uses \subseteq Uses' /\ Nodes \subseteq Nodes' /\ Uses' \subseteq Nodes'
       /\ \A u \in Uses' : u \in Uses \/ u = e
  BY <1>4, <1>6, UsesGrow
<1>13. \A u \in Uses' : StartsThen(R, u)
  <2>1. StartsThen(R, e)
    BY <1>2, <1>11 DEF StartsThen
  <2>2. QED
    BY <1>4, <1>8, <1>12, <2>1, OpeningSearches
<1>14. R \in SUBSET (Uses \X Nodes)
  BY ClimbsFacts
<1>15. \A u \in Uses', n \in Nodes' : <<u, n>> \in R => u \in Uses /\ n \in Nodes
  BY <1>14
<1>16. \A u \in Uses', n \in Nodes' : <<u, n>> \in R => Stands(R, u, n)'
  BY <1>4, <1>8, <1>15, OpeningSearches
<1>17. func' # NoNode => \A u \in Uses' : <<u, Unit>> \in R => IdentOf(u)' < IdentOf(func)'
  BY <1>3, <1>4, <1>5, <1>12, <1>15, UnitPairs
<1>18. R \in SUBSET (Uses' \X Nodes')
  BY <1>12, <1>14
<1>19. QED
  BY <1>13, <1>16, <1>17, <1>18, ClimbsFollow

(* The search that reaches the unit ends there.                            *)
UnitMeans ==
  Outermost /\ func = NoNode /\ parent[Unit] = NoNode =>
    \A v, R : NameOf(v) \in Names /\ MeansIn(v, 1) => Stands(R, v, Unit)

LEMMA UnitMeansNow ==
  UnitMeans
<1> SUFFICES ASSUME Outermost, func = NoNode, parent[Unit] = NoNode,
                    NEW v, NEW R, NameOf(v) \in Names, MeansIn(v, 1)
             PROVE  Stands(R, v, Unit)
  BY DEF UnitMeans
<1>1. PICK x \in Names : x = NameOf(v)
  OBVIOUS
<1>2. InScope(v, 1) = table[Unit][x]
  BY <1>1 DEF Outermost, InScope
<1>3. FoundAt(v, Unit) <=> Visible(v, InScope(v, 1))
  BY <1>1, <1>2 DEF FoundAt, Visible
<1>4. Visible(v, InScope(v, 1)) => Expected(v) = InScope(v, 1)
  <2>1. PICK m \in Nat : m = 1
    OBVIOUS
  <2>2. MeansIn(v, m) /\ m > 0
    BY <2>1
  <2>3. Visible(v, InScope(v, m)) => Expected(v) = InScope(v, m)
    BY <2>2, MeansTop
  <2>4. QED
    BY <2>1, <2>3
<1>5. ~Visible(v, InScope(v, 1)) => Expected(v) = NoNode
  <2>1. \A i \in 1 .. 1 : i = 1
    OBVIOUS
  <2>2. QED
    BY <2>1 DEF MeansIn
<1>6. QED
  BY <1>1, <1>2, <1>3, <1>4, <1>5 DEF Stands

LEMMA UnitMeansThen ==
  ASSUME Tree', Scopes', func' = NoNode, NEW v, nodes'[v].name \in Names, MeansIn(v, 1)',
         NEW R
  PROVE  Stands(R, v, Unit)'
<1>1. UnitMeans'
  BY UnitMeansNow, PTL
<1>2. Outermost' /\ parent'[Unit] = NoNode
  BY DEF Scopes, Outermost, Tree, Shape
<1>3. QED
  BY <1>1, <1>2 DEF UnitMeans, NameOf

LEMMA VarDefOpening ==
  ASSUME Tree, Scopes, NEW k \in {0, 1}, NEW d \in Nat, NEW name \in Names, NEW init,
         VarDefFacts(name, init, k, d)
  PROVE  Opening
<1>1. VarDefined(name, init, k, d)
  BY DEF VarDefFacts
<1>2. /\ nodes'[d].ident = tokens + 1
      /\ open # <<>> => open' = AddItem(d)
      /\ open = <<>> => open' = open
      /\ env[Len(env)][name] = NoNode
      /\ Len(env') = Len(env)
      /\ \A j \in 1 .. Len(env) : j # Len(env) => env'[j] = env[j]
      /\ env'[Len(env)][name] = d
      /\ \A x \in Names : x # name => env'[Len(env)][x] = env[Len(env)][x]
  BY Zenon DEF VarDefFacts, IdentOf
<1>3. /\ \A n \in Nodes : parent'[n] = parent[n]
      /\ \A n \in Nodes : open # <<>> \/ n # Unit => table'[n] = table[n]
      /\ open = <<>> => table'[Unit] = Emplaced(table[Unit], name, d)
  BY <1>1, Zenon DEF VarDefined, Kept
<1>4. /\ tokens \in Nat /\ Unit \in Nodes /\ Len(env) \in Nat
      /\ table[Unit] \in [Names -> Nodes \cup {NoNode}]
  BY Basics
<1>5. \A u \in Uses : nodes[u].ident <= nodes'[d].ident /\ nodes[u].name \in Names
  <2>1. \A u \in Uses : nodes[u].ident <= tokens /\ nodes[u].ident \in Int /\ nodes[u].name \in Names
    BY UseFacts, EntryTypes DEF EntriesTyped, Scopes, IdentOf
  <2>2. QED
    BY <1>2, <1>4, <2>1
<1>6. ASSUME NEW u \in Uses, NEW i \in 1 .. Len(env) PROVE ScopeLike(u, i)
  <2>1. CASE i # Len(env)
    BY <1>2, <2>1 DEF ScopeLike, SameEntry
  <2>2. CASE i = Len(env) /\ nodes[u].name # name
    BY <1>2, <1>5, <2>2 DEF ScopeLike, SameEntry
  <2>3. CASE i = Len(env) /\ nodes[u].name = name
    BY <1>2, <1>5, <2>3 DEF ScopeLike, SameEntry
  <2>4. QED
    BY <2>1, <2>2, <2>3
<1>7. ASSUME NEW u \in Uses, NEW n \in Nodes PROVE TableLike(u, n)
  <2>1. CASE open # <<>> \/ n # Unit
    BY <1>3, <2>1 DEF TableLike, SameEntry
  <2>2. CASE open = <<>> /\ n = Unit
    <3>1. PICK t \in [Names -> Nodes \cup {NoNode}] : t = table[Unit]
      BY <1>4
    <3>2. table'[n] = IF t[name] = NoNode THEN [t EXCEPT ![name] = d] ELSE t
      BY <1>3, <2>2, <3>1 DEF Emplaced
    <3>3. \A x \in Names : table'[n][x] = t[x] \/ (t[x] = NoNode /\ x = name /\ table'[n][x] = d)
      BY <3>1, <3>2
    <3>4. table'[n][nodes[u].name] = t[nodes[u].name]
            \/ (t[nodes[u].name] = NoNode /\ table'[n][nodes[u].name] = d)
      BY <1>5, <3>3
    <3>5. QED
      BY <1>5, <2>2, <3>1, <3>4 DEF TableLike, SameEntry
  <2>3. QED
    BY <2>1, <2>2
<1>8. \A j \in DOMAIN open : j \in DOMAIN open' /\ Elems(open[j]) \subseteq Elems(open'[j])
  <2>1. CASE open # <<>>
    BY <1>2, <2>1, AddItemStep
  <2>2. CASE open = <<>>
    BY <1>2, <2>2
  <2>3. QED
    BY <2>1, <2>2
<1>9. Len(env) <= Len(env')
  BY <1>2, <1>4
<1>10. QED
  BY <1>3, <1>6, <1>7, <1>8, <1>9 DEF Opening

(* What the initialiser's name means once d is declared: the variable, for *)
(* its own name, and for another what it meant before.                     *)
LEMMA InitMeans ==
  ASSUME Tree, Tree', NEW name \in Names, NEW init \in Names, NEW d, d # NoNode,
         Len(env') = Len(env), env'[Len(env)][name] = d,
         \A j \in 1 .. Len(env) : j # Len(env) => env'[j] = env[j],
         \A x \in Names : x # name => env'[Len(env)][x] = env[Len(env)][x]
  PROVE  Meaning(env', init) = IF init = name THEN d ELSE Meaning(env, init)
<1>1. PICK m \in Nat : m = Len(env) /\ m = Len(env') /\ m > 0
  BY Basics
<1>2. PICK a : a = env
  OBVIOUS
<1>2a. a \in Seq([Names -> Nodes \cup {NoNode}]) /\ Len(a) = m
  BY <1>1, <1>2, Basics
<1>3. env' \in Seq([Names -> Nodes' \cup {NoNode}])
  BY DEF Tree, TypeOK
<1>4. \/ \E i \in 1 .. m : /\ a[i][init] # NoNode /\ Meaning(a, init) = a[i][init]
                          /\ \A j \in i + 1 .. m : a[j][init] = NoNode
      \/ Meaning(a, init) = NoNode /\ \A i \in 1 .. m : a[i][init] = NoNode
  BY <1>2a, MeaningIs
<1>5. PICK e : e = env'
  OBVIOUS
<1>6. e \in Seq([Names -> Nodes' \cup {NoNode}]) /\ Len(e) = m
  BY <1>1, <1>3, <1>5
<1>7. \/ \E i \in 1 .. m : /\ e[i][init] # NoNode /\ Meaning(e, init) = e[i][init]
                          /\ \A j \in i + 1 .. m : e[j][init] = NoNode
      \/ Meaning(e, init) = NoNode /\ \A i \in 1 .. m : e[i][init] = NoNode
  BY <1>6, MeaningIs
<1>8. CASE init = name
  <2>1. m \in 1 .. m /\ e[m][init] = d
    BY <1>1, <1>5, <1>8
  <2>2. PICK i \in 1 .. m : /\ Meaning(e, init) = e[i][init]
                           /\ \A j \in i + 1 .. m : e[j][init] = NoNode
    BY <1>7, <2>1
  <2>3. m \notin i + 1 .. m
    BY <2>1, <2>2
  <2>4. i = m
    BY <2>3
  <2>5. QED
    BY <1>5, <1>8, <2>1, <2>2, <2>4
<1>9. CASE init # name
  <2>1. \A i \in 1 .. m : e[i][init] = a[i][init]
    BY <1>1, <1>2, <1>5, <1>9
  <2>2. ASSUME NEW i \in 1 .. m, NEW j \in 1 .. m,
               e[i][init] # NoNode, \A n \in i + 1 .. m : e[n][init] = NoNode,
               a[j][init] # NoNode, \A n \in j + 1 .. m : a[n][init] = NoNode
        PROVE  i = j
    <3>1. ~(i < j)
      BY <2>1, <2>2
    <3>2. ~(j < i)
      BY <2>1, <2>2
    <3>3. QED
      BY <3>1, <3>2
  <2>3. Meaning(e, init) = Meaning(a, init)
    BY <1>4, <1>7, <2>1, <2>2
  <2>4. QED
    BY <1>2, <1>5, <1>9, <2>3
<1>10. QED
  BY <1>8, <1>9

(* The search of the use v in the initialiser of d.                        *)
LEMMA InitUse ==
  ASSUME Tree, Scopes, Tree', Scopes', NEW d \in Nat, NEW name \in Names, NEW init \in Names,
         NEW k \in {0, 1}, k = 1, VarDefFacts(name, init, k, d),
         NEW v, v = Len(nodes) + 1, NEW R2, <<v, d>> \in R2,
         open = <<>> => <<v, Unit>> \in R2 /\ func = NoNode
  PROVE  /\ v \in Nodes' /\ v \notin Nodes /\ d # Unit /\ v # d
         /\ StartsThen(R2, v) /\ Stands(R2, v, d)'
         /\ open = <<>> => Stands(R2, v, Unit)'
<1>1. VarDefined(name, init, k, d)
  BY DEF VarDefFacts
<1>2. /\ v \in Nodes' /\ v \notin Nodes /\ v < d /\ d \notin Nodes /\ d \in Nodes'
      /\ nodes'[v].name = init /\ nodes'[v].ident = tokens + 2 /\ nodes'[d].ident = tokens + 1
      /\ nodes'[d].kind = "var" /\ nodes'[d].name = name
      /\ open # <<>> => open' = AddItem(d)
      /\ Len(env') = Len(env) /\ func' = func
      /\ \A j \in 1 .. Len(env) : j # Len(env) => env'[j] = env[j]
      /\ env'[Len(env)][name] = d
      /\ \A x \in Names : x # name => env'[Len(env)][x] = env[Len(env)][x]
  BY Zenon DEF VarDefFacts, IdentOf, Kind, NameOf
<1>3. /\ parent'[v] = d /\ meant'[v] = Meaning(env, init)
      /\ table'[d] = NoTable
      /\ open # <<>> => parent'[d] = NoNode
      /\ open = <<>> => parent'[d] = Unit
      /\ \A n \in Nodes : Stays(n)
  BY <1>1 DEF VarDefined
<1>4. /\ tokens \in Nat /\ Unit \in Nodes /\ Len(env) \in Nat /\ Nodes = 1 .. Len(nodes)
      /\ Len(env) = Len(open) + 1 /\ Len(open) \in Nat
  BY Basics
<1>5. d # Unit /\ v # d /\ d # NoNode /\ Unit # NoNode
  BY <1>2, <1>4 DEF Unit, NoNode
<1>6. PICK m \in Nat : m = Len(env') /\ m = Len(env)
  BY <1>2, <1>4
<1>7. ASSUME NEW i \in 1 .. m, env'[i][init] # NoNode PROVE SeenThen(v, env'[i][init])
  <2>1. CASE env'[i][init] = d
    BY <1>2, <1>4, <1>5, <2>1 DEF SeenThen
  <2>2. CASE env'[i][init] = env[i][init]
    <3>1. PICK t \in Nodes : t = env'[i][init] /\ t # NoNode
      BY <1>6, <1>7, <2>2, EntryTypes DEF EntriesTyped
    <3>2. nodes'[t] = nodes[t] /\ nodes[t].ident <= tokens /\ nodes[t].ident \in Int
      BY <1>3, EntryTypes DEF EntriesTyped, Scopes, IdentOf, Stays
    <3>3. PICK a \in Int : a = nodes'[t].ident /\ a <= tokens
      BY <3>2
    <3>4. nodes'[v].ident = tokens + 2 /\ tokens \in Nat
      BY <1>2, <1>4
    <3>5. nodes'[v].ident > nodes'[t].ident
      BY <3>3, <3>4
    <3>6. QED
      BY <3>1, <3>5 DEF SeenThen
  <2>3. env'[i][init] = d \/ env'[i][init] = env[i][init]
    BY <1>2, <1>6
  <2>4. QED
    BY <2>1, <2>2, <2>3
<1>8. MeansIn(v, m)'
  <2>1. NamesItself(v)' <=> init = name
    BY <1>2, <1>3, <1>5 DEF NamesItself, Kind, NameOf
  <2>2. Expected(v)' = IF init = name THEN d ELSE Meaning(env, init)
    BY <1>3, <2>1 DEF Expected
  <2>3. Expected(v)' = Meaning(env', init)
    BY <1>2, <1>5, <2>2, InitMeans
  <2>4. QED
    BY <1>2, <1>6, <1>7, <2>3, FreshMeansThen
<1>9. StartsThen(R2, v)
  BY <1>3, <1>5 DEF StartsThen
<1>10. Stands(R2, v, d)'
  <2>1. ~FoundAt(v, d)'
    BY <1>2, <1>3 DEF FoundAt, NoTable, NameOf
  <2>2. CASE open = <<>>
    BY <1>3, <1>5, <2>1, <2>2 DEF Stands
  <2>3. CASE open # <<>>
    <3>1. Len(open) \in DOMAIN open' /\ d \in Elems(open'[Len(open)])
      BY <1>2, <2>3, AddItemStep
    <3>2. m = Len(open) + 1
      BY <1>4, <1>6
    <3>3. AwaitsAt(v, d)'
      BY <1>8, <3>1, <3>2 DEF AwaitsAt
    <3>4. QED
      BY <1>3, <1>5, <2>1, <2>3, <3>3 DEF Stands
  <2>4. QED
    BY <2>2, <2>3
<1>11. ASSUME open = <<>> PROVE Stands(R2, v, Unit)'
  <2>1. Len(open) = 0
    BY <1>11
  <2>2. m = 1
    BY <1>4, <1>6, <2>1
  <2>3. MeansIn(v, 1)' /\ func' = NoNode
    BY <1>2, <1>8, <1>11, <2>2
  <2>4. QED
    BY <1>2, <2>3, UnitMeansThen
<1>12. QED
  BY <1>2, <1>5, <1>9, <1>10, <1>11

LEMMA VarDefResolves ==
  ASSUME Tree, Scopes, NEW R, Climbs(R),
         NEW name \in Names, NEW init \in Names \cup {NoUse}, VarDef(name, init)
  PROVE  \E R2 : Climbs(R2)'
<1>1. PICK k \in {0, 1}, d \in Nat : VarDefFacts(name, init, k, d)
  BY VarDefStep
<1>2. Tree' /\ Grows /\ Scopes'
  BY VarDefTree, VarDefScopes
<1>3. Opening
  BY <1>1, VarDefOpening
<1>4. PICK v : v = Len(nodes) + 1
  OBVIOUS
<1>5. /\ k = 0 <=> init = NoUse
      /\ d \notin Nodes /\ d \in Nodes'
      /\ \A n \in Nodes' : n \notin Nodes => n = d \/ (k = 1 /\ n = v)
      /\ k = 1 => v \in Nodes' /\ Kind(v)' = "use"
      /\ Kind(d)' = "var" /\ func' = func
  BY <1>1, <1>4, Zenon DEF VarDefFacts, Kind
<1>6. Unit \in Nodes
  BY Basics
<1>7. open = <<>> => func = NoNode
  BY DEF Tree, Shape, ShapeFunc
<1>8. PICK R2 : R2 = R \cup {p \in {<<v, d>>, <<v, Unit>>} :
                               k = 1 /\ (p = <<v, d>> \/ open = <<>>)}
  OBVIOUS
<1>9. /\ R \subseteq R2
      /\ k = 1 => <<v, d>> \in R2 /\ (open = <<>> => <<v, Unit>> \in R2)
      /\ \A p \in R2 : p \in R \/ (k = 1 /\ p = <<v, d>>)
                               \/ (k = 1 /\ open = <<>> /\ p = <<v, Unit>>)
  BY <1>8
<1>10. /\ Uses \subseteq Uses' /\ Nodes \subseteq Nodes' /\ Uses' \subseteq Nodes'
       /\ \A u \in Uses' : u \in Uses \/ (k = 1 /\ u = v)
       /\ k = 1 => v \in Uses'
  <2>1. \A u \in Uses' : u \in Nodes' /\ Kind(u)' = "use"
    BY DEF Uses
  <2>2. d \notin Uses'
    BY <1>5, <2>1
  <2>3. k = 1 => v \in Uses'
    BY <1>5 DEF Uses
  <2>4. QED
    BY <1>2, <1>5, <2>2, <2>3, UsesGrow
<1>11. k = 1 => /\ v \in Nodes' /\ v \notin Nodes /\ d # Unit /\ v # d
                /\ StartsThen(R2, v) /\ Stands(R2, v, d)'
                /\ open = <<>> => Stands(R2, v, Unit)'
  <2>1. k = 1 => init \in Names
    BY <1>5
  <2>2. QED
    BY <1>1, <1>2, <1>4, <1>7, <1>9, <2>1, InitUse
<1>12. R \in SUBSET (Uses \X Nodes)
  BY ClimbsFacts
<1>13. /\ \A u \in Uses : StartsThen(R2, u)
       /\ \A u \in Uses, n \in Nodes : <<u, n>> \in R => Stands(R2, u, n)'
  BY <1>2, <1>3, <1>9, OpeningSearches
<1>14. \A u \in Uses' : StartsThen(R2, u)
  BY <1>10, <1>11, <1>13
<1>15. ASSUME NEW u \in Uses', NEW n \in Nodes', <<u, n>> \in R2 PROVE Stands(R2, u, n)'
  <2>1. CASE <<u, n>> \in R
    <3>1. u \in Uses /\ n \in Nodes
      BY <1>12, <2>1
    <3>2. QED
      BY <1>13, <2>1, <3>1
  <2>2. CASE k = 1 /\ <<u, n>> = <<v, d>>
    <3>1. u = v /\ n = d
      BY <2>2
    <3>2. QED
      BY <1>11, <2>2, <3>1
  <2>3. CASE k = 1 /\ open = <<>> /\ <<u, n>> = <<v, Unit>>
    <3>1. u = v /\ n = Unit
      BY <2>3
    <3>2. QED
      BY <1>11, <2>3, <3>1
  <2>4. QED
    BY <1>9, <1>15, <2>1, <2>2, <2>3
<1>16. R2 \in SUBSET (Uses' \X Nodes')
  <2>1. \A p \in R2 : p \in Uses' \X Nodes'
    <3>1. \A p \in R : p \in Uses' \X Nodes'
      BY <1>10, <1>12
    <3>2. k = 1 => <<v, d>> \in Uses' \X Nodes' /\ <<v, Unit>> \in Uses' \X Nodes'
      BY <1>5, <1>6, <1>10
    <3>3. QED
      BY <1>9, <3>1, <3>2
  <2>2. QED
    BY <2>1
<1>17. ASSUME func' # NoNode, NEW u \in Uses', <<u, Unit>> \in R2
       PROVE  IdentOf(u)' < IdentOf(func)'
  <2>1. open # <<>> /\ func # NoNode
    BY <1>5, <1>7, <1>17
  <2>2. k = 1 => <<u, Unit>> # <<v, d>>
    BY <1>11
  <2>3. <<u, Unit>> \in R
    BY <1>9, <1>17, <2>1, <2>2
  <2>4. u \in Uses
    BY <1>12, <2>3
  <2>5. QED
    BY <1>2, <1>5, <2>1, <2>3, <2>4, UnitPairs
<1>18. QED
  BY <1>14, <1>15, <1>16, <1>17, ClimbsFollow

(* No search arrives anywhere else.                                        *)
LEMMA SamePairs ==
  ASSUME Tree, Tree', Grows, Opening, NEW R, Climbs(R),
         \A n \in Nodes' : n \notin Nodes => Kind(n)' # "use",
         func' # NoNode => \A u \in Uses : <<u, Unit>> \in R => IdentOf(u)' < IdentOf(func)'
  PROVE  Climbs(R)'
<1>1. /\ Uses \subseteq Uses' /\ Nodes \subseteq Nodes'
      /\ \A u \in Uses' : u \in Uses
  <2>1. \A u \in Uses' : u \in Nodes' /\ Kind(u)' = "use"
    BY DEF Uses
  <2>2. QED
    BY <2>1, UsesGrow
<1>2. R \in SUBSET (Uses \X Nodes)
  BY ClimbsFacts
<1>3. /\ \A u \in Uses : StartsThen(R, u)
      /\ \A u \in Uses, n \in Nodes : <<u, n>> \in R => Stands(R, u, n)'
  BY OpeningSearches
<1>4. R \in SUBSET (Uses' \X Nodes')
  BY <1>1, <1>2
<1>5. \A u \in Uses' : StartsThen(R, u)
  BY <1>1, <1>3
<1>6. \A u \in Uses', n \in Nodes' : <<u, n>> \in R => u \in Uses /\ n \in Nodes
  BY <1>2
<1>7. \A u \in Uses', n \in Nodes' : <<u, n>> \in R => Stands(R, u, n)'
  BY <1>3, <1>6
<1>8. func' # NoNode => \A u \in Uses' : <<u, Unit>> \in R => IdentOf(u)' < IdentOf(func)'
  BY <1>1
<1>9. QED
  BY <1>4, <1>5, <1>7, <1>8, ClimbsFollow

LEMMA FuncHeadResolves ==
  ASSUME Tree, Scopes, NEW R, Climbs(R),
         NEW name \in Names, NEW params \in Seq(Names), FuncHead(name, params), Distinct(params)
  PROVE  Climbs(R)'
<1>1. PICK k \in Nat, f \in Nat : FuncHeadFacts(name, params, k, f)
  BY FuncHeadStep
<1>2. Tree' /\ Grows
  BY FuncHeadTree
<1>3. /\ FuncOpened(name, params, f)
      /\ \A n \in Nodes' : n \notin Nodes => n = f \/ \E i \in 1 .. k : n = Len(nodes) + i
      /\ \A i \in 1 .. k : nodes'[Len(nodes) + i].kind = "param"
      /\ Kind(f)' = "func" /\ IdentOf(f)' = tokens + 1
      /\ open = <<>> /\ func' = f /\ env[1][name] = NoNode
      /\ Len(env') = 2 /\ env'[1][name] = f
      /\ \A x \in Names : x # name => env'[1][x] = env[1][x]
  BY <1>1, Zenon DEF FuncHeadFacts
<1>4. \A n \in Nodes : Kept(n)
  BY <1>3 DEF FuncOpened
<1>5. tokens \in Nat /\ Len(env) = Len(open) + 1
  BY Basics
<1>6. Len(open) = 0
  BY <1>3
<1>7. Len(env) = 1
  BY <1>5, <1>6
<1>8. \A u \in Uses : /\ u \in Nodes /\ nodes[u].name \in Names /\ nodes[u].ident \in Int
                      /\ nodes[u].ident <= tokens /\ nodes'[u] = nodes[u]
  BY <1>4, UseFacts, EntryTypes DEF EntriesTyped, Scopes, IdentOf, Kept, Stays
<1>9. \A u \in Uses : nodes[u].ident < nodes'[f].ident
  BY <1>3, <1>5, <1>8 DEF IdentOf
<1>10. ASSUME NEW u \in Uses PROVE ScopeLike(u, 1)
  <2>1. PICK a \in Int, c \in Int : a = nodes[u].ident /\ c = tokens + 1 /\ c = nodes'[f].ident /\ a <= c
    BY <1>3, <1>5, <1>8 DEF IdentOf
  <2>2. CASE nodes[u].name = name
    BY <1>3, <2>1, <2>2 DEF ScopeLike, SameEntry
  <2>3. CASE nodes[u].name # name
    BY <1>3, <1>8, <2>3 DEF ScopeLike, SameEntry
  <2>4. QED
    BY <2>2, <2>3
<1>11. Opening
  <2>1. Len(env) <= Len(env')
    BY <1>3, <1>7
  <2>2. \A u \in Uses : \A i \in 1 .. Len(env) : ScopeLike(u, i)
    <3>1. \A i \in 1 .. Len(env) : i = 1
      BY <1>7
    <3>2. QED
      BY <1>10, <3>1
  <2>3. \A u \in Uses, n \in Nodes : TableLike(u, n)
    BY <1>4 DEF TableLike, SameEntry, Kept
  <2>4. \A n \in Nodes : parent'[n] = parent[n]
    BY <1>4 DEF Kept
  <2>5. DOMAIN open = {}
    BY <1>3
  <2>6. QED
    BY <2>1, <2>2, <2>3, <2>4, <2>5 DEF Opening
<1>12. \A n \in Nodes' : n \notin Nodes => Kind(n)' # "use"
  BY <1>3 DEF Kind
<1>13. \A u \in Uses : IdentOf(u)' < IdentOf(func)'
  BY <1>3, <1>8, <1>9 DEF IdentOf
<1>14. QED
  BY <1>2, <1>11, <1>12, <1>13, SamePairs

LEMMA OpenBlockResolves ==
  ASSUME Tree, Scopes, NEW R, Climbs(R), OpenBlock
  PROVE  Climbs(R)'
<1>1. Tree' /\ Grows /\ \A n \in Nodes : Kept(n)
  BY OpenBlockTree
<1>2. /\ nodes' = nodes /\ func' = func
      /\ open' = Append(open, <<>>) /\ env' = Append(env, NoTable)
  BY DEF OpenBlock, tree
<1>3. open \in Seq(Seq(Nodes)) /\ env \in Seq([Names -> Nodes \cup {NoNode}]) /\ Len(env) \in Nat
  BY Basics
<1>4. /\ Len(env') = Len(env) + 1 /\ \A i \in 1 .. Len(env) : env'[i] = env[i]
  BY <1>2, <1>3
<1>5. \A k \in DOMAIN open : k \in DOMAIN open' /\ open'[k] = open[k]
  <2>1. <<>> \in Seq(Nodes)
    OBVIOUS
  <2>2. QED
    BY <1>2, <1>3, <2>1
<1>6. Opening
  <2>1. Len(env) <= Len(env')
    BY <1>3, <1>4
  <2>2. \A u \in Uses : \A i \in 1 .. Len(env) : ScopeLike(u, i)
    BY <1>4 DEF ScopeLike, SameEntry
  <2>3. \A u \in Uses, n \in Nodes : TableLike(u, n)
    BY <1>1 DEF TableLike, SameEntry, Kept
  <2>4. \A n \in Nodes : parent'[n] = parent[n]
    BY <1>1 DEF Kept
  <2>5. \A k \in DOMAIN open : k \in DOMAIN open' /\ Elems(open[k]) \subseteq Elems(open'[k])
    BY <1>5
  <2>6. QED
    BY <2>1, <2>2, <2>3, <2>4, <2>5 DEF Opening
<1>7. Nodes' = Nodes
  BY <1>2 DEF Nodes
<1>8. func' # NoNode => \A u \in Uses : <<u, Unit>> \in R => IdentOf(u)' < IdentOf(func)'
  BY <1>1, <1>2, UnitPairs
<1>9. QED
  BY <1>1, <1>6, <1>7, <1>8, SamePairs

(* The searches that arrive at the block when it closes.                   *)
Ends(R, u, L) ==
  \/ u \in Elems(open[L])
  \/ \E n \in Elems(open[L]) : <<u, n>> \in R /\ ~FoundAt(u, n)

LEMMA EndsMeans ==
  ASSUME Tree, NEW R, Climbs(R), NEW u \in Uses, NEW L \in DOMAIN open, Ends(R, u, L)
  PROVE  MeansIn(u, L + 1)
<1>1. ASSUME NEW n \in Elems(open[L]), AwaitsAt(u, n)
      PROVE  MeansIn(u, L + 1)
  <2>1. PICK k \in DOMAIN open : n \in Elems(open[k]) /\ MeansIn(u, k + 1)
    BY <1>1 DEF AwaitsAt
  <2>2. k = L
    BY <1>1, <2>1, ItemFacts
  <2>3. QED
    BY <2>1, <2>2
<1>2. CASE u \in Elems(open[L])
  BY <1>1, <1>2, ItemFacts, ClimbsFacts
<1>3. ASSUME NEW n \in Elems(open[L]), <<u, n>> \in R, ~FoundAt(u, n)
      PROVE  MeansIn(u, L + 1)
  <2>1. n \in Nodes /\ n # Unit /\ parent[n] = NoNode
    BY <1>3, ItemFacts
  <2>2. Stands(R, u, n)
    BY <1>3, <2>1, ClimbsFacts
  <2>3. AwaitsAt(u, n)
    BY <1>3, <2>1, <2>2 DEF Stands
  <2>4. QED
    BY <1>1, <1>3, <2>3
<1>4. QED
  BY <1>2, <1>3 DEF Ends

LEMMA CloseBlockResolves ==
  ASSUME Tree, Scopes, NEW R, Climbs(R), CloseBlock
  PROVE  \E R2 : Climbs(R2)'
<1>1. PICK b \in Nat : b = Len(nodes) + 1
  BY Basics
<1>2. BlockClosed(b)
  BY <1>1, CloseBlockEffect
<1>3. Tree' /\ Grows
  BY CloseBlockTree
<1>4. Nodes = 1 .. Len(nodes) /\ Unit \in Nodes /\ Len(env) = Len(open) + 1 /\ Len(open) \in Nat
  BY Basics
<1>5. PICK L \in Nat : L = Len(open) /\ L > 1
  BY <1>2, <1>4 DEF BlockClosed
<1>6. /\ Nodes' = 1 .. b
      /\ \A n \in Nodes : table'[n] = table[n]
      /\ \A n \in Nodes : n \in Elems(open[L]) => parent'[n] = b
      /\ \A n \in Nodes : n \notin Elems(open[L]) => parent'[n] = parent[n]
      /\ nodes'[b] = Node("block", Builtin, 0)
      /\ parent'[b] = NoNode /\ table'[b] = env[L + 1]
      /\ Len(open') = L - 1
      /\ \A k \in 1 .. L - 2 : open'[k] = open[k]
      /\ Elems(open'[L - 1]) = Elems(open[L - 1]) \cup {b}
      /\ Len(env') = Len(env) - 1
      /\ \A k \in 1 .. Len(env) - 1 : env'[k] = env[k]
  BY <1>2, <1>5, Zenon DEF BlockClosed
<1>7. func' = func
  BY DEF CloseBlock
<1>8. /\ b \notin Nodes /\ b \in Nodes' /\ b # Unit /\ b # NoNode
      /\ \A n \in Nodes' : n \notin Nodes => n = b
  BY <1>1, <1>4, <1>6 DEF Unit, NoNode
<1>9. /\ Uses \subseteq Uses' /\ Nodes \subseteq Nodes'
      /\ \A u \in Uses' : u \in Uses
  <2>1. Kind(b)' # "use"
    BY <1>6 DEF Kind, Node
  <2>2. \A u \in Uses' : u \in Nodes' /\ Kind(u)' = "use"
    BY DEF Uses
  <2>3. QED
    BY <1>3, <1>8, <2>1, <2>2, UsesGrow
<1>10. Len(env) = L + 1 /\ Len(env') = L /\ \A i \in 1 .. L : env'[i] = env[i]
  BY <1>4, <1>5, <1>6
<1>11. DOMAIN open' = 1 .. L - 1 /\ DOMAIN open = 1 .. L /\ L \in DOMAIN open
  <2>1. DOMAIN open' = 1 .. Len(open')
    BY <1>3 DEF Tree, TypeOK, Frames
  <2>2. QED
    BY <1>5, <1>6, <2>1, Basics
<1>12. \A u : \A i \in 1 .. L : ScopeLike(u, i)
  BY <1>10 DEF ScopeLike, SameEntry
<1>13. ASSUME NEW u \in Uses, NEW n, n \notin Elems(open[L]), AwaitsAt(u, n)
       PROVE  AwaitsAt(u, n)'
  <2>1. PICK k \in DOMAIN open : n \in Elems(open[k]) /\ MeansIn(u, k + 1)
    BY <1>13 DEF AwaitsAt
  <2>2. k # L /\ k \in 1 .. L - 1
    BY <1>11, <1>13, <2>1
  <2>3. n \in Elems(open'[k])
    <3>1. CASE k = L - 1
      BY <1>6, <2>1, <3>1
    <3>2. CASE k # L - 1
      BY <1>5, <1>6, <2>1, <2>2, <3>2
    <3>3. QED
      BY <3>1, <3>2
  <2>4. PICK m \in Nat : m = k + 1 /\ m <= L
    BY <1>5, <2>2
  <2>5. MeansIn(u, m)'
    <3>1. m <= Len(env) /\ m <= Len(env')
      BY <1>10, <2>4
    <3>2. \A i \in 1 .. m : ScopeLike(u, i)
      BY <1>12, <2>4
    <3>3. QED
      BY <1>3, <2>1, <2>4, <3>1, <3>2, MeansKept
  <2>6. QED
    BY <1>11, <2>2, <2>3, <2>4, <2>5 DEF AwaitsAt
<1>14. PICK X : X = {u \in Uses : Ends(R, u, L)}
  OBVIOUS
<1>15. PICK R2 : R2 = R \cup {<<u, b>> : u \in X}
  OBVIOUS
<1>16. R \in SUBSET (Uses \X Nodes)
  BY ClimbsFacts
<1>17. R \subseteq R2 /\ (\A u \in X : <<u, b>> \in R2)
  BY <1>15
<1>18. ASSUME NEW u \in Uses, NEW n \in Nodes, <<u, n>> \in R
       PROVE  Stands(R2, u, n)'
  <2>1. Stands(R, u, n)
    BY <1>18, ClimbsFacts
  <2>2. TableLike(u, n)
    BY <1>6 DEF TableLike, SameEntry
  <2>3. CASE FoundAt(u, n) \/ n \notin Elems(open[L])
    <3>1. CASE FoundAt(u, n)
      <4>1. /\ FoundAt(u, n)' <=> FoundAt(u, n)
            /\ FoundAt(u, n) => table'[n][NameOf(u)] = table[n][NameOf(u)]
        BY <1>3, <2>2, FoundKept
      <4>2. NameOf(u)' = NameOf(u) /\ Expected(u)' = Expected(u)
        BY <1>3, UseFacts, ExpectedKept DEF Grows, Stays, NameOf
      <4>3. table[n][NameOf(u)] = Expected(u)
        BY <2>1, <3>1 DEF Stands
      <4>4. QED
        BY <3>1, <4>1, <4>2, <4>3 DEF Stands
    <3>2. CASE n \notin Elems(open[L])
      <4>1. parent'[n] = parent[n]
        BY <1>6, <3>2
      <4>2. parent[n] = NoNode /\ AwaitsAt(u, n) => AwaitsAt(u, n)'
        BY <1>13, <3>2
      <4>3. n # Unit /\ parent[n] = NoNode /\ AwaitsAt(u, n) =>
              IF parent'[n] = NoNode THEN AwaitsAt(u, n)' ELSE <<u, parent'[n]>> \in R2
        BY <4>1, <4>2
      <4>4. QED
        BY <1>3, <1>17, <2>1, <2>2, <4>3, StandsKept
    <3>3. QED
      BY <2>3, <3>1, <3>2
  <2>4. CASE ~FoundAt(u, n) /\ n \in Elems(open[L])
    <3>1. u \in X
      BY <1>14, <1>18, <2>4 DEF Ends
    <3>2. parent'[n] = b /\ <<u, b>> \in R2
      BY <1>6, <1>17, <2>4, <3>1
    <3>3. n # Unit /\ parent[n] = NoNode /\ AwaitsAt(u, n) =>
            IF parent'[n] = NoNode THEN AwaitsAt(u, n)' ELSE <<u, parent'[n]>> \in R2
      BY <1>8, <3>2
    <3>4. QED
      BY <1>3, <1>17, <2>1, <2>2, <3>3, StandsKept
  <2>5. QED
    BY <2>3, <2>4
<1>19. ASSUME NEW u \in X PROVE Stands(R2, u, b)'
  <2>1. u \in Uses /\ MeansIn(u, L + 1)
    BY <1>11, <1>14, EndsMeans
  <2>2. PICK m \in Nat : m = L + 1 /\ m > 0 /\ m - 1 = L /\ m \in 1 .. Len(env)
    BY <1>10
  <2>3. /\ Visible(u, InScope(u, m)) => Expected(u) = InScope(u, m)
        /\ ~Visible(u, InScope(u, m)) => MeansIn(u, L)
    BY <2>1, <2>2, MeansTop
  <2>4. PICK x \in Names : x = NameOf(u) /\ x = nodes[u].name
    BY <2>1, UseFacts
  <2>5. NameOf(u)' = x /\ Expected(u)' = Expected(u) /\ nodes'[u] = nodes[u]
    BY <1>3, <2>1, <2>4, UseFacts, ExpectedKept DEF Grows, Stays, NameOf
  <2>6. PICK t \in Nodes \cup {NoNode} : t = env[m][x]
    BY <2>2, EntryTypes DEF EntriesTyped
  <2>7. table'[b][x] = t /\ InScope(u, m) = t
    BY <1>6, <2>2, <2>4, <2>6 DEF InScope
  <2>8. FoundAt(u, b)' <=> Visible(u, t)
    <3>1. CASE t = NoNode
      BY <2>5, <2>7, <3>1 DEF FoundAt, Visible
    <3>2. CASE t \in Nodes /\ t # NoNode
      <4>1. nodes'[t] = nodes[t]
        BY <1>3, <3>2 DEF Grows, Stays
      <4>2. QED
        BY <2>5, <2>7, <3>2, <4>1 DEF FoundAt, Visible, IdentOf
    <3>3. QED
      BY <2>6, <3>1, <3>2
  <2>9. CASE Visible(u, t)
    BY <2>3, <2>5, <2>7, <2>8, <2>9 DEF Stands
  <2>10. CASE ~Visible(u, t)
    <3>1. MeansIn(u, L)'
      <4>1. MeansIn(u, L) /\ L <= Len(env) /\ L <= Len(env')
        BY <1>10, <2>3, <2>7, <2>10
      <4>2. QED
        BY <1>3, <1>12, <2>1, <4>1, MeansKept
    <3>2. PICK k \in Nat : k = L - 1 /\ k + 1 = L /\ k \in DOMAIN open'
      BY <1>5, <1>11
    <3>3. b \in Elems(open'[k])
      BY <1>6, <3>2
    <3>4. AwaitsAt(u, b)'
      BY <3>1, <3>2, <3>3 DEF AwaitsAt
    <3>5. QED
      BY <1>6, <1>8, <2>8, <2>10, <3>4 DEF Stands
  <2>11. QED
    BY <2>9, <2>10
<1>20. ASSUME NEW u \in Uses PROVE StartsThen(R2, u)
  <2>1. u \in Nodes
    BY UseFacts
  <2>2. CASE u \in Elems(open[L])
    <3>1. u \in X
      BY <1>14, <2>2 DEF Ends
    <3>2. QED
      BY <1>6, <1>8, <1>17, <2>1, <2>2, <3>1 DEF StartsThen
  <2>3. CASE u \notin Elems(open[L])
    <3>1. parent'[u] = parent[u]
      BY <1>6, <2>1, <2>3
    <3>2. parent[u] = NoNode => AwaitsAt(u, u)'
      BY <1>13, <2>3, ClimbsFacts
    <3>3. parent[u] # NoNode => <<u, parent[u]>> \in R2
      BY <1>17, ClimbsFacts
    <3>4. QED
      BY <3>1, <3>2, <3>3 DEF StartsThen
  <2>4. QED
    BY <2>2, <2>3
<1>21. ASSUME NEW u \in Uses', NEW n \in Nodes', <<u, n>> \in R2 PROVE Stands(R2, u, n)'
  <2>1. CASE <<u, n>> \in R
    <3>1. u \in Uses /\ n \in Nodes
      BY <1>16, <2>1
    <3>2. QED
      BY <1>18, <2>1, <3>1
  <2>2. ASSUME NEW v \in X, <<u, n>> = <<v, b>> PROVE Stands(R2, u, n)'
    <3>1. u = v /\ n = b
      BY <2>2
    <3>2. QED
      BY <1>19, <3>1
  <2>3. QED
    BY <1>15, <1>21, <2>1, <2>2
<1>22. R2 \in SUBSET (Uses' \X Nodes')
  <2>1. \A p \in R : p \in Uses' \X Nodes'
    BY <1>9, <1>16
  <2>2. \A u \in X : <<u, b>> \in Uses' \X Nodes'
    BY <1>8, <1>9, <1>14
  <2>3. \A p \in R2 : p \in Uses' \X Nodes'
    BY <1>15, <2>1, <2>2
  <2>4. QED
    BY <2>3
<1>23. ASSUME func' # NoNode, NEW u \in Uses', <<u, Unit>> \in R2
       PROVE  IdentOf(u)' < IdentOf(func)'
  <2>1. \A v \in X : <<u, Unit>> # <<v, b>>
    BY <1>8
  <2>2. <<u, Unit>> \in R /\ u \in Uses
    BY <1>9, <1>15, <1>23, <2>1
  <2>3. QED
    BY <1>3, <1>7, <1>23, <2>2, UnitPairs
<1>24. QED
  BY <1>9, <1>20, <1>21, <1>22, <1>23, ClimbsFollow

(* The tables of the body and of the unit, once the function is declared.  *)
LEMMA BodySearches ==
  ASSUME Tree, Scopes, Tree', Scopes', Grows, NEW R, Climbs(R),
         NEW b \in Nat, BodyClosed(b), b # NoNode,
         NEW f \in Nodes, f = func, f # NoNode, f # Unit, NEW u \in Uses, Ends(R, u, 1),
         NEW R2, ~FoundAt(u, b)' => <<u, f>> \in R2 /\ <<u, Unit>> \in R2
  PROVE  /\ Stands(R2, u, b)'
         /\ ~FoundAt(u, b)' => Stands(R2, u, f)' /\ Stands(R2, u, Unit)'
<1>1. /\ Len(open) = 1 /\ table'[b] = env[2]
      /\ \A n \in Nodes : n # Unit => table'[n] = table[n]
      /\ parent'[f] = Unit /\ parent'[b] = f /\ func' = NoNode
      /\ Len(env') = 1 /\ env'[1] = env[1]
  BY Zenon DEF BodyClosed
<1>2. /\ 1 \in DOMAIN open /\ Len(env) = 2 /\ 1 \in 1 .. Len(env) /\ 2 \in 1 .. Len(env)
  <2>1. DOMAIN open = 1 .. Len(open) /\ Len(env) = Len(open) + 1
    BY Basics
  <2>2. QED
    BY <1>1, <2>1
<1>3. PICK m \in Nat : m = 2 /\ m > 0 /\ m - 1 = 1 /\ m = 1 + 1
  OBVIOUS
<1>4. MeansIn(u, m)
  BY <1>2, <1>3, EndsMeans
<1>5. /\ Visible(u, InScope(u, m)) => Expected(u) = InScope(u, m)
      /\ ~Visible(u, InScope(u, m)) => MeansIn(u, 1)
  BY <1>3, <1>4, MeansTop
<1>6. PICK x \in Names : x = NameOf(u) /\ x = nodes[u].name
  BY UseFacts
<1>7. /\ u \in Nodes /\ NameOf(u)' = x /\ Expected(u)' = Expected(u) /\ nodes'[u] = nodes[u]
  BY <1>6, UseFacts, ExpectedKept DEF Grows, Stays, NameOf
<1>8. PICK t \in Nodes \cup {NoNode} : t = env[2][x]
  BY <1>2, EntryTypes DEF EntriesTyped
<1>9. table'[b][x] = t /\ InScope(u, m) = t
  BY <1>1, <1>3, <1>6, <1>8 DEF InScope
<1>10. FoundAt(u, b)' <=> Visible(u, t)
  <2>1. CASE t = NoNode
    BY <1>7, <1>9, <2>1 DEF FoundAt, Visible
  <2>2. CASE t \in Nodes /\ t # NoNode
    <3>1. nodes'[t] = nodes[t]
      BY <2>2 DEF Grows, Stays
    <3>2. QED
      BY <1>7, <1>9, <2>2, <3>1 DEF FoundAt, Visible, IdentOf
  <2>3. QED
    BY <1>8, <2>1, <2>2
<1>11. Stands(R2, u, b)'
  <2>1. CASE Visible(u, t)
    BY <1>5, <1>7, <1>9, <1>10, <2>1 DEF Stands
  <2>2. CASE ~Visible(u, t)
    BY <1>1, <1>10, <2>2 DEF Stands
  <2>3. QED
    BY <2>1, <2>2
<1>12. ASSUME ~FoundAt(u, b)' PROVE Stands(R2, u, f)'
  <2>1. table'[f] = NoTable
    BY <1>1 DEF Tree, Shape, ShapeFunc
  <2>2. ~FoundAt(u, f)'
    BY <1>7, <2>1 DEF FoundAt, NoTable
  <2>3. Unit # NoNode
    BY DEF Unit, NoNode
  <2>4. QED
    BY <1>1, <1>12, <2>2, <2>3 DEF Stands
<1>13. ASSUME ~FoundAt(u, b)' PROVE Stands(R2, u, Unit)'
  <2>1. MeansIn(u, 1)
    BY <1>5, <1>9, <1>10, <1>13
  <2>2. PICK k \in Nat : k = 1 /\ k <= Len(env) /\ k <= Len(env')
    BY <1>1, <1>2
  <2>3. \A i \in 1 .. k : ScopeLike(u, i)
    <3>1. \A i \in 1 .. k : i = 1
      BY <2>2
    <3>2. QED
      BY <1>1, <3>1 DEF ScopeLike, SameEntry
  <2>4. MeansIn(u, k)'
    BY <2>1, <2>2, <2>3, MeansKept
  <2>5. MeansIn(u, 1)'
    BY <2>2, <2>4
  <2>6. nodes'[u].name \in Names
    BY <1>6, <1>7
  <2>7. QED
    BY <1>1, <2>5, <2>6, UnitMeansThen
<1>14. QED
  BY <1>11, <1>12, <1>13

LEMMA CloseBodyResolves ==
  ASSUME Tree, Scopes, NEW R, Climbs(R), CloseBody
  PROVE  \E R2 : Climbs(R2)'
<1>1. PICK b \in Nat : b = Len(nodes) + 1
  BY Basics
<1>2. BodyClosed(b)
  BY <1>1, CloseBodyEffect
<1>3. Tree' /\ Grows /\ Scopes'
  BY CloseBodyTree, CloseBodyScopes
<1>4. Nodes = 1 .. Len(nodes) /\ Unit \in Nodes /\ DOMAIN open = 1 .. Len(open)
  BY Basics
<1>5. PICK f \in Nodes : f = func /\ f # NoNode /\ f # Unit
  BY <1>2 DEF BodyClosed
<1>6. /\ Nodes' = 1 .. b /\ Len(open) = 1
      /\ \A n \in Nodes : n # f /\ n \in Elems(open[1]) => parent'[n] = b
      /\ \A n \in Nodes : n # f /\ n \notin Elems(open[1]) => parent'[n] = parent[n]
      /\ \A n \in Nodes : n # Unit => table'[n] = table[n]
      /\ table'[Unit] = [table[Unit] EXCEPT ![NameOf(f)] = f]
      /\ nodes'[b] = Node("block", Builtin, 0)
      /\ func' = NoNode
  BY <1>2, <1>5, Zenon DEF BodyClosed
<1>7. /\ b \notin Nodes /\ b \in Nodes' /\ b # NoNode
      /\ \A n \in Nodes' : n \notin Nodes => n = b
  BY <1>1, <1>4, <1>6 DEF NoNode
<1>8. /\ Uses \subseteq Uses' /\ Nodes \subseteq Nodes'
      /\ \A u \in Uses' : u \in Uses
  <2>1. Kind(b)' # "use"
    BY <1>6 DEF Kind, Node
  <2>2. \A u \in Uses' : u \in Nodes' /\ Kind(u)' = "use"
    BY DEF Uses
  <2>3. QED
    BY <1>3, <1>7, <2>1, <2>2, UsesGrow
<1>9. 1 \in DOMAIN open /\ \A k \in DOMAIN open : k = 1
  BY <1>4, <1>6
<1>10. R \in SUBSET (Uses \X Nodes)
  BY ClimbsFacts
<1>11. PICK X : X = {u \in Uses : Ends(R, u, 1)}
  OBVIOUS
<1>12. PICK Y : Y = {u \in X : ~FoundAt(u, b)'}
  OBVIOUS
<1>13. PICK R2 : R2 = R \cup {<<u, b>> : u \in X} \cup {<<u, f>> : u \in Y}
                        \cup {<<u, Unit>> : u \in Y}
  OBVIOUS
<1>14. /\ R \subseteq R2 /\ \A u \in X : <<u, b>> \in R2
       /\ \A u \in Y : <<u, f>> \in R2 /\ <<u, Unit>> \in R2
       /\ X \subseteq Uses /\ Y \subseteq X
  BY <1>11, <1>12, <1>13
<1>15. ASSUME NEW u \in Uses, NEW n \in Elems(open[1]), u = n \/ (<<u, n>> \in R /\ ~FoundAt(u, n))
       PROVE  parent'[n] = b /\ <<u, b>> \in R2
  <2>1. n \in Nodes /\ n # f
    BY <1>5, <1>9, ItemFacts
  <2>2. u \in X
    BY <1>11, <1>15 DEF Ends
  <2>3. QED
    BY <1>6, <1>14, <2>1, <2>2
<1>16. ASSUME NEW u \in Uses, NEW n \in Nodes, AwaitsAt(u, n) PROVE n \in Elems(open[1])
  BY <1>9, <1>16 DEF AwaitsAt
<1>17. ASSUME NEW u \in Uses, NEW n \in Nodes, <<u, n>> \in R PROVE TableLike(u, n)
  <2>1. CASE n # Unit
    BY <1>6, <2>1 DEF TableLike, SameEntry
  <2>2. CASE n = Unit
    <3>1. PICK t \in [Names -> Nodes \cup {NoNode}] : t = table[Unit]
      BY <1>4, Basics
    <3>2. PICK x \in Names : x = nodes[u].name
      BY UseFacts
    <3>3. PICK y \in Names : y = NameOf(f)
      BY <1>5, Basics DEF NameOf, NodeSet
    <3>4. table'[n] = [t EXCEPT ![y] = f]
      BY <1>6, <2>2, <3>1, <3>3
    <3>5. t[y] = NoNode
      BY <1>5, <3>1, <3>3 DEF Scopes
    <3>6. nodes[u].ident <= nodes'[f].ident
      <4>1. nodes[u].ident < nodes[f].ident
        BY <1>5, <1>17, <2>2 DEF Climbs, IdentOf
      <4>2. nodes'[f] = nodes[f] /\ nodes[f].ident \in Int /\ nodes[u].ident \in Int
        BY <1>3, UseFacts, EntryTypes DEF EntriesTyped, Grows, Stays
      <4>3. QED
        BY <4>1, <4>2
    <3>7. SameEntry(u, t[x], table'[n][x])
      <4>1. CASE x = y
        BY <3>4, <3>5, <3>6, <4>1 DEF SameEntry
      <4>2. CASE x # y
        BY <3>4, <4>2 DEF SameEntry
      <4>3. QED
        BY <4>1, <4>2
    <3>8. QED
      BY <2>2, <3>1, <3>2, <3>7 DEF TableLike
  <2>3. QED
    BY <2>1, <2>2
<1>18. ASSUME NEW u \in Uses, NEW n \in Nodes, <<u, n>> \in R
       PROVE  Stands(R2, u, n)'
  <2>1. Stands(R, u, n) /\ TableLike(u, n)
    BY <1>17, <1>18, ClimbsFacts
  <2>2. CASE FoundAt(u, n)
    <3>1. /\ FoundAt(u, n)' <=> FoundAt(u, n)
          /\ FoundAt(u, n) => table'[n][NameOf(u)] = table[n][NameOf(u)]
      BY <1>3, <2>1, FoundKept
    <3>2. NameOf(u)' = NameOf(u) /\ Expected(u)' = Expected(u)
      BY <1>3, UseFacts, ExpectedKept DEF Grows, Stays, NameOf
    <3>3. table[n][NameOf(u)] = Expected(u)
      BY <2>1, <2>2 DEF Stands
    <3>4. QED
      BY <2>2, <3>1, <3>2, <3>3 DEF Stands
  <2>3. CASE ~FoundAt(u, n)
    <3>1. AwaitsAt(u, n) => parent'[n] = b /\ <<u, b>> \in R2
      BY <1>15, <1>16, <1>18, <2>3
    <3>2. n # Unit /\ parent[n] = NoNode /\ AwaitsAt(u, n) =>
            IF parent'[n] = NoNode THEN AwaitsAt(u, n)' ELSE <<u, parent'[n]>> \in R2
      BY <1>7, <3>1
    <3>3. QED
      BY <1>3, <1>14, <2>1, <3>2, StandsKept
  <2>4. QED
    BY <2>2, <2>3
<1>19. ASSUME NEW u \in X
       PROVE  /\ Stands(R2, u, b)'
              /\ u \in Y => Stands(R2, u, f)' /\ Stands(R2, u, Unit)'
  <2>1. u \in Uses /\ Ends(R, u, 1)
    BY <1>11
  <2>2. u \in Y <=> ~FoundAt(u, b)'
    BY <1>12
  <2>3. ~FoundAt(u, b)' => <<u, f>> \in R2 /\ <<u, Unit>> \in R2
    BY <1>14, <2>2
  <2>4. /\ Stands(R2, u, b)'
        /\ ~FoundAt(u, b)' => Stands(R2, u, f)' /\ Stands(R2, u, Unit)'
    BY <1>2, <1>3, <1>5, <1>7, <2>1, <2>3, BodySearches
  <2>5. QED
    BY <2>2, <2>4
<1>20. ASSUME NEW u \in Uses PROVE StartsThen(R2, u)
  <2>1. u \in Nodes /\ u # f
    <3>1. Kind(f) = "func"
      BY <1>5 DEF Tree, Shape, ShapeFunc
    <3>2. QED
      BY <3>1, UseFacts DEF Uses
  <2>2. CASE u \in Elems(open[1])
    <3>1. parent'[u] = b /\ <<u, b>> \in R2
      BY <1>15, <2>2
    <3>2. QED
      BY <1>7, <3>1 DEF StartsThen
  <2>3. CASE u \notin Elems(open[1])
    <3>1. parent'[u] = parent[u]
      BY <1>6, <2>1, <2>3
    <3>2. parent[u] # NoNode
      BY <1>16, <2>1, <2>3, ClimbsFacts
    <3>3. <<u, parent[u]>> \in R2
      BY <1>14, <3>2, ClimbsFacts
    <3>4. QED
      BY <3>1, <3>2, <3>3 DEF StartsThen
  <2>4. QED
    BY <2>2, <2>3
<1>21. ASSUME NEW u \in Uses', NEW n \in Nodes', <<u, n>> \in R2 PROVE Stands(R2, u, n)'
  <2>1. CASE <<u, n>> \in R
    <3>1. u \in Uses /\ n \in Nodes
      BY <1>10, <2>1
    <3>2. QED
      BY <1>18, <2>1, <3>1
  <2>2. ASSUME NEW v \in X, <<u, n>> = <<v, b>> PROVE Stands(R2, u, n)'
    <3>1. u = v /\ n = b
      BY <2>2
    <3>2. QED
      BY <1>19, <3>1
  <2>3. ASSUME NEW v \in Y, <<u, n>> = <<v, f>> PROVE Stands(R2, u, n)'
    <3>1. u = v /\ n = f /\ v \in X
      BY <1>14, <2>3
    <3>2. QED
      BY <1>19, <2>3, <3>1
  <2>4. ASSUME NEW v \in Y, <<u, n>> = <<v, Unit>> PROVE Stands(R2, u, n)'
    <3>1. u = v /\ n = Unit /\ v \in X
      BY <1>14, <2>4
    <3>2. QED
      BY <1>19, <2>4, <3>1
  <2>5. QED
    BY <1>13, <1>21, <2>1, <2>2, <2>3, <2>4
<1>22. R2 \in SUBSET (Uses' \X Nodes')
  <2>1. \A p \in R : p \in Uses' \X Nodes'
    BY <1>8, <1>10
  <2>2. /\ \A u \in X : <<u, b>> \in Uses' \X Nodes'
        /\ \A u \in Y : <<u, f>> \in Uses' \X Nodes' /\ <<u, Unit>> \in Uses' \X Nodes'
    BY <1>4, <1>7, <1>8, <1>14
  <2>3. \A p \in R2 : p \in Uses' \X Nodes'
    BY <1>13, <2>1, <2>2
  <2>4. QED
    BY <2>3
<1>23. func' # NoNode => \A u \in Uses' : <<u, Unit>> \in R2 => IdentOf(u)' < IdentOf(func)'
  BY <1>6
<1>24. QED
  BY <1>8, <1>20, <1>21, <1>22, <1>23, ClimbsFollow

-----------------------------------------------------------------------------
(* The invariant.                                                          *)

LEMMA OneElem ==
  ASSUME NEW S, NEW e \in S
  PROVE  <<e>> \in Seq(S) /\ \A i \in DOMAIN <<e>> : i = 1
OBVIOUS

LEMMA InitInvariant ==
  Init => IInv
<1> SUFFICES ASSUME Init PROVE IInv
  OBVIOUS
<1>1. /\ Builtin \in Names /\ Unit = 3 /\ NoNode = 0
      /\ NoTable \in [Names -> {0}]
  BY NamesAssumption DEF Unit, NoNode, NoTable
<1>2. PICK t : t = Emplaced(NoTable, Builtin, 2)
  OBVIOUS
<1>3. /\ t \in [Names -> {0, 2}] /\ t[Builtin] = 2
      /\ \A x \in Names : x # Builtin => t[x] = 0
  BY <1>1, <1>2 DEF Emplaced, NoTable, NoNode
<1>4. /\ nodes = << Node("param", Builtin, 2), Node("func", Builtin, 1),
                    Node("unit", Builtin, 0) >>
      /\ parent = <<2, 1, 0>> /\ kids = << <<>>, <<1>>, <<2>> >>
      /\ table = <<NoTable, NoTable, t>>
      /\ ref = <<0, 0, 0>> /\ tokens = 2 /\ func = 0 /\ open = <<>> /\ env = <<t>>
      /\ meant = <<0, 0, 0>> /\ phase = "parse" /\ todo = <<>> /\ cur = 0 /\ finished = {}
  BY <1>1, <1>2 DEF Init
<1>5. /\ nodes \in Seq(NodeSet) /\ Len(nodes) = 3 /\ Nodes = 1 .. 3
      /\ Kind(1) = "param" /\ Kind(2) = "func" /\ Kind(3) = "unit"
      /\ IdentOf(1) = 2 /\ IdentOf(2) = 1 /\ IdentOf(3) = 0
  BY <1>1, <1>4 DEF Node, NodeSet, Kinds, Nodes, Kind, IdentOf
<1>6. \A n \in Nodes : n = 1 \/ n = 2 \/ n = 3
  BY <1>5
<1>7. Uses = {}
  BY <1>5, <1>6 DEF Uses
<1>8. TypeOK
  <2>1. \A n \in Nodes : nodes[n] \in [kind : Kinds, name : Names, ident : Nat]
    <3>1. \A n \in Nodes : nodes[n] \in NodeSet
      BY <1>5
    <3>2. QED
      BY <3>1 DEF NodeSet
  <2>2. parent \in [Nodes -> Nodes \cup {NoNode}] /\ ref \in [Nodes -> Nodes \cup {NoNode}]
        /\ meant \in [Nodes -> Nodes \cup {NoNode}]
    BY <1>1, <1>4, <1>5
  <2>3. kids \in [Nodes -> Seq(Nodes)]
    <3>1. <<>> \in Seq(Nodes) /\ <<1>> \in Seq(Nodes) /\ <<2>> \in Seq(Nodes)
      BY <1>5
    <3>2. PICK a, c, e \in Seq(Nodes) : a = <<>> /\ c = <<1>> /\ e = <<2>>
      BY <3>1
    <3>3. kids = <<a, c, e>>
      BY <1>4, <3>2
    <3>4. <<a, c, e>> \in [1 .. 3 -> Seq(Nodes)]
      OBVIOUS
    <3>5. QED
      BY <1>5, <3>3, <3>4
  <2>4. table \in [Nodes -> [Names -> Nodes \cup {NoNode}]]
    <3>1. NoTable \in [Names -> Nodes \cup {NoNode}] /\ t \in [Names -> Nodes \cup {NoNode}]
      BY <1>1, <1>3, <1>5
    <3>2. QED
      BY <1>4, <1>5, <3>1
  <2>5. env \in Seq([Names -> Nodes \cup {NoNode}])
    <3>1. t \in [Names -> Nodes \cup {NoNode}]
      BY <1>1, <1>3, <1>5
    <3>2. QED
      BY <1>4, <3>1
  <2>6. open \in Frames /\ todo \in Seq(Int) /\ DOMAIN todo = {}
    BY <1>4 DEF Frames
  <2>7. tokens \in Nat /\ func \in Nodes \cup {NoNode} /\ cur \in Nodes \cup {NoNode}
        /\ finished \subseteq Nodes /\ phase = "parse"
    BY <1>1, <1>4
  <2>8. QED
    BY <2>1, <2>2, <2>3, <2>4, <2>5, <2>6, <2>7 DEF TypeOK
<1>9. Shape
  <2>1. DOMAIN open = {} /\ Len(open) = 0 /\ Len(env) = 1
    BY <1>4
  <2>2. ShapeOpen /\ ShapeFunc
    BY <1>1, <1>4, <2>1 DEF ShapeOpen, ShapeFunc
  <2>3. Kind(Unit) = "unit" /\ parent[Unit] = NoNode /\ Len(nodes) >= Unit
    BY <1>1, <1>4, <1>5
  <2>4. \A n \in Nodes : Kind(n) \notin {"var", "use"} /\ ~(n > Unit)
    BY <1>1, <1>5, <1>6
  <2>5. QED
    BY <1>4, <1>5, <2>1, <2>2, <2>3, <2>4 DEF Shape
<1>10. Scopes
  <2>1. DOMAIN open = {} /\ func = NoNode /\ env[1] = table[Unit]
    BY <1>1, <1>4
  <2>2. \A n \in Nodes : IdentOf(n) <= tokens
    BY <1>4, <1>5, <1>6
  <2>3. QED
    BY <2>1, <2>2 DEF Scopes
<1>11. Resolves
  <2>1. Climbs({})
    BY <1>1, <1>4, <1>7 DEF Climbs
  <2>2. Searching({})
    BY <1>4 DEF Searching
  <2>3. QED
    BY <2>1, <2>2 DEF Resolves
<1>12. InOrder
  <2>1. PICK z : z = [n \in 1 .. 3 |-> 0]
    OBVIOUS
  <2>2. z \in [Nodes -> Int] /\ z[1] = 0 /\ z[2] = 0 /\ z[3] = 0
    BY <1>5, <2>1
  <2>3. ASSUME NEW n \in Nodes PROVE SpanAt(n, z, z)
    <3>1. z[n] = 0 /\ Kind(n) \notin {"var", "use"}
      BY <1>5, <1>6, <2>2
    <3>2. kids[n] \in Seq(Nodes) /\ \A i \in DOMAIN kids[n] : i = 1
      <4>1. 1 \in Nodes /\ 2 \in Nodes /\ <<>> \in Seq(Nodes) /\ DOMAIN <<>> = {}
        BY <1>5
      <4>2. kids[1] = <<>> /\ kids[2] = <<1>> /\ kids[3] = <<2>>
        BY <1>4
      <4>3. <<1>> \in Seq(Nodes) /\ \A i \in DOMAIN <<1>> : i = 1
        BY <4>1, OneElem
      <4>4. <<2>> \in Seq(Nodes) /\ \A i \in DOMAIN <<2>> : i = 1
        BY <4>1, OneElem
      <4>5. QED
        BY <1>6, <4>1, <4>2, <4>3, <4>4
    <3>3. \A i, j \in DOMAIN kids[n] : ~(i < j)
      BY <3>2
    <3>4. \A c \in Elems(kids[n]) : z[c] = 0
      BY <1>6, <2>2, <3>2, ElemsType
    <3>5. QED
      BY <1>4, <3>1, <3>3, <3>4 DEF SpanAt, Ascending
  <2>4. SpanOpen(z, z) /\ SpanFunc(z, z)
    BY <1>1, <1>4 DEF SpanOpen, SpanFunc
  <2>5. Spans(z, z)
    BY <2>2, <2>3, <2>4 DEF Spans
  <2>6. QED
    BY <1>4, <2>5 DEF InOrder
<1>13. AtRest
  BY <1>1, <1>4, <1>5, <1>6, <1>7 DEF AtRest
<1>14. QED
  BY <1>8, <1>9, <1>10, <1>11, <1>12, <1>13 DEF IInv, Tree

LEMMA ParseInvariant ==
  ASSUME Tree', Scopes', AtRest', phase' = "parse",
         \E R2 : Climbs(R2)', \E lo2, hi2 : Spans(lo2, hi2)'
  PROVE  IInv'
<1>1. Resolves'
  <2>1. PICK R2 : Climbs(R2)'
    OBVIOUS
  <2>2. Searching(R2)'
    BY DEF Searching
  <2>3. QED
    BY <2>1, <2>2 DEF Resolves
<1>2. InOrder'
  BY DEF InOrder
<1>3. QED
  BY <1>1, <1>2 DEF IInv

LEMMA WalkInvariant ==
  ASSUME Scopes, UNCHANGED <<tree, parse>>, NEW R, Climbs(R), NEW lo, NEW hi, Spans(lo, hi),
         Onward(R, lo, hi)
  PROVE  IInv'
<1>1. Climbs(R)' /\ Spans(lo, hi)' /\ Scopes'
  BY Settled
<1>2. Resolves' /\ InOrder'
  BY <1>1 DEF Onward, Resolves, InOrder
<1>3. QED
  BY <1>1, <1>2 DEF Onward, IInv

LEMMA NextInvariant ==
  IInv /\ [Next]_vars => IInv'
<1> SUFFICES ASSUME IInv, [Next]_vars PROVE IInv'
  OBVIOUS
<1>1. Tree /\ Scopes /\ AtRest
  BY DEF IInv
<1>2. PICK R : Climbs(R) /\ Searching(R)
  BY DEF IInv, Resolves
<1>3. PICK lo, hi : Spans(lo, hi) /\ (phase # "parse" => \E V : Walk(V, lo, hi))
  BY DEF IInv, InOrder
<1>4. ASSUME NEW name \in Names, NEW init \in Names \cup {NoUse}, VarDef(name, init)
      PROVE  IInv'
  <2>1. phase' = "parse"
    BY <1>4, ZenonT(30) DEF VarDef, Room
  <2>2. QED
    BY <1>1, <1>2, <1>3, <1>4, <2>1, VarDefTree, VarDefScopes, VarDefRest, VarDefResolves,
       VarDefSpans, ParseInvariant
<1>5. ASSUME NEW name \in Names, NEW params \in Seq(Names), FuncHead(name, params), Distinct(params)
      PROVE  IInv'
  <2>1. phase' = "parse"
    BY <1>5, ZenonT(30) DEF FuncHead, Room
  <2>2. Climbs(R)'
    BY <1>1, <1>2, <1>5, FuncHeadResolves
  <2>3. QED
    BY <1>1, <1>3, <1>5, <2>1, <2>2, FuncHeadTree, FuncHeadScopes, FuncHeadRest,
       FuncHeadSpans, ParseInvariant
<1>6. ASSUME NEW name \in Names, FuncHead(name, <<>>)
      PROVE  IInv'
  <2>1. <<>> \in Seq(Names) /\ Distinct(<<>>)
    BY DEF Distinct
  <2>2. QED
    BY <1>5, <1>6, <2>1
<1>7. ASSUME NEW name \in Names, NEW p \in Names, FuncHead(name, <<p>>)
      PROVE  IInv'
  <2>1. <<p>> \in Seq(Names) /\ Distinct(<<p>>)
    BY DEF Distinct
  <2>2. QED
    BY <1>5, <1>7, <2>1
<1>8. ASSUME NEW name \in Names, NEW p \in Names, NEW q \in Names, p # q, FuncHead(name, <<p, q>>)
      PROVE  IInv'
  <2>1. <<p, q>> \in Seq(Names) /\ Distinct(<<p, q>>)
    BY <1>8 DEF Distinct
  <2>2. QED
    BY <1>5, <1>8, <2>1
<1>9. CASE OpenBlock
  <2>1. phase' = "parse"
    BY <1>9 DEF OpenBlock, Room
  <2>2. Climbs(R)' /\ Spans(lo, hi)'
    BY <1>1, <1>2, <1>3, <1>9, OpenBlockResolves, OpenBlockSpans
  <2>3. QED
    BY <1>1, <1>9, <2>1, <2>2, OpenBlockTree, OpenBlockScopes, OpenBlockRest, ParseInvariant
<1>10. ASSUME NEW name \in Names, Use(name) PROVE IInv'
  <2>1. phase' = "parse"
    BY <1>10 DEF Use, Room
  <2>2. QED
    BY <1>1, <1>2, <1>3, <1>10, <2>1, UseTree, UseScopes, UseRest, UseResolves, UseSpans,
       ParseInvariant
<1>11. CASE CloseBlock
  <2>1. phase' = "parse"
    BY <1>11 DEF CloseBlock
  <2>2. QED
    BY <1>1, <1>2, <1>3, <1>11, <2>1, CloseBlockTree, CloseBlockScopes, CloseBlockRest,
       CloseBlockResolves, CloseBlockSpans, ParseInvariant
<1>12. CASE CloseBody
  <2>1. phase' = "parse"
    BY <1>12 DEF CloseBody
  <2>2. QED
    BY <1>1, <1>2, <1>3, <1>12, <2>1, CloseBodyTree, CloseBodyScopes, CloseBodyRest,
       CloseBodyResolves, CloseBodySpans, ParseInvariant
<1>13. ASSUME Onward(R, lo, hi), UNCHANGED <<tree, parse>> PROVE IInv'
  BY <1>1, <1>2, <1>3, <1>13, WalkInvariant
<1>14. CASE EndParse
  BY <1>1, <1>3, <1>13, <1>14, EndParseStep DEF EndParse
<1>15. ASSUME phase # "parse", VisitAll \/ VisitVar \/ LeaveVar \/ VisitUse \/ FindHere
                               \/ Climb \/ NotFound \/ Return
       PROVE  IInv'
  <2>1. PICK V : Walk(V, lo, hi)
    BY <1>3, <1>15
  <2>2. UNCHANGED <<tree, parse>>
    BY <1>15 DEF VisitAll, VisitVar, LeaveVar, VisitUse, FindHere, Climb, NotFound, Return
  <2>3. Onward(R, lo, hi)
    BY <1>1, <1>2, <1>3, <1>15, <2>1, VisitAllStep, VisitVarStep, LeaveVarStep, VisitUseStep,
       FindHereStep, ClimbStep, NotFoundStep, ReturnStep
  <2>4. QED
    BY <1>13, <2>2, <2>3
<1>16. CASE VisitAll \/ VisitVar \/ LeaveVar \/ VisitUse \/ FindHere \/ Climb \/ NotFound \/ Return
  <2>1. phase # "parse"
    BY <1>16 DEF VisitAll, VisitVar, LeaveVar, VisitUse, Visiting, FindHere, Climb, NotFound, Return
  <2>2. QED
    BY <1>15, <1>16, <2>1
<1>17. CASE UNCHANGED vars
  <2>1. /\ Tree' /\ AtRest' /\ Searching(R)' /\ phase' = phase
        /\ \A V : Walk(V, lo, hi)' <=> Walk(V, lo, hi)
    BY <1>1, <1>2, <1>17, StutterStep
  <2>2. Climbs(R)' /\ Spans(lo, hi)' /\ Scopes'
    BY <1>1, <1>2, <1>3, <1>17, Settled DEF vars
  <2>3. Resolves'
    BY <2>1, <2>2 DEF Resolves
  <2>4. InOrder'
    BY <1>3, <2>1, <2>2 DEF InOrder
  <2>5. QED
    BY <2>1, <2>2, <2>3, <2>4 DEF IInv
<1>18. CASE Stopped
  BY <1>17, <1>18 DEF Stopped
<1>19. QED
  BY <1>4, <1>6, <1>7, <1>8, <1>9, <1>10, <1>11, <1>12, <1>14, <1>16, <1>17, <1>18 DEF Next

(* Every reachable state satisfies the invariant.                          *)
LEMMA Invariant ==
  Spec => []IInv
<1>1. Init => IInv
  BY InitInvariant
<1>2. IInv /\ [Next]_vars => IInv'
  BY NextInvariant
<1>3. QED
  BY <1>1, <1>2, PTL DEF Spec

(* Tables, parents, references and the list to visit stay within the nodes *)
(* ASTManager has handed out (ast_manager.h, ast_manager.cc: AddNode, Link,*)
(* Visit), for every set of names and every bound on the nodes.            *)
THEOREM TypeCorrect ==
  Spec => []TypeOK
<1>1. IInv => TypeOK
  BY DEF IInv, Tree
<1>2. QED
  BY <1>1, Invariant, PTL

-----------------------------------------------------------------------------
(* What the traversal has done when it ends.                               *)

(* It has entered every node.                                              *)
LEMMA AllEntered ==
  ASSUME Tree, phase # "parse", todo = <<>>, NEW V, NEW lo, NEW hi, Walk(V, lo, hi),
         NEW n \in Nodes, n > Unit
  PROVE  n \in V
<1>1. /\ Unit \in V /\ \A p \in V : \A c \in Elems(kids[p]) : c \in V
  <2>1. Elems(todo) = {}
    BY DEF Elems
  <2>2. QED
    BY <2>1 DEF Walk
<1>2. Nodes = 1 .. Len(nodes) /\ Len(nodes) \in Nat /\ Unit \in Nodes
  BY Basics
<1>3. \A c \in Nodes : c > Unit => /\ parent[c] # NoNode /\ ShapeBelow(c) /\ parent[c] \in Nodes
  BY Parsed, ParentIsNode DEF Tree, Shape
<1>4. \A c \in Nodes : c > Unit =>
        /\ c \in Elems(kids[parent[c]])
        /\ \/ parent[c] = Unit
           \/ parent[c] > c
           \/ parent[c] > Unit /\ parent[parent[c]] = Unit
  BY <1>3 DEF ShapeBelow
<1>5. \A c \in Nodes : c > Unit /\ parent[c] \in V => c \in V
  BY <1>1, <1>4
<1>6. PICK T : T = {c \in Nodes : c > Unit /\ c \notin V}
  OBVIOUS
<1>7. SUFFICES ASSUME T # {} PROVE FALSE
  BY <1>6
<1>8. PICK x \in T : \A y \in T : y <= x
  BY <1>2, <1>6, <1>7, GreatestBelow
<1>9. x \in Nodes /\ x > Unit /\ x \notin V
  BY <1>6
<1>10. PICK p \in Nodes : p = parent[x]
  BY <1>3, <1>9
<1>11. p \notin V
  BY <1>5, <1>9, <1>10
<1>12. CASE p = Unit
  BY <1>1, <1>11, <1>12
<1>13. CASE p > x
  <2>1. p > Unit
    BY <1>2, <1>9, <1>13
  <2>2. p \in T
    BY <1>6, <1>11, <2>1
  <2>3. p <= x
    BY <1>8, <2>2
  <2>4. QED
    BY <1>2, <1>9, <1>13, <2>3
<1>14. CASE p > Unit /\ parent[p] = Unit
  BY <1>1, <1>5, <1>11, <1>14
<1>15. QED
  BY <1>4, <1>9, <1>10, <1>12, <1>13, <1>14

(* A reference, once set, is the declaration that the scopes open at the   *)
(* use gave its name; FindRef throws only when there is none; and when     *)
(* Visit of the root has returned, no use is left without its reference    *)
(* (ast_manager.cc: FindRef, CompoundStmt::Visit, TranslationUnit::Visit). *)
THEOREM ReferencesAreLexical ==
  Spec => []RefIsLexical
<1>1. IInv => RefIsLexical
  <2> SUFFICES ASSUME IInv PROVE RefIsLexical
    OBVIOUS
  <2>1. Tree /\ AtRest
    BY DEF IInv
  <2>2. ASSUME phase = "done", NEW u \in Uses PROVE ref[u] # NoNode
    <3>1. phase # "parse" /\ todo = <<>>
      BY <2>1, <2>2 DEF AtRest
    <3>2. PICK lo, hi, V : Walk(V, lo, hi)
      BY <3>1 DEF IInv, InOrder
    <3>3. u \in Nodes /\ Kind(u) = "use"
      BY DEF Uses
    <3>4. u > Unit
      BY <2>1, <3>1, <3>3, Parsed
    <3>5. u \in V
      BY <2>1, <3>1, <3>2, <3>3, <3>4, AllEntered
    <3>6. QED
      BY <3>2, <3>3, <3>5 DEF Walk
  <2>3. QED
    BY <2>1, <2>2 DEF RefIsLexical, AtRest
<1>2. QED
  BY <1>1, Invariant, PTL

-----------------------------------------------------------------------------
(* What is visited when a reference is found.                              *)

(* A declaration read before the head of the list lies below none of the   *)
(* nodes on it.                                                            *)
LEMMA NotPending ==
  ASSUME Tree, NEW V, NEW lo, NEW hi, Spans(lo, hi), Walk(V, lo, hi), todo # <<>>,
         NEW u \in Uses, u = todo[1], NEW a \in Nat, a < IdentOf(u),
         NEW n \in Nodes, lo[n] <= a, a <= hi[n]
  PROVE  n \notin Elems(todo)
<1>1. SUFFICES ASSUME NEW i \in DOMAIN todo, todo[i] = n PROVE FALSE
  BY DEF Elems
<1>2. todo \in Seq(Pending) /\ Len(todo) > 0 /\ DOMAIN todo = 1 .. Len(todo) /\ 1 \in DOMAIN todo
  BY HeadFacts
<1>3. /\ u \in Nodes /\ Kind(u) = "use" /\ IdentOf(u) \in Int
      /\ lo[u] \in Int /\ hi[u] \in Int /\ lo[n] \in Int /\ hi[n] \in Int
  BY SpanFacts, EntryTypes DEF EntriesTyped, IdentOf, Uses
<1>4. lo[u] <= IdentOf(u) /\ IdentOf(u) <= hi[u] /\ lo[u] = hi[u]
  BY <1>3 DEF Spans, SpanAt
<1>5. CASE i = 1
  BY <1>1, <1>3, <1>4, <1>5
<1>6. CASE i # 1
  <2>1. 1 < i
    BY <1>2, <1>6
  <2>2. u > 0 /\ n > 0
    BY SMTT(30), <1>3, Basics
  <2>3. todo[1] > 0 /\ todo[i] > 0
    BY <1>1, <2>2
  <2>4. hi[todo[1]] < lo[todo[i]]
    BY <1>2, <2>1, <2>3 DEF Walk
  <2>5. hi[u] < lo[n]
    BY <1>1, <2>4
  <2>6. QED
    BY <1>3, <1>4, <2>5
<1>7. QED
  BY <1>5, <1>6

(* So the traversal has entered it.                                        *)
LEMMA EarlierEntered ==
  ASSUME Tree, phase # "parse", NEW V, NEW lo, NEW hi, Spans(lo, hi), Walk(V, lo, hi),
         todo # <<>>, NEW u \in Uses, u = todo[1],
         NEW d \in Nodes, Kind(d) = "var", IdentOf(d) < IdentOf(u)
  PROVE  d \in V
<1>1. PICK a \in Nat : a = IdentOf(d)
  BY Basics DEF IdentOf, NodeSet
<1>2. Nodes = 1 .. Len(nodes) /\ Len(nodes) \in Nat /\ Unit \in Nodes
  BY Basics
<1>3. \A n \in Nodes : lo[n] <= a /\ a <= hi[n] => n \notin Elems(todo)
  BY <1>1, NotPending
<1>4. /\ Unit \in V /\ \A p \in V : \A n \in Elems(kids[p]) : n \in V \/ n \in Elems(todo)
  BY DEF Walk
<1>5. \A c \in Nodes : c > Unit => /\ parent[c] # NoNode /\ ShapeBelow(c) /\ parent[c] \in Nodes
  BY Parsed, ParentIsNode DEF Tree, Shape
<1>6. \A c \in Nodes : c > Unit =>
        /\ c \in Elems(kids[parent[c]])
        /\ \/ parent[c] = Unit
           \/ parent[c] > c
           \/ parent[c] > Unit /\ parent[parent[c]] = Unit
  BY <1>5 DEF ShapeBelow
<1>7. \A n \in Nodes : lo[n] \in Int /\ hi[n] \in Int
  BY SpanFacts
<1>8. PICK T : T = {n \in Nodes : n > Unit /\ n \notin V /\ lo[n] <= a /\ a <= hi[n]}
  OBVIOUS
<1>9. \A n \in T : parent[n] \notin V
  BY <1>3, <1>4, <1>6, <1>8
(* The span of a node that is not the unit holds those of its children.    *)
<1>10. \A n \in T : parent[n] > Unit => parent[n] \in T
  <2> SUFFICES ASSUME NEW n \in T, parent[n] > Unit PROVE parent[n] \in T
    OBVIOUS
  <2>1. n \in Nodes /\ n > Unit /\ lo[n] <= a /\ a <= hi[n]
    BY <1>8
  <2>2. PICK p \in Nodes : p = parent[n] /\ p > Unit /\ p \notin V
    BY <1>5, <1>9, <2>1
  <2>3. p # Unit /\ n \in Elems(kids[p])
    BY <1>2, <1>6, <2>1, <2>2
  <2>4. lo[p] <= lo[n] /\ hi[n] <= hi[p]
    BY <2>3 DEF Spans, SpanAt
  <2>5. lo[p] <= a /\ a <= hi[p]
    BY <1>7, <2>1, <2>4
  <2>6. QED
    BY <1>8, <2>2, <2>5
<1>11. SUFFICES ASSUME d \notin V PROVE FALSE
  OBVIOUS
<1>12. d \in T
  <2>1. d > Unit
    BY Parsed
  <2>2. lo[d] <= a /\ a <= hi[d]
    BY <1>1 DEF Spans, SpanAt
  <2>3. QED
    BY <1>8, <1>11, <2>1, <2>2
<1>13. T \in SUBSET (1 .. Len(nodes)) /\ T # {}
  BY <1>2, <1>8, <1>12
<1>14. PICK x \in T : \A y \in T : y <= x
  BY <1>2, <1>13, GreatestBelow
<1>15. x \in Nodes /\ x > Unit
  BY <1>8
<1>16. PICK p \in Nodes : p = parent[x] /\ p \notin V
  BY <1>5, <1>9, <1>15
<1>17. CASE p = Unit
  BY <1>4, <1>16, <1>17
<1>18. CASE p > x
  <2>1. p > Unit
    BY <1>2, <1>15, <1>18
  <2>2. p <= x
    BY <1>10, <1>14, <1>16, <2>1
  <2>3. QED
    BY <1>2, <1>15, <1>18, <2>2
<1>19. CASE p > Unit /\ parent[p] = Unit
  <2>1. p \in T
    BY <1>10, <1>16, <1>19
  <2>2. QED
    BY <1>4, <1>9, <1>19, <2>1
<1>20. QED
  BY <1>6, <1>15, <1>16, <1>17, <1>18, <1>19

(* The step that finds the reference of u.                                 *)
LEMMA ReadyStep ==
  ASSUME IInv, FindHere, NEW u \in Uses, ref[u] = NoNode, NEW d, d = ref'[u],
         d # NoNode, Kind(d) = "var"
  PROVE  d \in finished \/ parent[u] = d
<1>1. Tree /\ phase = "find" /\ phase # "parse"
  BY DEF IInv, FindHere
<1>2. PICK R : Climbs(R) /\ Searching(R)
  BY DEF IInv, Resolves
<1>3. todo # <<>> /\ Head(todo) \in Uses /\ cur \in Nodes
  BY <1>1, <1>2 DEF Searching
<1>4. PICK h \in Uses : h = Head(todo) /\ h = todo[1]
  BY <1>1, <1>3, HeadFacts
<1>5. FoundAt(h, cur) /\ ref' = [ref EXCEPT ![h] = table[cur][NameOf(h)]]
  BY <1>4 DEF FindHere
<1>6. ref \in [Nodes -> Nodes \cup {NoNode}] /\ h \in Nodes /\ u \in Nodes
  BY <1>1, Basics, UseFacts
<1>7. u = h
  BY <1>5, <1>6
<1>8. d = table[cur][NameOf(h)]
  BY <1>5, <1>6, <1>7
<1>9. d \in Nodes
  BY <1>1, <1>3, <1>8, EntryTypes, UseFacts DEF EntriesTyped
<1>10. IdentOf(d) < IdentOf(u)
  <2>1. IdentOf(u) > IdentOf(d)
    BY <1>5, <1>7, <1>8 DEF FoundAt
  <2>2. IdentOf(d) \in Int /\ IdentOf(u) \in Int
    BY <1>1, <1>6, <1>9, EntryTypes DEF EntriesTyped, IdentOf
  <2>3. QED
    BY <2>1, <2>2
<1>11. PICK lo, hi, V : Spans(lo, hi) /\ Walk(V, lo, hi)
  BY <1>1 DEF IInv, InOrder
<1>12. d \in V
  BY <1>1, <1>3, <1>4, <1>7, <1>9, <1>10, <1>11, EarlierEntered
<1>13. d \in finished \/ -d \in Elems(todo)
  BY <1>11, <1>12 DEF Walk
<1>14. ASSUME NEW i \in DOMAIN todo, todo[i] = -d PROVE parent[u] = d
  <2>1. d \in Int /\ d > 0 /\ u > 0 /\ u \in Int
    BY <1>1, <1>6, <1>9, Basics
  <2>2. todo[i] < 0
    BY <1>14, <2>1
  <2>3. i # 1
    BY <1>4, <1>7, <2>1, <2>2
  <2>4. i = 2 /\ parent[todo[1]] = -todo[2]
    BY <1>11, <2>2, <2>3 DEF Walk
  <2>5. parent[u] = -(-d)
    BY <1>4, <1>7, <1>14, <2>4
  <2>6. QED
    BY <2>1, <2>5
<1>15. QED
  BY <1>13, <1>14 DEF Elems

(* When the reference of a use is found, the Visit of the variable it      *)
(* names has returned, so the initialiser that CalculateValue reads there  *)
(* is finished, unless the use is part of that initialiser                 *)
(* (ast_manager.cc: VarDecl::Visit, DeclRefExpr::Visit).                   *)
THEOREM InitialisersAreReady ==
  Spec => InitialiserReady
<1> DEFINE Ready == \A u \in Uses :
                      LET d == ref'[u]
                      IN ref[u] = NoNode /\ d # NoNode /\ Kind(d) = "var" =>
                           d \in finished \/ parent[u] = d
<1>1. IInv /\ [Next]_vars => [Ready]_vars
  <2> SUFFICES ASSUME IInv, Next, NEW u \in Uses, NEW d, d = ref'[u],
                      ref[u] = NoNode, d # NoNode, Kind(d) = "var"
               PROVE  d \in finished \/ parent[u] = d
    BY Zenon
  <2>1. Tree /\ Scopes /\ u \in Nodes
    BY UseFacts DEF IInv
  <2>2. ~Grows
    BY <2>1 DEF Grows, Stays
  <2>3. ref' # ref
    OBVIOUS
  <2>4. \A name \in Names, init \in Names \cup {NoUse} : ~VarDef(name, init)
    BY <2>1, <2>2, VarDefTree
  <2>5. \A name \in Names, params \in Seq(Names) : ~FuncHead(name, params)
    BY <2>1, <2>2, FuncHeadTree
  <2>6. /\ \A name \in Names : ~FuncHead(name, <<>>)
        /\ \A name, p \in Names : ~FuncHead(name, <<p>>)
        /\ \A name, p, q \in Names : ~FuncHead(name, <<p, q>>)
    <3>1. /\ <<>> \in Seq(Names)
          /\ \A p \in Names : <<p>> \in Seq(Names)
          /\ \A p, q \in Names : <<p, q>> \in Seq(Names)
      OBVIOUS
    <3>2. QED
      BY <2>5, <3>1
  <2>7. ~OpenBlock /\ ~CloseBlock /\ ~CloseBody /\ \A name \in Names : ~Use(name)
    BY <2>1, <2>2, OpenBlockTree, CloseBlockTree, CloseBodyTree, UseTree
  <2>8. ~EndParse /\ ~VisitAll /\ ~VisitVar /\ ~LeaveVar /\ ~VisitUse /\ ~Climb
    BY <2>3 DEF EndParse, VisitAll, VisitVar, LeaveVar, VisitUse, Climb
  <2>9. ~NotFound /\ ~Return /\ ~Stopped
    BY <2>3 DEF NotFound, Return, Stopped, vars, walk
  <2>10. FindHere
    BY <2>4, <2>6, <2>7, <2>8, <2>9 DEF Next
  <2>11. QED
    BY <2>10, ReadyStep
<1> HIDE DEF Ready
<1>2. Spec => [][Ready]_vars
  BY <1>1, Invariant, PTL DEF Spec
<1>3. QED
  BY <1>2 DEF InitialiserReady, Ready
=============================================================================
