---------------------------- MODULE Initialisers ----------------------------
(***************************************************************************)
(* The initialiser of an array, from the braces of the source to memory:   *)
(* the parser's lists, InitListExpr::Format and the maps of a formatted    *)
(* list (src/src/frontend/ast_manager.cc), the IR of a global and of a     *)
(* local array (src/src/frontend/ast_to_ir.cc) and the directives of a     *)
(* global one (src/src/backend/asm.cc, instruction.cc).                    *)
(*                                                                         *)
(* The meaning of the initialiser (cells) is built beside the parser, one  *)
(* token at a time, by the rule of the language: a value goes to the next  *)
(* cell, a brace takes the largest element of the array it stands in that  *)
(* begins there, what is not named is zero.                                *)
(*                                                                         *)
(* A value is a number: 0, or one that tells it from the other values of   *)
(* the list.  Whether it is a constant does not matter here: a global's    *)
(* are, a local's are stored one by one either way.  Left out: braces      *)
(* around a single int, and lists with more values than cells.             *)
(*                                                                         *)
(* A definition whose name has a suffix after an underscore is a wrong     *)
(* form of the one that follows it, which no action uses.                  *)
(***************************************************************************)
EXTENDS Integers, SequencesExt

CONSTANT
  ArrayTypes      (* sequences of dimensions                               *)

ASSUME ArrayTypesAssumption == ArrayTypes \subseteq Seq(Nat \ {0}) \ {<<>>}

VARIABLES
  dims,       (* of the array                                              *)
  open,       (* the items of each list whose brace is open                *)
  at,         (* of each such list: its first cell, the next cell, the     *)
              (* dimension it stands for, and was there a brace in the     *)
              (* middle of an element?                                     *)
  cut,        (* has a list gone on after such a brace?                    *)
  cells,      (* what each cell shall hold                                 *)
  init,       (* VarDecl: its initialiser                                  *)
  phase,
  todo,       (* values the loop that runs has not reached yet             *)
  out,        (* GlobalVar::Dump: the directives written                   *)
  space,      (* GlobalVar::Dump: bytes of zero not written yet            *)
  memory,     (* a local array: its cells                                  *)
  offset      (* TranslateLocalVarDecl: the cell to store to               *)

parse  == <<dims, open, at, cut, cells>>
lower  == <<todo, out, space, memory, offset>>
vars   == <<parse, init, phase, lower>>

-----------------------------------------------------------------------------
Undef == -1

Size(format) == FoldLeft(LAMBDA a, b : a * b, 1, format)
Zeros(n) == [i \in 1 .. n |-> 0]

(* Nodes: values and InitListExpr.                                         *)
Value(v) == [kind |-> "value", value |-> v]
List(list, format, filler) ==
  [kind |-> "list", list |-> list, format |-> format, filler |-> filler]
IsList(e) == e.kind = "list"
NoInit == [kind |-> "none"]

(* Expr::GetValue: an InitListExpr keeps the 0 of its constructor.         *)
GetValue(e) == IF IsList(e) THEN 0 ELSE e.value

-----------------------------------------------------------------------------
(* InitListExpr::Format.                                                   *)
RECURSIVE Format(_, _)

(* The elements of the array from position i of the list on, n of them to  *)
(* come: a value starts a run as long as the element, a list stands for    *)
(* the element, and what is missing is a filler.                           *)
RECURSIVE Elements(_, _, _, _)
Elements_RunByOne(list, i, n, sub) ==
  LET last == IF i + Size(sub) - 1 < Len(list) THEN i + Size(sub) - 1
              ELSE Len(list)
  IN IF n = 0 THEN <<>>
     ELSE << IF i > Len(list) THEN List(<<>>, sub, TRUE)
             ELSE IF IsList(list[i]) THEN Format(list[i].list, sub)
             ELSE Format(SubSeq(list, i, last), sub) >>
          \o Elements(list, i + 1, n - 1, sub)
Elements(list, i, n, sub) ==
  LET InRun == i <= Len(list) /\ ~IsList(list[i])
      last  == IF i + Size(sub) - 1 < Len(list) THEN i + Size(sub) - 1
               ELSE Len(list)
  IN IF n = 0 THEN <<>>
     ELSE << IF i > Len(list) THEN List(<<>>, sub, TRUE)
             ELSE IF InRun THEN Format(SubSeq(list, i, last), sub)
             ELSE Format(list[i].list, sub) >>
          \o Elements(list, IF InRun THEN i + Size(sub) ELSE i + 1, n - 1, sub)

Format_OneMore(list, format) ==
  IF list = <<>> THEN List(list, format, TRUE)
  ELSE IF Len(format) = 1
       THEN List([i \in 1 .. format[1] + 1 |->
                    IF i <= Len(list) THEN list[i] ELSE Value(0)], format, FALSE)
  ELSE List(Elements(list, 1, Head(format), Tail(format)), format, FALSE)
Format(list, format) ==
  IF list = <<>> THEN List(list, format, TRUE)
  ELSE IF Len(format) = 1
       THEN List([i \in 1 .. format[1] |->
                    IF i <= Len(list) THEN list[i] ELSE Value(0)], format, FALSE)
  ELSE List(Elements(list, 1, Head(format), Tail(format)), format, FALSE)

(* InitListExpr::GetInitMap: the value of every cell.                      *)
RECURSIVE GetInitMap(_)
GetInitMap(l) ==
  IF l.filler THEN Zeros(Size(l.format))
  ELSE IF Len(l.format) = 1
       THEN [i \in DOMAIN l.list |-> GetValue(l.list[i])]
  ELSE FlattenSeq([i \in DOMAIN l.list |-> GetInitMap(l.list[i])])

(* InitListExpr::GetInitMapExpr: the expression for every cell, or none.   *)
RECURSIVE GetInitMapExpr(_)
GetInitMapExpr_ShortFiller(l) ==
  IF l.filler THEN [i \in 1 .. Head(l.format) |-> NoInit]
  ELSE IF Len(l.format) = 1 THEN l.list
  ELSE FlattenSeq([i \in DOMAIN l.list |-> GetInitMapExpr(l.list[i])])
GetInitMapExpr(l) ==
  IF l.filler THEN [i \in 1 .. Size(l.format) |-> NoInit]
  ELSE IF Len(l.format) = 1 THEN l.list
  ELSE FlattenSeq([i \in DOMAIN l.list |-> GetInitMapExpr(l.list[i])])

(* InitListExpr::GetInitValue, of an element named by constant indices.    *)
RECURSIVE GetInitValue(_, _)
GetInitValue(l, index) ==
  IF l.filler THEN 0
  ELSE IF Len(index) = 1 THEN GetValue(l.list[index[1] + 1])
  ELSE GetInitValue(l.list[Head(index) + 1], Tail(index))

-----------------------------------------------------------------------------
(* The parser.  A list of the dimension k stands for an array whose        *)
(* dimensions are those from the k-th on.                                  *)
Extent(k)  == Size(SubSeq(dims, k, Len(dims)))
Depth      == Len(open)
Inner      == at[Depth]
Full       == Inner.next = Inner.base + Extent(Inner.dim)
Place(base, next, dim, mid) == [base |-> base, next |-> next, dim |-> dim, mid |-> mid]
SetInner(p) == [at EXCEPT ![Depth] = p]

Init ==
  /\ dims \in ArrayTypes
  /\ open = <<>>
  /\ at = <<>>
  /\ cut = FALSE
  /\ cells = Zeros(Size(dims))
  /\ init = NoInit
  /\ phase = "parse"
  /\ todo = <<>>
  /\ out = <<>>
  /\ space = 0
  /\ memory = [i \in DOMAIN cells |-> Undef]
  /\ offset = 0

(* VarDef without "="                                                      *)
WithoutInit ==
  /\ phase = "parse"
  /\ open = <<>>
  /\ phase' = "visited"
  /\ UNCHANGED <<parse, init, lower>>

FirstBrace ==
  /\ phase = "parse"
  /\ open = <<>>
  /\ open' = << <<>> >>
  /\ at' = << Place(0, 0, 1, FALSE) >>
  /\ UNCHANGED <<dims, cut, cells, init, phase, lower>>

Startable == {k \in Inner.dim + 1 .. Len(dims) :
                (Inner.next - Inner.base) % Extent(k) = 0}

OpenBrace ==
  /\ phase = "parse"
  /\ Depth > 0
  /\ ~Full
  /\ Startable # {}
  /\ LET k == Min(Startable)
     IN at' = Append(SetInner(Place(Inner.base, Inner.next, Inner.dim,
                                    Inner.mid \/ k # Inner.dim + 1)),
                     Place(Inner.next, Inner.next, k, FALSE))
  /\ cut' = (cut \/ Inner.mid)
  /\ open' = Append(open, <<>>)
  /\ UNCHANGED <<dims, cells, init, phase, lower>>

(* InitItem: Exp.  v tells the value from those of the other cells.        *)
Item(v) ==
  /\ phase = "parse"
  /\ Depth > 0
  /\ ~Full
  /\ v \in {0, Inner.next + 1}
  /\ open' = [open EXCEPT ![Depth] = Append(@, Value(v))]
  /\ at' = SetInner(Place(Inner.base, Inner.next + 1, Inner.dim, Inner.mid))
  /\ cells' = [cells EXCEPT ![Inner.next + 1] = v]
  /\ cut' = (cut \/ Inner.mid)
  /\ UNCHANGED <<dims, init, phase, lower>>

CloseBrace ==
  /\ phase = "parse"
  /\ Depth > 1
  /\ open' = [Front(open) EXCEPT
                ![Depth - 1] = Append(@, List(open[Depth], <<>>, FALSE))]
  /\ LET outer == at[Depth - 1]
     IN at' = [Front(at) EXCEPT
                 ![Depth - 1] = Place(outer.base, outer.next + Extent(Inner.dim),
                                      outer.dim, outer.mid)]
  /\ UNCHANGED <<dims, cut, cells, init, phase, lower>>

LastBrace ==
  /\ phase = "parse"
  /\ Depth = 1
  /\ init' = List(open[1], <<>>, FALSE)
  /\ open' = <<>>
  /\ at' = <<>>
  /\ phase' = "parsed"
  /\ UNCHANGED <<dims, cut, cells, lower>>

-----------------------------------------------------------------------------
(* VarDecl::Visit of an array with an initialiser.                         *)
Visit ==
  /\ phase = "parsed"
  /\ init' = Format(init.list, dims)
  /\ phase' = "visited"
  /\ UNCHANGED <<parse, lower>>

(* TranslateGlobalVarDecl, then TranslateGlobalVar of the back end: the    *)
(* values of a global array, which is zero without a list.                 *)
TranslateGlobalVarDecl ==
  /\ phase = "visited"
  /\ todo' = IF init = NoInit THEN Zeros(Size(dims))
             ELSE IF init.list = <<>> THEN Zeros(Size(dims))
             ELSE GetInitMap(init)
  /\ phase' = "dump"
  /\ UNCHANGED <<parse, init, out, space, memory, offset>>

(* GlobalVar::Dump: a run of zeros becomes one .space.                     *)
Word(v)    == [directive |-> "word", arg |-> v]
Space(n)   == [directive |-> "space", arg |-> n]
Pending    == IF space # 0 THEN << Space(space) >> ELSE <<>>

DumpZero ==
  /\ phase = "dump"
  /\ todo # <<>>
  /\ Head(todo) = 0
  /\ space' = space + 4
  /\ todo' = Tail(todo)
  /\ UNCHANGED <<parse, init, phase, out, memory, offset>>

DumpValue_KeepsSpace ==
  /\ phase = "dump"
  /\ todo # <<>>
  /\ Head(todo) # 0
  /\ out' = out \o Pending \o << Word(Head(todo)) >>
  /\ todo' = Tail(todo)
  /\ UNCHANGED <<parse, init, phase, space, memory, offset>>
DumpValue ==
  /\ phase = "dump"
  /\ todo # <<>>
  /\ Head(todo) # 0
  /\ out' = out \o Pending \o << Word(Head(todo)) >>
  /\ space' = 0
  /\ todo' = Tail(todo)
  /\ UNCHANGED <<parse, init, phase, memory, offset>>

DumpEnd ==
  /\ phase = "dump"
  /\ todo = <<>>
  /\ out' = out \o Pending
  /\ phase' = "dumped"
  /\ UNCHANGED <<parse, init, todo, space, memory, offset>>

(* TranslateLocalVarDecl: the loop of its getelementptr and store.         *)
TranslateLocalVarDecl ==
  /\ phase = "visited"
  /\ init # NoInit
  /\ todo' = GetInitMapExpr(init)
  /\ offset' = 0
  /\ phase' = "store"
  /\ UNCHANGED <<parse, init, out, space, memory>>

Store ==
  /\ phase = "store"
  /\ todo # <<>>
  /\ memory' = [memory EXCEPT ![offset + 1] =
                  IF Head(todo) = NoInit THEN 0 ELSE GetValue(Head(todo))]
  /\ offset' = offset + 1
  /\ todo' = Tail(todo)
  /\ UNCHANGED <<parse, init, phase, out, space>>

StoreEnd ==
  /\ phase = "store"
  /\ todo = <<>>
  /\ phase' = "stored"
  /\ UNCHANGED <<parse, init, lower>>

Stopped == phase \in {"dumped", "stored"} /\ UNCHANGED vars

Next ==
  \/ WithoutInit
  \/ FirstBrace
  \/ OpenBrace
  \/ \E v \in 0 .. Size(dims) : Item(v)
  \/ CloseBrace
  \/ LastBrace
  \/ Visit
  \/ TranslateGlobalVarDecl
  \/ DumpZero
  \/ DumpValue
  \/ DumpEnd
  \/ TranslateLocalVarDecl
  \/ Store
  \/ StoreEnd
  \/ Stopped

Spec == Init /\ [][Next]_vars

-----------------------------------------------------------------------------
(* The cells of an array and where its elements lie, the last index        *)
(* varying fastest.                                                        *)
Indices == {index \in [DOMAIN dims -> 0 .. Size(dims)] :
              \A k \in DOMAIN dims : index[k] < dims[k]}
CellOf(index) ==
  FoldLeftDomain(LAMBDA c, k : c * dims[k] + index[k], 0, dims)

(* What the directives put into memory.                                    *)
Loaded(directives) ==
  FlattenSeq([i \in DOMAIN directives |->
                IF directives[i].directive = "word" THEN << directives[i].arg >>
                ELSE Zeros(directives[i].arg \div 4)])

TypeOK ==
  /\ dims \in ArrayTypes
  /\ Depth <= Len(dims)
  /\ Len(at) = Depth
  /\ \A k \in DOMAIN at :
       /\ at[k].dim \in DOMAIN dims /\ at[k].mid \in BOOLEAN
       /\ at[k].next \in at[k].base .. at[k].base + Extent(at[k].dim)
       /\ at[k].base + Extent(at[k].dim) <= Size(dims)
  /\ cut \in BOOLEAN
  /\ cells \in [1 .. Size(dims) -> 0 .. Size(dims)]
  /\ phase \in {"parse", "parsed", "visited", "dump", "dumped", "store", "stored"}
  /\ space \in 0 .. 4 * Size(dims)
  /\ offset \in 0 .. Size(dims)
  /\ memory \in [1 .. Size(dims) -> Undef .. Size(dims)]

(* A constant index into a constant array reads the cell that the          *)
(* initialiser gives to that element, whichever way its braces are set     *)
(* (ast_manager.cc: Format, GetInitValue); but not when a list goes on     *)
(* after a brace that stands in the middle of an element: Format takes as  *)
(* many items for the element as it has cells, the brace for one of them,  *)
(* and drops those that are left, 5 in {1, 2, {3, 4}, 5} of int[2][2][2].  *)
ElementsFound ==
  phase \notin {"parse", "parsed"} /\ init # NoInit /\ ~cut =>
    \A index \in Indices : GetInitValue(init, index) = cells[CellOf(index) + 1]

(* At every turn of GlobalVar::Dump the directives written, the zeros      *)
(* pending and the values to come are the array; at the end the directives *)
(* are (instruction.cc: Dump; ast_manager.cc: GetInitMap).                 *)
WordsInPlace ==
  ~cut =>
    /\ phase = "dump" => Loaded(out) \o Zeros(space \div 4) \o todo = cells
    /\ phase = "dumped" => Loaded(out) = cells

(* The stores of a local array go up cell by cell, each value to its own,  *)
(* and leave none unwritten (ast_to_ir.cc: TranslateLocalVarDecl;          *)
(* ast_manager.cc: GetInitMapExpr).                                        *)
StoresInPlace ==
  ~cut =>
    /\ phase = "store" => \A i \in 1 .. offset : memory[i] = cells[i]
    /\ phase = "stored" => memory = cells
=============================================================================
