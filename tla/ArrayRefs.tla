----------------------------- MODULE ArrayRefs -----------------------------
(***************************************************************************)
(* References to arrays: the address of an element, and the arrays and     *)
(* parts of arrays that are passed from function to function               *)
(* (TranslateDeclRefExpr, src/src/frontend/ast_to_ir.cc).                  *)
(*                                                                         *)
(* One array is followed from the function that declares it through any    *)
(* chain of calls, under the name that each callee gives to its parameter. *)
(* Beside the pointer that the IR has for the name stands what the name    *)
(* means in the source: a part of the array, by its first cell and its     *)
(* dimensions.  What the array holds is the subject of Initialisers and    *)
(* plays no part here, so the array followed is one without initialiser.   *)
(***************************************************************************)
EXTENDS Initialisers

VARIABLES
  name,      (* "var" or "param": what the array's name refers to          *)
  pointer,   (* the cell that the name's pointer points to                 *)
  pointee,   (* the dimensions of its pointee, none for an int             *)
  passed,    (* the pointee of the argument that the parameter was given   *)
  meant,     (* the name's part of the array: first cell and dimensions    *)
  astray     (* has a part of a parameter been passed on?                  *)

refs == <<name, pointer, pointee, passed, meant, astray>>

Drop(n, s) == SubSeq(s, n + 1, Len(s))

RefInit ==
  /\ Init
  /\ name = "var"
  /\ pointer = 0 /\ pointee = dims /\ passed = dims
  /\ meant = [cell |-> 0, dims |-> dims]
  /\ astray = FALSE

(* The cells from a multiple index of an array of these dimensions on:     *)
(* the last index varies fastest.                                          *)
Offset(format, index) ==
  FoldLeftDomain(LAMBDA c, k : c + index[k] * Size(Drop(k, format)), 0, index)

IndexLists(format, n) ==
  {index \in [1 .. n -> 0 .. Size(dims)] :
     \A k \in 1 .. n : index[k] < format[k]}

(* getelementptr: the first index counts pointees, the others go into one. *)
Getelementptr(idx_list) == pointer + Offset(<<1>> \o pointee, idx_list)

(* The pointer of a variable points to the whole array, that of a          *)
(* parameter, which is loaded first, to its first element.                 *)
IdxList_NoZero(index) == index
IdxList(index) == IF name = "var" THEN <<0>> \o index ELSE index

AddressOf(index) == Getelementptr(IdxList(index))

Referable == phase = "visited" /\ init = NoInit

(* A call passes the part of the array that the index names: a pointer to  *)
(* its first element.                                                      *)
Pass(index, cell, type) ==
  LET part == Drop(Len(index), meant.dims) IN
  /\ pointer' = cell
  /\ passed' = type
  /\ name' = "param"
  /\ pointee' = Tail(part)
  /\ meant' = [cell |-> meant.cell + Offset(meant.dims, index), dims |-> part]
  /\ UNCHANGED vars

PassVar(index) ==
  LET idx_list == IdxList(index) \o <<0>> IN
  /\ name = "var"
  /\ Pass(index, Getelementptr(idx_list),
          IF Len(pointee) - Len(index) = 1 THEN <<>>
          ELSE Drop(Len(idx_list) - 1, pointee))
  /\ UNCHANGED astray

(* The index is not looked at.                                             *)
PassParam(index) ==
  /\ name = "param"
  /\ Pass(index, pointer, pointee)
  /\ astray' = (astray \/ index # <<>>)

RefNext ==
  \/ Next /\ UNCHANGED refs
  \/ Referable /\ \E n \in 0 .. Len(meant.dims) - 1 : \E index \in IndexLists(meant.dims, n) :
       PassVar(index) \/ PassParam(index)

RefSpec == RefInit /\ [][RefNext]_<<vars, refs>>

(* Through whatever calls a part of an array has gone, an element of the   *)
(* parameter is the element of the array that the source names, and the    *)
(* argument has the type that the callee declares; unless a part of a      *)
(* parameter, as a[1] of int a[][3], was passed on, for which the code     *)
(* passes the whole parameter.                                             *)
ElementsAddressed ==
  Referable /\ ~astray =>
    /\ passed = pointee
    /\ \A index \in IndexLists(meant.dims, Len(meant.dims)) :
         AddressOf(index) = meant.cell + Offset(meant.dims, index)
=============================================================================
