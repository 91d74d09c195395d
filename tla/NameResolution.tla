-------------------------- MODULE NameResolution --------------------------
(***************************************************************************)
(* Scopes and references: the tree that src/src/frontend/sysy.y builds     *)
(* from the leaves up, its identifier tables, and the traversal after the  *)
(* parse that finds what each name refers to (src/src/frontend/            *)
(* ast_manager.cc, Link, Visit and FindRef).                               *)
(*                                                                         *)
(* The tables are complete before the first name is looked up, so the      *)
(* order of declarations within a scope survives only as the positions of  *)
(* their identifiers.  env and meant are history: the scopes open at the   *)
(* point the parser has reached, and what a use means there.               *)
(*                                                                         *)
(* Nodes that keep no identifiers and only pass Link and Visit on to their *)
(* children (DeclStmt, IfStmt, WhileStmt, ReturnStmt, the operators) are   *)
(* left out: their children hang on the next node above.  A use stands for *)
(* DeclRefExpr and CallExpr, whose FindRef is the same.  Initialisers hold *)
(* one use or none; dimensions are initialisers here, what FindRef does    *)
(* does not depend on the place in the declaration.                        *)
(*                                                                         *)
(* A definition whose name has a suffix after an underscore is a wrong     *)
(* form of the one that follows it, which no action uses.                  *)
(***************************************************************************)
EXTENDS Integers, Sequences, FiniteSets

CONSTANTS
  Names,        (* the identifiers                                         *)
  Builtin,      (* the name of a function of the run-time library          *)
  NoUse,        (* an initialiser that names nothing, or none              *)
  MaxNodes      (* bound on the number of nodes                            *)

ASSUME NamesAssumption ==
  /\ Builtin \in Names
  /\ NoUse \notin Names
ASSUME MaxNodesAssumption == MaxNodes \in Nat

VARIABLES
  (* class ASTManager and its nodes, numbered from 1                       *)
  nodes,        (* kind, identifier and its position in the token table    *)
  parent,       (* 0: none                                                 *)
  kids,         (* decl_list, param_list and def, stmt_list, init          *)
  table,        (* ident_table: 0 where a name has no entry                *)
  ref,          (* what a use refers to, once found                        *)
  tokens,       (* identifiers read                                        *)
  (* the parser                                                            *)
  func,         (* the function whose body is open                         *)
  open,         (* the items of each open block                            *)
  env,          (* history: the scopes open here, the outermost first      *)
  meant,        (* history: what each use means where it stands            *)
  (* the traversal                                                         *)
  phase,        (* "parse", "visit", "find", "done" or "thrown"            *)
  todo,         (* nodes to visit; -d: the end of VarDecl::Visit of d      *)
  cur,          (* where FindRef looks                                     *)
  finished      (* declarations whose Visit has returned                   *)

tree  == <<nodes, parent, kids, table, tokens>>
parse == <<func, open, env, meant>>
walk  == <<todo, cur, ref, finished>>
vars  == <<tree, parse, walk, phase>>

-----------------------------------------------------------------------------
NoNode  == 0
NoTable == [n \in Names |-> NoNode]

Kinds == {"unit", "var", "param", "func", "block", "use"}

Nodes      == 1 .. Len(nodes)
Kind(n)    == nodes[n].kind
NameOf(n)  == nodes[n].name
IdentOf(n) == nodes[n].ident
Uses       == {n \in Nodes : Kind(n) = "use"}

Node(kind, name, ident) == [kind |-> kind, name |-> name, ident |-> ident]
(* The location AddNode gives to the i-th node from now.                   *)
New_OnePast(i) == Len(nodes) + i + 1
New(i) == Len(nodes) + i

(* The unit node: the library comes first.                                 *)
Unit == 3

(* Link: the nodes in list get the parent p.                               *)
Linked(par, list, p) ==
  [n \in DOMAIN par |-> IF \E i \in DOMAIN list : list[i] = n THEN p ELSE par[n]]

(* emplace: an entry that exists is kept.                                  *)
Emplaced(t, name, d) == IF t[name] = NoNode THEN [t EXCEPT ![name] = d] ELSE t

(* The table of a block: the variables of list, in order, by emplace.      *)
Entries(list) ==
  [name \in Names |->
     LET hits == {i \in DOMAIN list : /\ Kind(list[i]) \in {"var", "param"}
                                      /\ NameOf(list[i]) = name}
     IN IF hits = {} THEN NoNode
        ELSE list[CHOOSE i \in hits : \A j \in hits : i <= j]]

-----------------------------------------------------------------------------
(* The empty CompUnit: TranslationUnit's constructor declares the library  *)
(* before it has a location of its own, so the parent of its functions is  *)
(* location 0, the first node (here 1).                                    *)
Init ==
  /\ nodes = << Node("param", Builtin, 2), Node("func", Builtin, 1),
                Node("unit", Builtin, 0) >>
  /\ parent = <<2, 1, NoNode>>
  /\ kids = << <<>>, <<1>>, <<2>> >>
  /\ table = <<NoTable, NoTable, Emplaced(NoTable, Builtin, 2)>>
  /\ ref = <<NoNode, NoNode, NoNode>>
  /\ tokens = 2
  /\ func = NoNode
  /\ open = <<>>
  /\ env = <<Emplaced(NoTable, Builtin, 2)>>
  /\ meant = <<NoNode, NoNode, NoNode>>
  /\ phase = "parse"
  /\ todo = <<>>
  /\ cur = NoNode
  /\ finished = {}

Here        == env[Len(env)]
(* A second declaration in one scope is no program of the language.        *)
Free(name)  == Here[name] = NoNode
Room(k)     == phase = "parse" /\ Len(nodes) + Len(open) + k <= MaxNodes

Declare(name, d) == [env EXCEPT ![Len(env)] = [@ EXCEPT ![name] = d]]

(* What name means when the open scopes are those of e.                    *)
Meaning(e, name) ==
  LET seen == {i \in DOMAIN e : e[i][name] # NoNode}
  IN IF seen = {} THEN NoNode
     ELSE e[CHOOSE i \in seen : \A j \in seen : j <= i][name]

(* TranslationUnit::AddDecl(d), once d and the nodes below it exist.       *)
AddDecl(par, ks, tb, d, name) ==
  /\ parent' = [par EXCEPT ![d] = Unit]
  /\ kids' = [ks EXCEPT ![Unit] = Append(@, d)]
  /\ table' = [tb EXCEPT ![Unit] = Emplaced(@, name, d)]

AddItem(k) == [open EXCEPT ![Len(open)] = Append(@, k)]

(* VarDef, ConstDef: the initialiser's nodes come first, then the VarDecl. *)
(* A global joins the unit at once, a local waits for its block.  The      *)
(* initialiser means what it would mean before the declaration: that       *)
(* `int c = c;` finds c itself is called a bug in FindRef.                 *)
VarDef(name, init) ==
  LET inner == IF init = NoUse THEN <<>> ELSE << Node("use", init, tokens + 2) >>
      d   == New(Len(inner) + 1)
      par == parent \o [i \in 1 .. Len(inner) |-> d] \o <<NoNode>>
      ks  == kids \o [i \in 1 .. Len(inner) |-> <<>>]
                  \o << [i \in 1 .. Len(inner) |-> New(i)] >>
      tb  == table \o [i \in 1 .. Len(inner) + 1 |-> NoTable]
  IN /\ Room(Len(inner) + 1)
     /\ Free(name)
     /\ nodes' = nodes \o inner \o << Node("var", name, tokens + 1) >>
     /\ tokens' = tokens + 1 + Len(inner)
     /\ env' = Declare(name, d)
     /\ meant' = meant \o [i \in 1 .. Len(inner) |-> Meaning(env, init)]
                       \o <<NoNode>>
     /\ ref' = ref \o [i \in 1 .. Len(inner) + 1 |-> NoNode]
     /\ IF open = <<>>
        THEN AddDecl(par, ks, tb, d, name) /\ open' = open
        ELSE /\ parent' = par /\ kids' = ks /\ table' = tb
             /\ open' = AddItem(d)
     /\ UNCHANGED <<func, phase, todo, cur, finished>>

(* FuncDecl and the brace of the body: the parameters' nodes, then the     *)
(* FunctionDecl; the parameters and the body share one scope.              *)
FuncHead(name, params) ==
  LET k  == Len(params)
      f  == New(k + 1)
      ps == [i \in 1 .. k |-> New(i)]
  IN /\ open = <<>>
     /\ Room(k + 2)
     /\ Free(name)
     /\ nodes' = nodes \o [i \in 1 .. k |-> Node("param", params[i], tokens + 1 + i)]
                      \o << Node("func", name, tokens + 1) >>
     /\ tokens' = tokens + 1 + k
     /\ parent' = parent \o [i \in 1 .. k |-> f] \o <<NoNode>>
     /\ kids' = kids \o [i \in 1 .. k |-> <<>>] \o <<ps>>
     /\ table' = table \o [i \in 1 .. k + 1 |-> NoTable]
     /\ ref' = ref \o [i \in 1 .. k + 1 |-> NoNode]
     /\ meant' = meant \o [i \in 1 .. k + 1 |-> NoNode]
     /\ env' = Append(Declare(name, f),
                      [n \in Names |-> IF \E i \in 1 .. k : params[i] = n
                                       THEN New(CHOOSE i \in 1 .. k : params[i] = n)
                                       ELSE NoNode])
     /\ func' = f
     /\ open' = << <<>> >>
     /\ UNCHANGED <<phase, todo, cur, finished>>

OpenBlock ==
  /\ open # <<>>
  /\ Room(1)
  /\ open' = Append(open, <<>>)
  /\ env' = Append(env, NoTable)
  /\ UNCHANGED <<tree, func, meant, walk, phase>>

(* An expression in a statement.                                           *)
Use(name) ==
  /\ open # <<>>
  /\ Room(1)
  /\ nodes' = Append(nodes, Node("use", name, tokens + 1))
  /\ tokens' = tokens + 1
  /\ parent' = Append(parent, NoNode)
  /\ kids' = Append(kids, <<>>)
  /\ table' = Append(table, NoTable)
  /\ ref' = Append(ref, NoNode)
  /\ meant' = Append(meant, Meaning(env, name))
  /\ open' = AddItem(New(1))
  /\ UNCHANGED <<func, env, phase, todo, cur, finished>>

(* AddNode(CompoundStmt) with its Link.                                    *)
Block(items) ==
  /\ nodes' = Append(nodes, Node("block", Builtin, 0))
  /\ ref' = Append(ref, NoNode)
  /\ meant' = Append(meant, NoNode)
  /\ env' = SubSeq(env, 1, Len(env) - 1)

CloseBlock ==
  LET items == open[Len(open)]
      b     == New(1)
      outer == SubSeq(open, 1, Len(open) - 1)
  IN /\ phase = "parse"
     /\ Len(open) > 1
     /\ Block(items)
     /\ parent' = Append(Linked(parent, items, b), NoNode)
     /\ kids' = Append(kids, items)
     /\ table' = Append(table, Entries(items))
     /\ open' = [outer EXCEPT ![Len(outer)] = Append(@, b)]
     /\ UNCHANGED <<tokens, func, phase, todo, cur, finished>>

(* FuncDef: SetDef adds the parameters to the body's table; then the unit  *)
(* takes the function.                                                     *)
CloseBody ==
  LET items == open[1]
      b     == New(1)
  IN /\ phase = "parse"
     /\ Len(open) = 1
     /\ Block(items)
     /\ AddDecl(Append(Linked(parent, items, b), func),
                Append([kids EXCEPT ![func] = Append(@, b)], items),
                Append(table, Entries(items \o kids[func])),
                func, NameOf(func))
     /\ open' = <<>>
     /\ func' = NoNode
     /\ UNCHANGED <<tokens, phase, todo, cur, finished>>

(* yyparse returns; Parse visits the root.                                 *)
EndParse ==
  /\ phase = "parse"
  /\ open = <<>>
  /\ phase' = "visit"
  /\ todo' = kids[Unit]
  /\ UNCHANGED <<tree, parse, cur, ref, finished>>

-----------------------------------------------------------------------------
(* The traversal: Visit of a node visits its children in order.            *)
Visiting(kinds) ==
  /\ phase = "visit"
  /\ todo # <<>>
  /\ Head(todo) > 0
  /\ Kind(Head(todo)) \in kinds

VisitAll ==
  /\ Visiting({"param", "func", "block"})
  /\ todo' = kids[Head(todo)] \o Tail(todo)
  /\ UNCHANGED <<tree, parse, cur, ref, finished, phase>>

VisitVar_Later ==
  /\ Visiting({"var"})
  /\ todo' = Tail(todo) \o kids[Head(todo)] \o << -Head(todo) >>
  /\ UNCHANGED <<tree, parse, cur, ref, finished, phase>>
VisitVar ==
  /\ Visiting({"var"})
  /\ todo' = kids[Head(todo)] \o << -Head(todo) >> \o Tail(todo)
  /\ UNCHANGED <<tree, parse, cur, ref, finished, phase>>

LeaveVar ==
  /\ phase = "visit"
  /\ todo # <<>>
  /\ Head(todo) < 0
  /\ finished' = finished \cup {-Head(todo)}
  /\ todo' = Tail(todo)
  /\ UNCHANGED <<tree, parse, cur, ref, phase>>

(* FindRef starts at the parent of the use.                                *)
VisitUse ==
  /\ Visiting({"use"})
  /\ cur' = parent[Head(todo)]
  /\ phase' = "find"
  /\ UNCHANGED <<tree, parse, todo, ref, finished>>

(* The test of FindRef's loop at node n.                                   *)
FoundAt_AnyOrder(u, n) == table[n][NameOf(u)] # NoNode
FoundAt(u, n) ==
  /\ table[n][NameOf(u)] # NoNode
  /\ IdentOf(u) > IdentOf(table[n][NameOf(u)])

FindHere ==
  LET u == Head(todo)
  IN /\ phase = "find"
     /\ FoundAt(u, cur)
     /\ ref' = [ref EXCEPT ![u] = table[cur][NameOf(u)]]
     /\ todo' = Tail(todo)
     /\ phase' = "visit"
     /\ UNCHANGED <<tree, parse, cur, finished>>

Climb_Stays ==
  /\ phase = "find"
  /\ ~FoundAt(Head(todo), cur)
  /\ parent[cur] # NoNode
  /\ UNCHANGED vars
Climb ==
  /\ phase = "find"
  /\ ~FoundAt(Head(todo), cur)
  /\ parent[cur] # NoNode
  /\ cur' = parent[cur]
  /\ UNCHANGED <<tree, parse, todo, ref, finished, phase>>

(* IdentRefNotFindException.                                               *)
NotFound ==
  /\ phase = "find"
  /\ ~FoundAt(Head(todo), cur)
  /\ parent[cur] = NoNode
  /\ phase' = "thrown"
  /\ UNCHANGED <<tree, parse, walk>>

Return ==
  /\ phase = "visit"
  /\ todo = <<>>
  /\ phase' = "done"
  /\ UNCHANGED <<tree, parse, walk>>

(* The process has ended, or its exception has been reported.              *)
Stopped ==
  /\ phase \in {"done", "thrown"}
  /\ UNCHANGED vars

Next ==
  \/ \E name \in Names, init \in Names \cup {NoUse} : VarDef(name, init)
  \/ \E name \in Names : FuncHead(name, <<>>)
  \/ \E name, p \in Names : FuncHead(name, <<p>>)
  \/ \E name, p, q \in Names : p # q /\ FuncHead(name, <<p, q>>)
  \/ OpenBlock
  \/ \E name \in Names : Use(name)
  \/ CloseBlock
  \/ CloseBody
  \/ EndParse
  \/ VisitAll
  \/ VisitVar
  \/ LeaveVar
  \/ VisitUse
  \/ FindHere
  \/ Climb
  \/ NotFound
  \/ Return
  \/ Stopped

Spec     == Init /\ [][Next]_vars
(* One thread reads one finite file and runs to the end.                   *)
FairSpec == Spec /\ WF_vars(Next)

-----------------------------------------------------------------------------
Frames == Seq(Seq(Nodes))

TypeOK ==
  /\ \A n \in Nodes : nodes[n] \in [kind : Kinds, name : Names, ident : Nat]
  /\ parent \in [Nodes -> Nodes \cup {NoNode}]
  /\ kids \in [Nodes -> Seq(Nodes)]
  /\ table \in [Nodes -> [Names -> Nodes \cup {NoNode}]]
  /\ ref \in [Nodes -> Nodes \cup {NoNode}]
  /\ meant \in [Nodes -> Nodes \cup {NoNode}]
  /\ tokens \in Nat
  /\ func \in Nodes \cup {NoNode}
  /\ open \in Frames
  /\ env \in Seq([Names -> Nodes \cup {NoNode}])
  /\ phase \in {"parse", "visit", "find", "done", "thrown"}
  /\ todo \in Seq(Int)
  /\ \A i \in DOMAIN todo : todo[i] \in Nodes \/ -todo[i] \in Nodes
  /\ cur \in Nodes \cup {NoNode}
  /\ finished \subseteq Nodes

(* The use in `int c = c;`.  The code takes it for the new c, where the    *)
(* scopes open before the declaration may hold another c, or none: the     *)
(* case that FindRef's own comment calls a bug.                            *)
NamesItself(u) ==
  /\ parent[u] # NoNode
  /\ Kind(parent[u]) = "var"
  /\ NameOf(parent[u]) = NameOf(u)

Expected(u) == IF NamesItself(u) THEN parent[u] ELSE meant[u]

(* A use refers to what it means where it stands: the declaration in the   *)
(* innermost open scope that has already read one of that name, whatever   *)
(* is declared later in that scope or in an inner one, but for a variable  *)
(* named in its own initialiser, where the code is known not to do so and  *)
(* always finds the variable itself (ast_manager.cc: FindRef and its       *)
(* comment).  The exception is thrown only for a name that has no          *)
(* declaration there, and when the traversal is over every use has its     *)
(* reference.                                                              *)
RefIsLexical ==
  /\ \A u \in Uses : ref[u] # NoNode => ref[u] = Expected(u)
  /\ phase = "thrown" => Expected(Head(todo)) = NoNode
  /\ phase = "done" => \A u \in Uses : ref[u] # NoNode

(* CalculateValue reads the initialiser of what a use refers to right      *)
(* after FindRef: by then the Visit of that variable has returned, unless  *)
(* the use is part of its initialiser (ast_manager.cc: VarDecl::Visit,     *)
(* DeclRefExpr::Visit).                                                    *)
InitialiserReady ==
  [][\A u \in Uses :
       LET d == ref'[u]
       IN ref[u] = NoNode /\ d # NoNode /\ Kind(d) = "var" =>
            d \in finished \/ parent[u] = d]_vars

(* The search for a name ends, whatever the tree, and with it the          *)
(* traversal: no chain of parents closes on itself below the library's     *)
(* (ast_manager.cc: FindRef, TranslationUnit::AddDecl).                    *)
SearchEnds == <>(phase \in {"done", "thrown"})
=============================================================================
