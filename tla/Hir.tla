--------------------------------- MODULE Hir ---------------------------------
(***************************************************************************)
(* The high-level intermediate representation of izel_hir, as data.  The   *)
(* abstract syntax tree of izel_parser has the same shapes and two more:   *)
(* a block used as an expression and a loop.                               *)
(*                                                                         *)
(* Values are bits: integers modulo two, a reduction the operators below   *)
(* commute with, and the two truth values.  Of the operators each class    *)
(* the stages treat alike has a few: those izel_mir knows (add and mul,    *)
(* not and neg), those only the trees know (and, bitnot), and those only   *)
(* the concrete syntax knows (xor).  A variable stands for its DefId.      *)
(***************************************************************************)
EXTENDS Naturals, Sequences

Bits == {0, 1}

BinaryOps == {"add", "mul", "and"}
UnaryOps  == {"not", "neg", "bitnot"}

Lit(v)            == [k |-> "literal", v |-> v]
Ident(x)          == [k |-> "ident", x |-> x]
Binary(op, l, r)  == [k |-> "binary", op |-> op, left |-> l, right |-> r]
Unary(op, e)      == [k |-> "unary", op |-> op, inner |-> e]
Given(c, th, el)  == [k |-> "given", cond |-> c, then |-> th, els |-> el]
While(c, body)    == [k |-> "while", cond |-> c, body |-> body]
Zone(name, body)  == [k |-> "zone", name |-> name, body |-> body]
ReturnExpr(e)     == [k |-> "return", value |-> e]
BlockExpr(body)   == [k |-> "block", body |-> body]                  \* AST only
Loop(body)        == [k |-> "loop", body |-> body]                   \* AST only

\* A call with its callee's preconditions; void tells whether it has a result.
CallExpr(callee, args, requires, void) ==
  [k |-> "call", callee |-> callee, args |-> args, requires |-> requires, void |-> void]

\* What an optional part is: a sequence of at most one.
None    == <<>>
Some(e) == <<e>>

Let(x, init)    == [s |-> "let", x |-> x, init |-> init]
Set(x, e)       == [s |-> "assign", x |-> x, e |-> e]
ExprStmt(e)     == [s |-> "expr", e |-> e]

Block(stmts, tail) == [stmts |-> stmts, tail |-> tail]

Forge(name, params, body, ensures) ==
  [name |-> name, params |-> params, body |-> body, ensures |-> ensures]

-----------------------------------------------------------------------------
(* Well-formedness: the parts of an expression are members of E again, so a  *)
(* set of expressions closed under this is a set of finite or infinite trees.*)

Optional(S) == {o \in Seq(S) : Len(o) <= 1}

Stmts(E) ==
  [s : {"let"}, x : STRING, init : Optional(E)]
    \cup [s : {"assign"}, x : STRING, e : E]
    \cup [s : {"expr"}, e : E]

HirBodies(E) == [stmts : Seq(Stmts(E)), tail : Optional(E)]

IsExpr(e, E) ==
  /\ e.k = "literal" => e.v \in Bits
  /\ e.k = "ident"   => e.x \in STRING
  /\ e.k = "binary"  => e.op \in BinaryOps /\ e.left \in E /\ e.right \in E
  /\ e.k = "unary"   => e.op \in UnaryOps /\ e.inner \in E
  /\ e.k = "call"    => e.args \in Seq(E) /\ e.requires \in Seq(E) /\ e.void \in BOOLEAN
  /\ e.k = "return"  => e.value \in Optional(E)
  /\ e.k = "given"   => e.cond \in E /\ e.then \in HirBodies(E) /\ e.els \in Optional(E)
  /\ e.k = "while"   => e.cond \in E /\ e.body \in HirBodies(E)
  /\ e.k = "zone"    => e.body \in HirBodies(E)
  /\ e.k \in {"literal", "ident", "binary", "unary", "call", "return", "given", "while", "zone"}

IsForge(f, E) ==
  /\ f.params \in Seq(STRING)
  /\ \A i, j \in DOMAIN f.params : f.params[i] = f.params[j] => i = j
  /\ f.body \in HirBodies(E)
  /\ f.ensures \in Seq(E)

=============================================================================
