------------------------------ MODULE FrontEnd ------------------------------
(***************************************************************************)
(* From the concrete syntax tree of a forge's body to its HIR: lowering to *)
(* the AST (izel_ast_lower) and from there to the HIR (izel_hir).  In the  *)
(* CST a block is its sequence of statements, return is the statement give *)
(* and an else part is a block or another given.                           *)
(***************************************************************************)
EXTENDS Hir

Give(e) == [s |-> "give", e |-> e]

-----------------------------------------------------------------------------
(* CST to AST *)

RECURSIVE AstExpr(_)

AstStmt(stmt) ==
  CASE stmt.s = "let"    -> Let(stmt.x, [i \in DOMAIN stmt.init |-> AstExpr(stmt.init[i])])
    [] stmt.s = "assign" -> Set(stmt.x, AstExpr(stmt.e))
    [] stmt.s = "give"   -> ExprStmt(ReturnExpr(Some(AstExpr(stmt.e))))
    [] stmt.s = "expr"   -> ExprStmt(AstExpr(stmt.e))

\* A block's last statement is its value unless it is a let, an assignment or
\* a give.
AstBlock(stmts) ==
  LET all  == [i \in DOMAIN stmts |-> AstStmt(stmts[i])]
      last == Len(stmts)
  IN  IF stmts # <<>> /\ stmts[last].s = "expr"
      THEN Block(SubSeq(all, 1, last - 1), Some(all[last].e))
      ELSE Block(all, None)

\* GivenExpr: every child that is a block is stored as the then part, so an
\* else block replaces it; an else given is stored as the else part.
AstGiven(cond, then, els) ==
  IF els # None /\ els[1].k = "block"
  THEN Given(AstExpr(cond), AstBlock(els[1].body), None)
  ELSE Given(AstExpr(cond), AstBlock(then), [i \in DOMAIN els |-> AstExpr(els[i])])

\* Labels of arguments are dropped: what stays is their order.
AstCall(e) == [e EXCEPT !.args = [i \in DOMAIN e.args |-> AstExpr(e.args[i])]]

\* An operator the lowering has no case for makes the whole expression the literal nil.
AstOperator(e) ==
  CASE e.k = "binary" /\ e.op \in BinaryOps -> Binary(e.op, AstExpr(e.left), AstExpr(e.right))
    [] e.k = "unary"                        -> Unary(e.op, AstExpr(e.inner))
    [] OTHER                                -> Lit(0)

AstExpr(e) ==
  CASE e.k \in {"literal", "ident"} -> e
    [] e.k \in {"binary", "unary"}  -> AstOperator(e)
    [] e.k = "call"   -> AstCall(e)
    [] e.k = "given"  -> AstGiven(e.cond, e.then, e.els)
    [] e.k = "while"  -> While(AstExpr(e.cond), AstBlock(e.body))
    [] e.k = "zone"   -> Zone(e.name, AstBlock(e.body))
    [] e.k = "block"  -> BlockExpr(AstBlock(e.body))
    [] e.k = "loop"   -> Loop(AstBlock(e.body))

-----------------------------------------------------------------------------
(* AST to HIR *)

RECURSIVE HirExpr(_)

HirStmt(stmt) ==
  CASE stmt.s = "let"    -> Let(stmt.x, [i \in DOMAIN stmt.init |-> HirExpr(stmt.init[i])])
    [] stmt.s = "assign" -> Set(stmt.x, HirExpr(stmt.e))
    [] stmt.s = "expr"   -> ExprStmt(HirExpr(stmt.e))

HirBlock(block) ==
  Block([i \in DOMAIN block.stmts |-> HirStmt(block.stmts[i])],
        [i \in DOMAIN block.tail |-> HirExpr(block.tail[i])])

\* A call loses its callee's preconditions, and what has no HIR form becomes
\* the literal nil: blocks used as expressions and loops.
HirExpr(e) ==
  CASE e.k \in {"literal", "ident"} -> e
    [] e.k = "binary" -> Binary(e.op, HirExpr(e.left), HirExpr(e.right))
    [] e.k = "unary"  -> Unary(e.op, HirExpr(e.inner))
    [] e.k = "call"   -> CallExpr(e.callee, [i \in DOMAIN e.args |-> HirExpr(e.args[i])],
                                  <<>>, e.void)
    [] e.k = "given"  -> Given(HirExpr(e.cond), HirBlock(e.then),
                               [i \in DOMAIN e.els |-> HirExpr(e.els[i])])
    [] e.k = "while"  -> While(HirExpr(e.cond), HirBlock(e.body))
    [] e.k = "zone"   -> Zone(e.name, HirBlock(e.body))
    [] e.k = "return" -> ReturnExpr([i \in DOMAIN e.value |-> HirExpr(e.value[i])])
    [] OTHER          -> Lit(0)

\* lower_forge of izel_hir on the AST of the CST.
HirForge(source) ==
  Forge(source.name, source.params, HirBlock(AstBlock(source.body)),
        [i \in DOMAIN source.ensures |-> HirExpr(AstExpr(source.ensures[i]))])

=============================================================================
