------------------------------ MODULE MCCompiler ------------------------------
(***************************************************************************)
(* Programs for Compiler: every combination of a few statements with the   *)
(* control-flow forms, one form deep or two, in a forge main(a) that       *)
(* starts with let x.                                                      *)
(***************************************************************************)
EXTENDS Compiler

A == Ident("a")
X == Ident("x")
F(e)   == CallExpr("f", <<e>>, Some(A), FALSE)
Log(e) == CallExpr("log", <<e>>, <<>>, TRUE)

SetX     == Set("x", F(X))
FlipA    == Set("a", Unary("not", X))
LogX     == ExprStmt(Log(X))
GiveX    == Give(X)
GiveSum  == Give(Binary("add", X, Unary("neg", F(A))))
GiveProd == Give(Binary("mul", X, F(A)))

\* Blocks of statements without control.
Plain == {<<>>, <<SetX>>, <<FlipA>>, <<GiveX>>, <<LogX, SetX>>}

\* Every loop body calls out or returns, so every execution ends.
Looping == {<<SetX>>, <<GiveX>>, <<SetX, LogX>>}

IfX(then)       == Given(X, then, None)
Else(then, els) == Given(F(A), then, Some(BlockExpr(els)))

Simple ==
  {Given(F(A), b, None) : b \in Plain}
    \cup {Given(X, b, Some(Given(A, c, None))) :
             b \in {<<SetX>>, <<GiveX>>}, c \in {<<FlipA>>, <<GiveX>>}}
    \cup {While(c, b) : c \in {X, F(A)}, b \in Looping}
    \cup {Zone("z", b) : b \in Plain}

\* One form inside another.  A loop's last statement calls out.
Deep ==
  {Given(X, <<ExprStmt(e)>>, None) : e \in Simple}
    \cup {Given(A, <<SetX>>, Some(Given(X, <<ExprStmt(e), FlipA>>, None))) :
             e \in {Zone("z", <<LogX>>), While(X, <<SetX>>), IfX(<<GiveX>>)}}
    \cup {While(X, <<ExprStmt(e), SetX>>) : e \in Simple}
    \cup {Zone("y", <<ExprStmt(e)>>) : e \in Simple}
    \cup {Zone("y", <<ExprStmt(Zone("z", <<ExprStmt(IfX(b))>>)), FlipA>>) : b \in {<<GiveX>>, <<SetX>>}}

Short == {IfX(<<GiveX>>), IfX(<<SetX>>), While(X, <<SetX>>), Zone("z", <<FlipA>>),
          Given(F(A), <<LogX, SetX>>, None)}

Main(body, ensures) == [name |-> "main", params |-> <<"a">>, body |-> body, ensures |-> ensures]

Around(e, after) == <<Let("x", Some(Lit(1))), ExprStmt(e)>> \o after

Afters == {<<>>, <<GiveX>>, <<LogX, GiveSum>>, <<GiveProd>>}

Orderlies ==
  {Main(Around(e, after), <<>>) : e \in Simple \cup Deep, after \in Afters}
    \cup {Main(Around(e, <<ExprStmt(d), GiveX>>), <<>>) : e \in Short, d \in Short}
    \cup {Main(Around(IfX(<<SetX>>), <<Give(X)>>), <<en>>) :
            en \in {Ident("result"), Binary("add", Ident("result"), Unary("not", A))}}
    \cup {Main(<<Let("y", None), Set("y", A), Let("u", Some(Ident("y"))), Give(Ident("u"))>>, <<>>)}

\* A self call in return position, an else block, statements after a give,
\* control flow inside operands and conditions, loops, a postcondition on a
\* returned call.
TailCalls ==
  {Main(<<LogA, ExprStmt(Given(A, <<Give(CallExpr("main", <<Lit(0)>>, <<>>, FALSE))>>, None)),
          Give(Lit(1))>>, <<>>) : LogA \in {ExprStmt(Log(A))}}

Elses == {Main(Around(Else(<<SetX>>, b), <<GiveX>>), <<>>) : b \in {<<LogX>>, <<GiveX>>}}

Unruly ==
  {Main(Around(Given(F(A), <<GiveX, LogX>>, None), <<>>), <<>>),
   Main(Around(While(Given(X, <<SetX>>, None), <<SetX>>), <<GiveX>>), <<>>),
   Main(<<Let("x", Some(Zone("z", <<ExprStmt(A)>>))), ExprStmt(Loop(<<SetX>>)), Give(X)>>, <<>>),
   Main(Around(Zone("z", <<GiveX>>), <<LogX, Give(A)>>), <<>>),
   Main(<<Give(F(A))>>, <<Ident("result")>>)}

\* A postcondition that may fail, and operators some stage has no case for.
Contracts == {Main(Around(IfX(<<SetX>>), <<GiveX>>), <<Ident("result")>>)}

Operators ==
  {Main(<<Let("x", Some(F(A))), Give(e)>>, <<>>) :
     e \in {Binary("and", X, A), Binary("xor", X, A), Unary("bitnot", X)}}

AllPrograms == Orderlies \cup TailCalls \cup Elses \cup Unruly \cup Contracts \cup Operators

\* The HIR expressions of a set of forges: what ExprsAssumption asks for.
RECURSIVE HirParts(_)

HirBlockParts(b) ==
  UNION {IF b.stmts[i].s = "let" THEN UNION {HirParts(b.stmts[i].init[j]) : j \in DOMAIN b.stmts[i].init}
                                 ELSE HirParts(b.stmts[i].e) : i \in DOMAIN b.stmts}
    \cup UNION {HirParts(b.tail[i]) : i \in DOMAIN b.tail}

HirSeqParts(es) == UNION {HirParts(es[i]) : i \in DOMAIN es}

HirParts(e) ==
  {e} \cup
  CASE e.k = "binary" -> HirParts(e.left) \cup HirParts(e.right)
    [] e.k = "unary"  -> HirParts(e.inner)
    [] e.k = "call"   -> HirSeqParts(e.args) \cup HirSeqParts(e.requires)
    [] e.k = "return" -> HirSeqParts(e.value)
    [] e.k = "given"  -> HirParts(e.cond) \cup HirBlockParts(e.then) \cup HirSeqParts(e.els)
    [] e.k = "while"  -> HirParts(e.cond) \cup HirBlockParts(e.body)
    [] e.k = "zone"   -> HirBlockParts(e.body)
    [] OTHER          -> {}

MCForges == {HirForge(s) : s \in AllPrograms}
MCExprs  == {Lit(0)} \cup UNION {HirBlockParts(f.body) \cup HirSeqParts(f.ensures) : f \in MCForges}

=============================================================================
