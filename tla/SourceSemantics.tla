---------------------------- MODULE SourceSemantics ----------------------------
(***************************************************************************)
(* What a forge means: a reference evaluator of the concrete syntax, used  *)
(* to judge the compiled code.  Calls are recorded with their arguments    *)
(* and answered from a list; a self call in return position starts over.   *)
(*                                                                         *)
(* The evaluator's state is a record: env the variables, trace the calls,  *)
(* left the answers not used yet, val the last value, and mode "go", "ret" *)
(* (returned), "violated" (a postcondition failed) or "cut" (no call is    *)
(* allowed any more).                                                      *)
(***************************************************************************)
EXTENDS FrontEnd, FiniteSets, SequencesExt

SelfCall(source, e) == e.k = "call" /\ e.callee = source.name

Assigned(env, x, v) == [y \in DOMAIN env \cup {x} |-> IF y = x THEN v ELSE env[y]]

Going(st) == st.mode = "go"

\* The operators on bits; an and reads both of its operands.
Value(op, vs) ==
  CASE op \in {"add", "xor"}    -> (vs[1] + vs[2]) % 2
    [] op \in {"mul", "and"}    -> vs[1] * vs[2]
    [] op \in {"not", "bitnot"} -> 1 - vs[1]
    [] op = "neg"               -> vs[1]

RECURSIVE Eval(_, _, _)

\* The arguments, left to right; their values are collected in vals.
EvalArgs(source, args, st) ==
  FoldLeft(LAMBDA s, e : LET r == Eval(source, e, s) IN [r EXCEPT !.vals = Append(s.vals, r.val)],
           [st EXCEPT !.vals = <<>>], args)

Called(e, st, maxCalls) ==
  IF Len(st.trace) = maxCalls \/ (~e.void /\ st.left = <<>>)
  THEN [st EXCEPT !.mode = "cut"]
  ELSE [st EXCEPT !.trace = Append(@, [callee |-> e.callee, args |-> st.vals]),
                  !.left  = IF e.void THEN @ ELSE Tail(@),
                  !.val   = IF e.void THEN 0 ELSE Head(st.left)]

Entered(source, in, st) ==
  [st EXCEPT !.env = [x \in {source.params[i] : i \in DOMAIN source.params} |->
                        in[CHOOSE i \in DOMAIN source.params : source.params[i] = x]]]

\* The postconditions, if they are checked, with result bound to the value.
Ensured(source, st) ==
  LET bound == [st EXCEPT !.env = Assigned(@, "result", st.val)]
      Holds(e) == Eval(source, e, bound).val = 1
  IN  IF st.checked /\ \E i \in DOMAIN source.ensures : ~Holds(source.ensures[i])
      THEN [st EXCEPT !.mode = "violated"]
      ELSE [st EXCEPT !.mode = "ret"]

EvalBlock(source, stmts, st) ==
  FoldLeft(LAMBDA s, stmt :
             IF ~Going(s) THEN s
             ELSE IF stmt.s = "let" /\ stmt.init = None THEN s
             ELSE LET e == IF stmt.s = "let" THEN stmt.init[1] ELSE stmt.e
                  IN  IF stmt.s = "give" /\ SelfCall(source, e)
                      THEN LET a == EvalArgs(source, e.args, s)
                           IN  IF Going(a) THEN Eval(source, [k |-> "block", body |-> source.body],
                                                     Entered(source, a.vals, a))
                                           ELSE a
                      ELSE LET r == Eval(source, e, s)
                           IN  IF ~Going(r) THEN r
                               ELSE IF stmt.s = "give" THEN Ensured(source, r)
                               ELSE IF stmt.s = "expr" THEN r
                               ELSE [r EXCEPT !.env = Assigned(@, stmt.x, r.val)],
           st, stmts)

EvalWhile(source, e, st) ==
  LET c    == Eval(source, e.cond, st)
      body == EvalBlock(source, e.body, c)
  IN  IF Going(c) /\ c.val = 1 THEN Eval(source, e, body) ELSE c

EvalGiven(source, e, st) ==
  LET c == Eval(source, e.cond, st)
  IN  IF ~Going(c) THEN c
      ELSE IF c.val = 1 THEN EvalBlock(source, e.then, c)
      ELSE IF e.els = None THEN c
      ELSE Eval(source, e.els[1], c)

Eval(source, e, st) ==
  IF ~Going(st) THEN st
  ELSE CASE e.k = "literal" -> [st EXCEPT !.val = e.v]
         [] e.k = "ident"   -> [st EXCEPT !.val = st.env[e.x]]
         [] e.k = "binary"  -> LET l == Eval(source, e.left, st)
                                   r == Eval(source, e.right, l)
                               IN  [r EXCEPT !.val = Value(e.op, <<l.val, r.val>>)]
         [] e.k = "unary"   -> LET r == Eval(source, e.inner, st) IN  [r EXCEPT !.val = Value(e.op, <<r.val>>)]
         [] e.k = "call"    -> LET a == EvalArgs(source, e.args, st)
                               IN  IF Going(a) THEN Called(e, a, a.maxCalls) ELSE a
         [] e.k = "given"   -> EvalGiven(source, e, st)
         [] e.k = "while"   -> EvalWhile(source, e, st)
         [] e.k \in {"zone", "block"} -> EvalBlock(source, e.body, st)

\* The whole forge, for the given inputs and answers.
Meaning(source, checked, in, answers, maxCalls) ==
  EvalBlock(source, source.body,
            Entered(source, in, [env |-> <<>>, trace |-> <<>>, left |-> answers, vals |-> <<>>,
                                 val |-> 0, mode |-> "go", checked |-> checked,
                                 maxCalls |-> maxCalls]))

-----------------------------------------------------------------------------
(* Parts of a program *)

RECURSIVE SubExprs(_)

StmtExprs(stmt) ==
  IF stmt.s = "let" THEN UNION {SubExprs(stmt.init[i]) : i \in DOMAIN stmt.init}
                    ELSE SubExprs(stmt.e)

BlockExprs(stmts) == UNION {StmtExprs(stmts[i]) : i \in DOMAIN stmts}

SubExprs(e) ==
  {e} \cup
  CASE e.k \in {"literal", "ident"} -> {}
    [] e.k = "binary" -> SubExprs(e.left) \cup SubExprs(e.right)
    [] e.k = "unary"  -> SubExprs(e.inner)
    [] e.k = "call"   -> UNION {SubExprs(e.args[i]) : i \in DOMAIN e.args}
    [] e.k = "given"  -> SubExprs(e.cond) \cup BlockExprs(e.then)
                           \cup UNION {SubExprs(e.els[i]) : i \in DOMAIN e.els}
    [] e.k = "while"  -> SubExprs(e.cond) \cup BlockExprs(e.body)
    [] e.k \in {"zone", "block", "loop"} -> BlockExprs(e.body)

Control(e) == e.k \in {"given", "while", "zone", "block", "loop"}

BodyOf(e) == IF e.k = "given" THEN e.then ELSE e.body

AllExprs(source) == BlockExprs(source.body)

BlocksIn(source) == {source.body} \cup {BodyOf(e) : e \in {f \in AllExprs(source) : Control(f)}}

StmtsIn(source) == UNION {ToSet(b) : b \in BlocksIn(source)}

\* Nothing follows it in its block: a give, or a zone that ends in one.
RECURSIVE Stops(_)

Stops(stmt) ==
  \/ stmt.s = "give"
  \/ stmt.s = "expr" /\ stmt.e.k = "zone" /\ stmt.e.body # <<>> /\ Stops(Last(stmt.e.body))

StopsLast(source) ==
  \A b \in BlocksIn(source) : \A i \in DOMAIN b : Stops(b[i]) => i = Len(b)

ElseBlock(source) ==
  \E e \in AllExprs(source) : e.k = "given" /\ e.els # None /\ e.els[1].k = "block"

SelfTail(source) ==
  \E stmt \in StmtsIn(source) : stmt.s = "give" /\ SelfCall(source, stmt.e)

\* The operators every stage has a case for.
KnownOperators(source) ==
  \A e \in AllExprs(source) \cup UNION {SubExprs(source.ensures[i]) : i \in DOMAIN source.ensures} :
    e.k \in {"binary", "unary"} => e.op \in {"add", "mul", "not", "neg"}

\* Control flow stands only where a statement or an else part does.
ControlAsStatement(source) ==
  \A e \in AllExprs(source) :
    Control(e) => \/ ExprStmt(e) \in StmtsIn(source)
                  \/ \E g \in AllExprs(source) : g.k = "given" /\ g.els = Some(e)

NoLoop(source) == \A e \in AllExprs(source) : e.k \notin {"loop", "block"}

\* A return out of a given that sits in a zone.
LeavesZoneEarly(source) ==
  \E z \in AllExprs(source) :
    /\ z.k = "zone"
    /\ \E e \in BlockExprs(z.body) \ {z} :
         /\ e.k \in {"given", "while"}
         /\ \E stmt \in ToSet(BodyOf(e)) : stmt.s = "give"

\* A postcondition applies to a returned call.
EnsuresOnCall(source) ==
  /\ source.ensures # <<>>
  /\ \E stmt \in StmtsIn(source) :
       stmt.s = "give" /\ \E e \in SubExprs(stmt.e) : e.k = "call"

=============================================================================
