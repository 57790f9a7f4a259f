------------------------------ MODULE MirLower ------------------------------
(***************************************************************************)
(* MirLowerer of izel_mir: one forge from HIR to MIR.  The recursion of    *)
(* lower_block, lower_stmt and lower_expr is a stack of tasks, the rvalues *)
(* those functions return to each other a stack of values; everything else *)
(* is the lowerer's own state.                                             *)
(***************************************************************************)
EXTENDS Hir, Mir

CONSTANTS
  Forges,            \* the HIR forges a run may be handed
  Exprs              \* all the expressions they are built from

\* Every expression's parts are there, and so is the value of an empty block.
ASSUME ExprsAssumption == Lit(0) \in Exprs /\ \A e \in Exprs : IsExpr(e, Exprs)

ASSUME ForgesAssumption == \A f \in Forges : IsForge(f, Exprs)

VARIABLES
  forge,             \* the forge being lowered
  check_contracts,   \* whether contracts become assertions
  mir,               \* the body under construction
  current_block,     \* where instructions are appended
  header,            \* where a self tail call jumps
  vars,              \* the local of each variable that has one
  tasks,             \* what remains to be lowered, next task first
  values,            \* rvalues returned and not yet used, innermost last
  phase              \* "start", "lower" or "lowered"

lowerVars ==
  <<forge, check_contracts, mir, current_block, header, vars, tasks, values, phase>>

-----------------------------------------------------------------------------
(* The body under construction *)

Body(size, ty, args, block) == [size |-> size, ty |-> ty, args |-> args, block |-> block]

BasicBlock(code, term, succ) == [code |-> code, term |-> term, succ |-> succ]

EmptyBlock == BasicBlock(<<>>, NoTerminator, {})

EmptyBody == Body(1, <<>>, {}, [n \in {0} |-> EmptyBlock])

WithBlock(b, n, block) ==
  Body(b.size, b.ty, b.args, [m \in Blocks(b) |-> IF m = n THEN block ELSE b.block[m]])

EmitAll(b, n, code) == WithBlock(b, n, BasicBlock(Code(b, n) \o code, Term(b, n), Succ(b, n)))
Emit(b, n, ins)     == EmitAll(b, n, <<ins>>)
Edge(b, n, m)       == WithBlock(b, n, BasicBlock(Code(b, n), Term(b, n), Succ(b, n) \cup {m}))
Terminate(b, n, t)  == WithBlock(b, n, BasicBlock(Code(b, n), t, Succ(b, n)))

\* Mutant: the terminator is set and the edge forgotten.
JumpWithoutEdge(b, n, m) == Terminate(b, n, Goto(m))

Jump(b, n, m)         == Terminate(Edge(b, n, m), n, Goto(m))
Fork(b, n, op, m, k)  == Terminate(Edge(Edge(b, n, m), n, k), n, SwitchInt(op, m, k))

AddBlocks(b, count) ==
  Body(b.size + count, b.ty, b.args,
       [n \in 0 .. b.size + count - 1 |-> IF n < b.size THEN b.block[n] ELSE EmptyBlock])

\* Locals are numbered from 1; new_local appends one.
FreshLocal(b) == Len(b.ty) + 1

NewLocals(b, count) == Body(b.size, b.ty \o [i \in 1 .. count |-> "prim"], b.args, b.block)

\* The first locals are the parameters.
WithParams(b, count) == Body(b.size, [i \in 1 .. count |-> "prim"], 1 .. count, b.block)

Bind(x, l) == [y \in DOMAIN vars \cup {x} |-> IF y = x THEN l ELSE vars[y]]

-----------------------------------------------------------------------------
(* Tasks.  subst is what replaces the name result: the returned expression,  *)
(* in a postcondition (substitute_result_expr).                              *)

BlockTask(body)          == [t |-> "block", body |-> body]
StmtTask(stmt)           == [t |-> "stmt", stmt |-> stmt]
ExprTask(e, subst)       == [t |-> "expr", e |-> e, subst |-> subst]
OperandTask(e, subst)    == [t |-> "operand", e |-> e, subst |-> subst]
ContractTask(e, subst)   == [t |-> "contract", e |-> e, subst |-> subst]
ToOperand                == [t |-> "to_operand"]
Drop                     == [t |-> "drop"]
Store(x)                 == [t |-> "store", x |-> x]
Make(rv, n)              == [t |-> "make", rv |-> rv, n |-> n]
EmitAssert               == [t |-> "assert"]
EmitCall(callee, n, void) == [t |-> "call", callee |-> callee, n |-> n, void |-> void]
TailCall(n)              == [t |-> "tail_call", n |-> n]
EmitReturn(n)            == [t |-> "return", n |-> n]
EmitZoneExit(name)       == [t |-> "zone_exit", name |-> name]
Open(e)                  == [t |-> "open", e |-> e]
TestLoop(c, body, exit)  == [t |-> "test", cond_id |-> c, body_id |-> body, exit_id |-> exit]
CloseArm(join, next)     == [t |-> "close", join |-> join, next |-> next]

\* The operators of MIR; any other is taken for an addition or a negation.
MirBinOp(op) == IF op \in {"add", "mul"} THEN op ELSE "add"
MirUnOp(op)  == IF op \in {"not", "neg"} THEN op ELSE "neg"

OperandTasks(args, subst) == [i \in DOMAIN args |-> OperandTask(args[i], subst)]

\* Contracts are lowered only when the flag is set.
ContractTasks(exprs, subst) ==
  IF check_contracts THEN [i \in DOMAIN exprs |-> ContractTask(exprs[i], subst)] ELSE <<>>

SelfTailCall(e) == e.value # None /\ e.value[1].k = "call" /\ e.value[1].callee = forge.name

ReturnParts(e) ==
  IF SelfTailCall(e)
  THEN OperandTasks(e.value[1].args, None) \o <<TailCall(Len(e.value[1].args))>>
  ELSE IF e.value = None
  THEN <<EmitReturn(0)>>
  ELSE <<OperandTask(e.value[1], None)>> \o ContractTasks(forge.ensures, e.value)
         \o <<EmitReturn(1)>>

StmtParts(stmt) ==
  CASE stmt.s = "let"    -> IF stmt.init = None THEN <<>>
                            ELSE <<ExprTask(stmt.init[1], None), Store(stmt.x)>>
    [] stmt.s = "assign" -> <<ExprTask(stmt.e, None), Store(stmt.x)>>
    [] stmt.s = "expr"   -> <<ExprTask(stmt.e, None), Drop>>

\* The tasks a compound task stands for, in the order the code does them.
Parts(task) ==
  CASE task.t = "block" ->
         [i \in DOMAIN task.body.stmts |-> StmtTask(task.body.stmts[i])]
           \o <<ExprTask(IF task.body.tail = None THEN Lit(0) ELSE task.body.tail[1], None)>>
    [] task.t = "stmt"     -> StmtParts(task.stmt)
    [] task.t = "operand"  -> <<ExprTask(task.e, task.subst), ToOperand>>
    [] task.t = "contract" -> <<OperandTask(task.e, task.subst), EmitAssert>>
    [] task.t = "expr" /\ task.e.k = "ident"  -> <<ExprTask(task.subst[1], None)>>
    [] task.t = "expr" /\ task.e.k = "binary" ->
         OperandTasks(<<task.e.left, task.e.right>>, task.subst) \o <<Make(MirBinOp(task.e.op), 2)>>
    [] task.t = "expr" /\ task.e.k = "unary"  ->
         <<OperandTask(task.e.inner, task.subst), Make(MirUnOp(task.e.op), 1)>>
    [] task.t = "expr" /\ task.e.k = "call"   ->
         OperandTasks(task.e.args, task.subst) \o ContractTasks(task.e.requires, task.subst)
           \o <<EmitCall(task.e.callee, Len(task.e.args), task.e.void)>>
    [] task.t = "expr" /\ task.e.k = "return" -> ReturnParts(task.e)
    [] task.t = "expr" /\ task.e.k = "given"  ->
         <<OperandTask(task.e.cond, None), Open(task.e)>>

-----------------------------------------------------------------------------
(* Steps *)

LowerInit ==
  /\ forge \in Forges
  /\ check_contracts \in BOOLEAN
  /\ mir = EmptyBody
  /\ current_block = 0
  /\ header = 0
  /\ vars = [x \in {} |-> 0]
  /\ tasks = <<>>
  /\ values = <<>>
  /\ phase = "start"

Lowering == phase = "lower" /\ tasks # <<>>

Now(kind) == Lowering /\ Head(tasks).t = kind

NowExpr(kind) == Now("expr") /\ Head(tasks).e.k = kind

\* The name a postcondition uses for the returned value.
IsResult(task) == task.e.k = "ident" /\ task.e.x = "result" /\ task.subst # None

Top            == values[Len(values)]
Popped(n)      == SubSeq(values, 1, Len(values) - n)
TopOperands(n) == [i \in 1 .. n |-> values[Len(values) - n + i].args[1]]

UseOf(op) == [rv |-> "use", args |-> <<op>>]

Done(more) == tasks' = more \o Tail(tasks)

\* lower_forge up to its body: entry jumps to the header, parameters get the
\* first locals.
StartForge ==
  /\ phase = "start"
  /\ mir' = Jump(WithParams(AddBlocks(mir, 1), Len(forge.params)), 0, 1)
  /\ vars' = [x \in {forge.params[i] : i \in DOMAIN forge.params} |->
                CHOOSE i \in DOMAIN forge.params : forge.params[i] = x]
  /\ header' = 1
  /\ current_block' = 1
  /\ tasks' = <<BlockTask(forge.body)>>
  /\ phase' = "lower"
  /\ UNCHANGED <<forge, check_contracts, values>>

Expand ==
  /\ Lowering
  /\ \/ Head(tasks).t \in {"block", "stmt", "operand", "contract"}
     \/ /\ Head(tasks).t = "expr"
        /\ \/ Head(tasks).e.k \in {"binary", "unary", "call", "return", "given"}
           \/ IsResult(Head(tasks))
  /\ Done(Parts(Head(tasks)))
  /\ UNCHANGED <<forge, check_contracts, mir, current_block, header, vars, values, phase>>

LowerLiteral ==
  /\ NowExpr("literal")
  /\ values' = Append(values, UseOf(Const(Head(tasks).e.v)))
  /\ Done(<<>>)
  /\ UNCHANGED <<forge, check_contracts, mir, current_block, header, vars, phase>>

\* read_variable makes a local for a variable that has none.
LowerIdent ==
  /\ NowExpr("ident")
  /\ ~IsResult(Head(tasks))
  /\ LET x == Head(tasks).e.x
     IN  IF x \in DOMAIN vars
         THEN /\ values' = Append(values, UseOf(Copy(vars[x])))
              /\ UNCHANGED <<mir, vars>>
         ELSE /\ values' = Append(values, UseOf(Copy(FreshLocal(mir))))
              /\ mir' = NewLocals(mir, 1)
              /\ vars' = Bind(x, FreshLocal(mir))
  /\ Done(<<>>)
  /\ UNCHANGED <<forge, check_contracts, current_block, header, phase>>

\* rvalue_to_operand: what is not an operand yet goes through a temporary.
RvalueToOperand ==
  /\ Now("to_operand")
  /\ IF Top.rv = "use"
     THEN UNCHANGED <<mir, values>>
     ELSE /\ mir' = Emit(NewLocals(mir, 1), current_block,
                         Compute(FreshLocal(mir), Top.rv, Top.args))
          /\ values' = Append(Popped(1), UseOf(Move(FreshLocal(mir))))
  /\ Done(<<>>)
  /\ UNCHANGED <<forge, check_contracts, current_block, header, vars, phase>>

MakeRvalue ==
  /\ Now("make")
  /\ LET task == Head(tasks)
     IN  values' = Append(Popped(task.n), [rv |-> task.rv, args |-> TopOperands(task.n)])
  /\ Done(<<>>)
  /\ UNCHANGED <<forge, check_contracts, mir, current_block, header, vars, phase>>

\* A let and an assignment: into the variable's local, or a new one.
StoreVariable ==
  /\ Now("store")
  /\ LET x == Head(tasks).x
     IN  IF x \in DOMAIN vars
         THEN /\ mir' = Emit(mir, current_block, Compute(vars[x], Top.rv, Top.args))
              /\ UNCHANGED vars
         ELSE /\ mir' = Emit(NewLocals(mir, 1), current_block,
                             Compute(FreshLocal(mir), Top.rv, Top.args))
              /\ vars' = Bind(x, FreshLocal(mir))
  /\ values' = Popped(1)
  /\ Done(<<>>)
  /\ UNCHANGED <<forge, check_contracts, current_block, header, phase>>

DropValue ==
  /\ Now("drop")
  /\ values' = Popped(1)
  /\ Done(<<>>)
  /\ UNCHANGED <<forge, check_contracts, mir, current_block, header, vars, phase>>

PushAssert ==
  /\ Now("assert")
  /\ mir' = Emit(mir, current_block, AssertOp(Top.args[1]))
  /\ values' = Popped(1)
  /\ Done(<<>>)
  /\ UNCHANGED <<forge, check_contracts, current_block, header, vars, phase>>

PushCall ==
  /\ Now("call")
  /\ LET task == Head(tasks)
         args == TopOperands(task.n)
     IN  IF task.void
         THEN /\ mir' = Emit(mir, current_block, Invoke(NoLocal, task.callee, args))
              /\ values' = Append(Popped(task.n), UseOf(Const(0)))
         ELSE /\ mir' = Emit(NewLocals(mir, 1), current_block,
                             Invoke(FreshLocal(mir), task.callee, args))
              /\ values' = Append(Popped(task.n), UseOf(Move(FreshLocal(mir))))
  /\ Done(<<>>)
  /\ UNCHANGED <<forge, check_contracts, current_block, header, vars, phase>>

\* Mutant: the exit marker is forgotten.
EnterZoneForGood ==
  /\ NowExpr("zone")
  /\ LET e == Head(tasks).e
     IN  /\ mir' = Emit(mir, current_block, ZoneEnter(e.name))
         /\ Done(<<BlockTask(e.body)>>)
  /\ UNCHANGED <<forge, check_contracts, current_block, header, vars, values, phase>>

EnterZone ==
  /\ NowExpr("zone")
  /\ LET e == Head(tasks).e
     IN  /\ mir' = Emit(mir, current_block, ZoneEnter(e.name))
         /\ Done(<<BlockTask(e.body), EmitZoneExit(e.name)>>)
  /\ UNCHANGED <<forge, check_contracts, current_block, header, vars, values, phase>>

ExitZone ==
  /\ Now("zone_exit")
  /\ mir' = Emit(mir, current_block, ZoneExit(Head(tasks).name))
  /\ Done(<<>>)
  /\ UNCHANGED <<forge, check_contracts, current_block, header, vars, values, phase>>

\* A self call in return position: the arguments go to fresh locals, which
\* the parameters' names stand for from here on, and the header is next.
PushTailCall ==
  /\ Now("tail_call")
  /\ LET args == TopOperands(Head(tasks).n)
         n    == IF Len(args) < Len(forge.params) THEN Len(args) ELSE Len(forge.params)
         moves == [i \in 1 .. n |-> Assign(Len(mir.ty) + i, <<args[i]>>)]
     IN  /\ mir' = Jump(EmitAll(NewLocals(mir, n), current_block, moves), current_block, header)
         /\ vars' = [x \in DOMAIN vars |->
                       IF \E i \in 1 .. n : forge.params[i] = x
                       THEN Len(mir.ty) + (CHOOSE i \in 1 .. n : forge.params[i] = x)
                       ELSE vars[x]]
         /\ values' = Append(Popped(Head(tasks).n), UseOf(Const(0)))
  /\ Done(<<>>)
  /\ UNCHANGED <<forge, check_contracts, current_block, header, phase>>

\* The terminator is set, whatever it was; current_block stays, and what is
\* lowered next is appended to it.
PushReturn ==
  /\ Now("return")
  /\ LET n == Head(tasks).n
     IN  /\ mir' = Terminate(mir, current_block, Return(TopOperands(n)))
         /\ values' = Append(Popped(n), UseOf(Const(0)))
  /\ Done(<<>>)
  /\ UNCHANGED <<forge, check_contracts, current_block, header, vars, phase>>

\* given: blocks for both arms and their join; the else part is lowered into
\* its own block, an absent one leaves it empty.
OpenGiven ==
  /\ Now("open")
  /\ LET e       == Head(tasks).e
         then_id == mir.size
         else_id == mir.size + 1
         join_id == mir.size + 2
         else    == IF e.els = None THEN <<>> ELSE <<ExprTask(e.els[1], None), Drop>>
     IN  /\ mir' = Fork(AddBlocks(mir, 3), current_block, Top.args[1], then_id, else_id)
         /\ current_block' = then_id
         /\ Done(<<BlockTask(e.then), Drop, CloseArm(join_id, else_id)>>
                   \o else \o <<CloseArm(join_id, join_id), ExprTask(Lit(0), None)>>)
  /\ values' = Popped(1)
  /\ UNCHANGED <<forge, check_contracts, header, vars, phase>>

\* while: blocks for the test, the body and what follows.
OpenWhile ==
  /\ NowExpr("while")
  /\ LET e       == Head(tasks).e
         cond_id == mir.size
         body_id == mir.size + 1
         exit_id == mir.size + 2
     IN  /\ mir' = Jump(AddBlocks(mir, 3), current_block, cond_id)
         /\ current_block' = cond_id
         /\ Done(<<OperandTask(e.cond, None), TestLoop(cond_id, body_id, exit_id),
                   BlockTask(e.body), Drop, CloseArm(cond_id, exit_id),
                   ExprTask(Lit(0), None)>>)
  /\ UNCHANGED <<forge, check_contracts, header, vars, values, phase>>

\* The loop's branch is put on the block the test began in, even if lowering
\* the condition has moved on from it.
BranchOnTest ==
  /\ Now("test")
  /\ LET task == Head(tasks)
     IN  /\ mir' = Fork(mir, task.cond_id, Top.args[1], task.body_id, task.exit_id)
         /\ current_block' = task.body_id
  /\ values' = Popped(1)
  /\ Done(<<>>)
  /\ UNCHANGED <<forge, check_contracts, header, vars, phase>>

\* The end of an arm or of a loop's body: on to the join, unless it returns.
JoinUnlessTerminated(b, n, join) ==
  IF Term(b, n) = NoTerminator THEN Jump(b, n, join) ELSE b

EndArm ==
  /\ Now("close")
  /\ mir' = JoinUnlessTerminated(mir, current_block, Head(tasks).join)
  /\ current_block' = Head(tasks).next
  /\ Done(<<>>)
  /\ UNCHANGED <<forge, check_contracts, header, vars, values, phase>>

\* The body's value is dropped; a block without a terminator returns nothing.
FinishForge ==
  /\ phase = "lower" /\ tasks = <<>>
  /\ mir' = IF Term(mir, current_block) = NoTerminator
            THEN Terminate(mir, current_block, Return(<<>>)) ELSE mir
  /\ phase' = "lowered"
  /\ UNCHANGED <<forge, check_contracts, current_block, header, vars, tasks, values>>

LowerExpr ==
  \/ LowerLiteral \/ LowerIdent \/ RvalueToOperand \/ MakeRvalue
  \/ PushAssert \/ PushCall \/ PushTailCall \/ PushReturn
  \/ EnterZone \/ ExitZone \/ OpenGiven \/ OpenWhile \/ BranchOnTest \/ EndArm

LowerNext == StartForge \/ Expand \/ LowerExpr \/ StoreVariable \/ DropValue \/ FinishForge

LowerSpec == LowerInit /\ [][LowerNext]_lowerVars

\* Every jump the compiled code can make is an edge of the graph that the
\* borrow checker and the dead-code pass walk, for every program and at every
\* moment of lowering: blocks get their terminators and their edges in
\* separate statements of lower.rs, and some terminators are overwritten.
TargetsAreEdges == TargetsAreSuccessors(mir)

=============================================================================
