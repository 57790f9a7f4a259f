---------------------------- MODULE MirLower_proofs ----------------------------
(***************************************************************************)
(* Theorems about the lowering to MIR: for every set of forges, the blocks *)
(* it names exist and the graph it builds has an edge for every jump.      *)
(***************************************************************************)
EXTENDS MirLower, SequenceTheorems, TLAPS

-----------------------------------------------------------------------------
(* The graph.  A body is known by its parts only: what instructions it holds *)
(* and how many locals plays no role here.                                   *)

\* Edges join blocks, and every target of a terminator is an edge.
Graph(b) ==
  /\ b.size \in Nat \ {0}
  /\ \A n \in Blocks(b) : Succ(b, n) \subseteq Blocks(b)
  /\ TargetsAreSuccessors(b)

\* What replacing one block takes: its edges and targets are in order.
LEMMA WithBlockKeepsGraph ==
  ASSUME NEW b, Graph(b), NEW n \in Blocks(b), NEW code, NEW term, NEW succ \in SUBSET Blocks(b),
         \A i \in DOMAIN term.to : term.to[i] \in succ
  PROVE  /\ Graph(WithBlock(b, n, BasicBlock(code, term, succ)))
         /\ Blocks(WithBlock(b, n, BasicBlock(code, term, succ))) = Blocks(b)
         /\ Succ(WithBlock(b, n, BasicBlock(code, term, succ)), n) = succ
BY DEF Graph, TargetsAreSuccessors, Blocks, Succ, Term, WithBlock, BasicBlock, Body

\* Appending instructions, as every push onto a block's instructions does,
\* leaves the graph as it was.
LEMMA EmitKeepsGraph ==
  ASSUME NEW b, Graph(b), NEW n \in Blocks(b), NEW code
  PROVE  Graph(EmitAll(b, n, code)) /\ Blocks(EmitAll(b, n, code)) = Blocks(b)
BY WithBlockKeepsGraph DEF EmitAll, Graph, TargetsAreSuccessors

\* new_local leaves the graph as it was, and so does making the parameters.
LEMMA LocalsKeepGraph ==
  ASSUME NEW b, Graph(b), NEW count
  PROVE  /\ Graph(NewLocals(b, count)) /\ Blocks(NewLocals(b, count)) = Blocks(b)
         /\ Graph(WithParams(b, count)) /\ Blocks(WithParams(b, count)) = Blocks(b)
BY DEF Graph, TargetsAreSuccessors, Blocks, Succ, Term, NewLocals, WithParams, Body

\* A terminator without targets, as a return is, needs no edge.
LEMMA ReturnKeepsGraph ==
  ASSUME NEW b, Graph(b), NEW n \in Blocks(b), NEW args
  PROVE  Graph(Terminate(b, n, Return(args))) /\ Blocks(Terminate(b, n, Return(args))) = Blocks(b)
BY WithBlockKeepsGraph DEF Terminate, Return, Graph

\* add_edge leaves the targets among the edges.
LEMMA EdgeKeepsGraph ==
  ASSUME NEW b, Graph(b), NEW n \in Blocks(b), NEW m \in Blocks(b)
  PROVE  /\ Graph(Edge(b, n, m)) /\ Blocks(Edge(b, n, m)) = Blocks(b)
         /\ Succ(Edge(b, n, m), n) = Succ(b, n) \cup {m}
BY WithBlockKeepsGraph DEF Edge, Graph, TargetsAreSuccessors

\* add_edge followed by a Goto.
LEMMA JumpKeepsGraph ==
  ASSUME NEW b, Graph(b), NEW n \in Blocks(b), NEW m \in Blocks(b)
  PROVE  Graph(Jump(b, n, m)) /\ Blocks(Jump(b, n, m)) = Blocks(b)
<1> DEFINE c == Edge(b, n, m)
<1>1. Graph(c) /\ Blocks(c) = Blocks(b) /\ m \in Succ(c, n)
  BY EdgeKeepsGraph
<1>2. \A i \in DOMAIN Goto(m).to : Goto(m).to[i] \in Succ(c, n)
  BY <1>1 DEF Goto
<1>3. Succ(c, n) \in SUBSET Blocks(c)
  BY <1>1 DEF Graph
<1> HIDE DEF c
<1>4. Graph(Terminate(c, n, Goto(m))) /\ Blocks(Terminate(c, n, Goto(m))) = Blocks(c)
  BY <1>1, <1>2, <1>3, WithBlockKeepsGraph DEF Terminate
<1>5. QED
  BY <1>1, <1>4 DEF Jump, c

\* Two add_edges followed by a SwitchInt.
LEMMA ForkKeepsGraph ==
  ASSUME NEW b, Graph(b), NEW n \in Blocks(b), NEW op, NEW m \in Blocks(b), NEW k \in Blocks(b)
  PROVE  Graph(Fork(b, n, op, m, k)) /\ Blocks(Fork(b, n, op, m, k)) = Blocks(b)
<1> DEFINE c == Edge(b, n, m)
           d == Edge(c, n, k)
<1>1. Graph(c) /\ Blocks(c) = Blocks(b) /\ m \in Succ(c, n)
  BY EdgeKeepsGraph
<1> HIDE DEF c
<1>2. Graph(d) /\ Blocks(d) = Blocks(b) /\ {m, k} \subseteq Succ(d, n)
  BY <1>1, EdgeKeepsGraph
<1>3. \A i \in DOMAIN SwitchInt(op, m, k).to : SwitchInt(op, m, k).to[i] \in Succ(d, n)
  BY <1>2 DEF SwitchInt
<1>4. Succ(d, n) \in SUBSET Blocks(d)
  BY <1>2 DEF Graph
<1> HIDE DEF d
<1>5. /\ Graph(Terminate(d, n, SwitchInt(op, m, k)))
      /\ Blocks(Terminate(d, n, SwitchInt(op, m, k))) = Blocks(d)
  BY <1>2, <1>3, <1>4, WithBlockKeepsGraph DEF Terminate
<1>6. QED
  BY <1>2, <1>5 DEF Fork, c, d

\* add_node: the new blocks are empty and unconnected.
LEMMA AddBlocksKeepsGraph ==
  ASSUME NEW b, Graph(b), NEW count \in Nat
  PROVE  /\ Graph(AddBlocks(b, count))
         /\ Blocks(AddBlocks(b, count)) = 0 .. b.size + count - 1
BY DEF Graph, TargetsAreSuccessors, Blocks, Succ, Term, AddBlocks, EmptyBlock, BasicBlock, Body,
       NoTerminator

LEMMA EmptyBodyIsGraph == Graph(EmptyBody) /\ Blocks(EmptyBody) = {0}
BY DEF Graph, TargetsAreSuccessors, Blocks, Succ, Term, EmptyBody, EmptyBlock, BasicBlock, Body,
       NoTerminator

-----------------------------------------------------------------------------
(* Tasks.  Those that name blocks name blocks of B, and those that carry     *)
(* pieces of HIR carry well-formed ones.                                     *)

Tasks(B) ==
  [t : {"block"}, body : HirBodies(Exprs)]
    \cup [t : {"stmt"}, stmt : Stmts(Exprs)]
    \cup [t : {"expr", "operand", "contract"}, e : Exprs, subst : Optional(Exprs)]
    \cup [t : {"to_operand", "drop", "assert"}]
    \cup [t : {"store"}, x : STRING]
    \cup [t : {"make"}, rv : {"add", "mul", "not", "neg"}, n : Nat]
    \cup {EmitCall(e.callee, Len(e.args), e.void) : e \in Exprs}
    \cup [t : {"tail_call", "return"}, n : Nat]
    \cup {EmitZoneExit(e.name) : e \in Exprs}
    \cup {Open(e) : e \in {f \in Exprs : f.k = "given"}}
    \cup [t : {"test"}, cond_id : B, body_id : B, exit_id : B]
    \cup [t : {"close"}, join : B, next : B]

\* What a task of each kind carries.
LEMMA TaskCarries ==
  ASSUME NEW B, NEW task \in Tasks(B)
  PROVE  /\ task.t = "block" => task.body \in HirBodies(Exprs)
         /\ task.t = "stmt"  => task.stmt \in Stmts(Exprs)
         /\ task.t \in {"expr", "operand", "contract"} =>
              task.e \in Exprs /\ task.subst \in Optional(Exprs)
         /\ task.t = "open"  => task.e \in Exprs /\ task.e.k = "given"
         /\ task.t = "test"  => task.cond_id \in B /\ task.body_id \in B /\ task.exit_id \in B
         /\ task.t = "close" => task.join \in B /\ task.next \in B
BY DEF Tasks, EmitCall, EmitZoneExit, Open

\* More blocks, more tasks.
LEMMA TasksGrow ==
  ASSUME NEW B, NEW C, B \subseteq C
  PROVE  Seq(Tasks(B)) \subseteq Seq(Tasks(C))
<1>1. Tasks(B) \subseteq Tasks(C)
  BY DEF Tasks
<1>2. QED
  BY <1>1

\* The constructors give tasks.
LEMMA Constructors ==
  ASSUME NEW B
  PROVE  /\ \A body \in HirBodies(Exprs) : BlockTask(body) \in Tasks(B)
         /\ \A stmt \in Stmts(Exprs) : StmtTask(stmt) \in Tasks(B)
         /\ \A e \in Exprs, subst \in Optional(Exprs) :
              /\ ExprTask(e, subst) \in Tasks(B)
              /\ OperandTask(e, subst) \in Tasks(B)
              /\ ContractTask(e, subst) \in Tasks(B)
         /\ {ToOperand, Drop, EmitAssert} \subseteq Tasks(B)
         /\ \A x \in STRING : Store(x) \in Tasks(B)
         /\ \A n \in Nat : {TailCall(n), EmitReturn(n)} \subseteq Tasks(B)
         /\ \A i, j, k \in B : TestLoop(i, j, k) \in Tasks(B) /\ CloseArm(i, j) \in Tasks(B)
BY DEF Tasks, BlockTask, StmtTask, ExprTask, OperandTask, ContractTask, ToOperand, Drop,
       EmitAssert, Store, TailCall, EmitReturn, TestLoop, CloseArm

\* The operations the lowering knows make tasks.
LEMMA Operations ==
  ASSUME NEW B, NEW op
  PROVE  Make(MirBinOp(op), 2) \in Tasks(B) /\ Make(MirUnOp(op), 1) \in Tasks(B)
<1> DEFINE rvs == {"add", "mul", "not", "neg"}
<1>1. MirBinOp(op) \in rvs /\ MirUnOp(op) \in rvs
  BY DEF MirBinOp, MirUnOp
<1>2. \A rv \in rvs, n \in Nat : Make(rv, n) \in Tasks(B)
  BY DEF Make, Tasks
<1> QED  BY <1>1, <1>2

\* Nothing in place of result.
LEMMA NoneIsOptional == None \in Optional(Exprs)
BY DEF None, Optional

\* The tasks of a list of arguments or of contracts.
LEMMA ListsOfTasks ==
  ASSUME NEW B, NEW exprs \in Seq(Exprs), NEW subst \in Optional(Exprs)
  PROVE  OperandTasks(exprs, subst) \in Seq(Tasks(B)) /\ ContractTasks(exprs, subst) \in Seq(Tasks(B))
<1>1. \A i \in DOMAIN exprs : exprs[i] \in Exprs
  OBVIOUS
<1>2. \A i \in DOMAIN exprs : /\ OperandTask(exprs[i], subst) \in Tasks(B)
                             /\ ContractTask(exprs[i], subst) \in Tasks(B)
  BY <1>1, Constructors
<1>3. [i \in DOMAIN exprs |-> OperandTask(exprs[i], subst)] \in Seq(Tasks(B))
  BY <1>2
<1>4. [i \in DOMAIN exprs |-> ContractTask(exprs[i], subst)] \in Seq(Tasks(B))
  BY <1>2
<1> QED
  BY <1>3, <1>4 DEF OperandTasks, ContractTasks

-----------------------------------------------------------------------------
(* The parts of a compound task are tasks *)

LEMMA BlockParts ==
  ASSUME NEW B, NEW task \in Tasks(B), task.t = "block"
  PROVE  Parts(task) \in Seq(Tasks(B))
<1> DEFINE body  == task.body
           stmts == [i \in DOMAIN body.stmts |-> StmtTask(body.stmts[i])]
           tail  == IF body.tail = None THEN Lit(0) ELSE body.tail[1]
<1>1. body.stmts \in Seq(Stmts(Exprs)) /\ body.tail \in Optional(Exprs)
  BY TaskCarries DEF HirBodies
<1>2. stmts \in Seq(Tasks(B))
  BY <1>1, Constructors
<1>3. tail \in Exprs
  BY <1>1, ExprsAssumption DEF Optional, None
<1>4. ExprTask(tail, None) \in Tasks(B)
  BY <1>3, Constructors, NoneIsOptional
<1>5. Parts(task) = stmts \o <<ExprTask(tail, None)>>
  BY DEF Parts
<1>6. QED
  BY <1>2, <1>4, <1>5

LEMMA StmtTaskParts ==
  ASSUME NEW B, NEW task \in Tasks(B), task.t = "stmt"
  PROVE  Parts(task) \in Seq(Tasks(B))
<1>1. task.stmt \in Stmts(Exprs)
  BY TaskCarries
<1>2. Parts(task) = StmtParts(task.stmt)
  BY DEF Parts
<1>3. CASE task.stmt.s = "let"
  <2>1. task.stmt.init \in Optional(Exprs) /\ task.stmt.x \in STRING
    BY <1>1, <1>3 DEF Stmts
  <2>2. CASE task.stmt.init = None
    BY <1>2, <1>3, <2>2 DEF StmtParts
  <2>3. CASE task.stmt.init # None
    <3>1. task.stmt.init[1] \in Exprs
      BY <2>1, <2>3 DEF Optional, None
    <3>2. ExprTask(task.stmt.init[1], None) \in Tasks(B) /\ Store(task.stmt.x) \in Tasks(B)
      BY <2>1, <3>1, Constructors, NoneIsOptional
    <3>3. QED
      BY <1>2, <1>3, <2>3, <3>2 DEF StmtParts
  <2>4. QED
    BY <2>2, <2>3
<1>4. CASE task.stmt.s = "assign"
  <2>1. ExprTask(task.stmt.e, None) \in Tasks(B) /\ Store(task.stmt.x) \in Tasks(B)
    BY <1>1, <1>4, Constructors, NoneIsOptional DEF Stmts
  <2>2. QED
    BY <1>2, <1>4, <2>1 DEF StmtParts
<1>5. CASE task.stmt.s = "expr"
  <2>1. ExprTask(task.stmt.e, None) \in Tasks(B) /\ Drop \in Tasks(B)
    BY <1>1, <1>5, Constructors, NoneIsOptional DEF Stmts
  <2>2. QED
    BY <1>2, <1>5, <2>1 DEF StmtParts
<1>6. QED
  BY <1>1, <1>3, <1>4, <1>5 DEF Stmts

\* A return: the arguments of a self tail call, or the value and the
\* postconditions with the value in place of result.
LEMMA ReturnTaskParts ==
  ASSUME NEW B, NEW e \in Exprs, e.k = "return", forge \in Forges
  PROVE  ReturnParts(e) \in Seq(Tasks(B))
<1>1. e.value \in Optional(Exprs)
  BY ExprsAssumption DEF IsExpr
<1>2. CASE SelfTailCall(e)
  <2>1. e.value[1] \in Exprs /\ e.value[1].k = "call"
    BY <1>1, <1>2 DEF SelfTailCall, Optional, None
  <2>2. e.value[1].args \in Seq(Exprs)
    BY <2>1, ExprsAssumption DEF IsExpr
  <2>3. OperandTasks(e.value[1].args, None) \in Seq(Tasks(B))
    BY <2>2, ListsOfTasks, NoneIsOptional
  <2>4. TailCall(Len(e.value[1].args)) \in Tasks(B)
    BY <2>2, Constructors
  <2>5. QED
    BY <1>2, <2>3, <2>4 DEF ReturnParts
<1>3. CASE ~SelfTailCall(e) /\ e.value = None
  <2>1. EmitReturn(0) \in Tasks(B)
    BY Constructors
  <2>2. QED
    BY <1>3, <2>1 DEF ReturnParts
<1>4. CASE ~SelfTailCall(e) /\ e.value # None
  <2> e.value[1] \in Exprs
    BY <1>1, <1>4 DEF Optional, None
  <2>1. OperandTask(e.value[1], None) \in Tasks(B)
    BY Constructors, NoneIsOptional
  <2>2. ContractTasks(forge.ensures, e.value) \in Seq(Tasks(B))
    BY <1>1, ListsOfTasks, ForgesAssumption DEF IsForge
  <2>3. EmitReturn(1) \in Tasks(B)
    BY Constructors
  <2>4. QED
    BY <1>4, <2>1, <2>2, <2>3 DEF ReturnParts
<1>5. QED
  BY <1>2, <1>3, <1>4

LEMMA ExprTaskParts ==
  ASSUME NEW B, NEW task \in Tasks(B), task.t = "expr", forge \in Forges,
         task.e.k \in {"binary", "unary", "call", "return", "given"} \/ IsResult(task)
  PROVE  Parts(task) \in Seq(Tasks(B))
<1>1. task.e \in Exprs /\ task.subst \in Optional(Exprs)
  BY TaskCarries
<1>2. IsExpr(task.e, Exprs)
  BY <1>1, ExprsAssumption
<1>3. CASE IsResult(task)
  <2>1. task.subst[1] \in Exprs
    BY <1>1, <1>3 DEF IsResult, Optional, None
  <2>2. ExprTask(task.subst[1], None) \in Tasks(B)
    BY <2>1, Constructors, NoneIsOptional
  <2>3. Parts(task) = <<ExprTask(task.subst[1], None)>>
    BY <1>3 DEF Parts, IsResult
  <2>4. QED
    BY <2>2, <2>3
<1>4. CASE task.e.k = "binary"
  <2>1. <<task.e.left, task.e.right>> \in Seq(Exprs)
    BY <1>2, <1>4 DEF IsExpr
  <2>2. OperandTasks(<<task.e.left, task.e.right>>, task.subst) \in Seq(Tasks(B))
    BY <1>1, <2>1, ListsOfTasks
  <2>3. Make(MirBinOp(task.e.op), 2) \in Tasks(B)
    BY Operations
  <2>4. Parts(task) = OperandTasks(<<task.e.left, task.e.right>>, task.subst) \o <<Make(MirBinOp(task.e.op), 2)>>
    BY <1>4 DEF Parts
  <2>5. QED
    BY <2>2, <2>3, <2>4
<1>5. CASE task.e.k = "unary"
  <2>1. OperandTask(task.e.inner, task.subst) \in Tasks(B) /\ Make(MirUnOp(task.e.op), 1) \in Tasks(B)
    BY <1>1, <1>2, <1>5, Constructors, Operations DEF IsExpr
  <2>2. Parts(task) = <<OperandTask(task.e.inner, task.subst), Make(MirUnOp(task.e.op), 1)>>
    BY <1>5 DEF Parts
  <2>3. QED
    BY <2>1, <2>2
<1>6. CASE task.e.k = "call"
  <2> DEFINE emit == EmitCall(task.e.callee, Len(task.e.args), task.e.void)
  <2>1. task.e.args \in Seq(Exprs) /\ task.e.requires \in Seq(Exprs)
    BY <1>2, <1>6 DEF IsExpr
  <2>2. /\ OperandTasks(task.e.args, task.subst) \in Seq(Tasks(B))
        /\ ContractTasks(task.e.requires, task.subst) \in Seq(Tasks(B))
    BY <1>1, <2>1, ListsOfTasks
  <2>3. emit \in Tasks(B)
    BY <1>1 DEF Tasks
  <2>4. Parts(task) = OperandTasks(task.e.args, task.subst)
                        \o ContractTasks(task.e.requires, task.subst) \o <<emit>>
    BY <1>6 DEF Parts
  <2>5. QED
    BY <2>2, <2>3, <2>4
<1>7. CASE task.e.k = "return"
  <2>1. Parts(task) = ReturnParts(task.e)
    BY <1>7 DEF Parts
  <2>2. QED
    BY <1>1, <1>7, <2>1, ReturnTaskParts
<1>8. CASE task.e.k = "given"
  <2>1. OperandTask(task.e.cond, None) \in Tasks(B)
    BY <1>2, <1>8, Constructors, NoneIsOptional DEF IsExpr
  <2>2. Open(task.e) \in Tasks(B)
    BY <1>1, <1>8 DEF Tasks
  <2>3. Parts(task) = <<OperandTask(task.e.cond, None), Open(task.e)>>
    BY <1>8 DEF Parts
  <2>4. QED
    BY <2>1, <2>2, <2>3
<1>9. QED
  BY <1>3, <1>4, <1>5, <1>6, <1>7, <1>8

LEMMA OtherTaskParts ==
  ASSUME NEW B, NEW task \in Tasks(B), task.t \in {"operand", "contract"}
  PROVE  Parts(task) \in Seq(Tasks(B))
<1>1. task.e \in Exprs /\ task.subst \in Optional(Exprs)
  BY TaskCarries
<1>2. /\ {ExprTask(task.e, task.subst), OperandTask(task.e, task.subst)} \subseteq Tasks(B)
      /\ {ToOperand, EmitAssert} \subseteq Tasks(B)
  BY <1>1, Constructors
<1>3. CASE task.t = "operand"
  BY <1>2, <1>3 DEF Parts
<1>4. CASE task.t = "contract"
  BY <1>2, <1>4 DEF Parts
<1>5. QED
  BY <1>3, <1>4

-----------------------------------------------------------------------------
(* The invariant *)

IInv ==
  /\ forge \in Forges
  /\ phase \in {"start", "lower", "lowered"}
  /\ Graph(mir)
  /\ phase = "start" => mir = EmptyBody
  /\ current_block \in Blocks(mir)
  /\ header \in Blocks(mir)
  /\ tasks \in Seq(Tasks(Blocks(mir)))

LEMMA InitIInv == LowerInit => IInv
BY EmptyBodyIsGraph DEF LowerInit, IInv

\* What most steps do: they leave blocks and phase alone, keep the graph, and
\* put more tasks before the rest.
LEMMA KeepsIInv ==
  ASSUME IInv, Lowering, Graph(mir'), Blocks(mir') = Blocks(mir),
         UNCHANGED <<forge, header, phase>>, current_block' \in Blocks(mir),
         NEW more \in Seq(Tasks(Blocks(mir))), Done(more)
  PROVE  IInv'
<1>1. tasks \in Seq(Tasks(Blocks(mir))) /\ tasks # <<>>
  BY DEF IInv, Lowering
<1>2. Tail(tasks) \in Seq(Tasks(Blocks(mir)))
  BY <1>1
<1>3. tasks' \in Seq(Tasks(Blocks(mir)))
  BY <1>2 DEF Done
<1>4. QED
  BY <1>3 DEF IInv, Lowering

LEMMA HeadIsTask ==
  ASSUME IInv, Lowering
  PROVE  Head(tasks) \in Tasks(Blocks(mir))
BY DEF IInv, Lowering

LEMMA StartForgeKeepsIInv == IInv /\ StartForge => IInv'
<1> SUFFICES ASSUME IInv, StartForge PROVE IInv'
  OBVIOUS
<1> DEFINE two  == AddBlocks(mir, 1)
           with == WithParams(two, Len(forge.params))
<1>1. Graph(mir) /\ mir.size = 1
  BY DEF IInv, StartForge, EmptyBody, Body
<1>2. Graph(two) /\ Blocks(two) = {0, 1}
  BY <1>1, AddBlocksKeepsGraph
<1> HIDE DEF two
<1>3. Graph(with) /\ Blocks(with) = {0, 1}
  BY <1>2, LocalsKeepGraph
<1> HIDE DEF with
<1>4. Graph(Jump(with, 0, 1)) /\ Blocks(Jump(with, 0, 1)) = {0, 1}
  BY <1>3, JumpKeepsGraph
<1>5. mir' = Jump(with, 0, 1)
  BY DEF StartForge, with, two
<1>6. BlockTask(forge.body) \in Tasks({0, 1})
  BY Constructors, ForgesAssumption DEF IInv, IsForge
<1>7. tasks' \in Seq(Tasks({0, 1}))
  BY <1>6 DEF StartForge
<1>8. current_block' = 1 /\ header' = 1 /\ phase' = "lower" /\ forge' = forge
  BY DEF StartForge
<1>9. QED
  BY <1>4, <1>5, <1>7, <1>8 DEF IInv

LEMMA ExpandKeepsIInv == IInv /\ Expand => IInv'
<1> SUFFICES ASSUME IInv, Expand PROVE IInv'
  OBVIOUS
<1> DEFINE task == Head(tasks)
           B    == Blocks(mir)
<1>1. Lowering /\ task \in Tasks(B) /\ forge \in Forges /\ Graph(mir) /\ current_block \in B
  BY HeadIsTask DEF Expand, IInv
<1>2. Parts(task) \in Seq(Tasks(B))
  <2>1. CASE task.t = "block"
    BY <1>1, <2>1, BlockParts
  <2>2. CASE task.t = "stmt"
    BY <1>1, <2>2, StmtTaskParts
  <2>3. CASE task.t \in {"operand", "contract"}
    BY <1>1, <2>3, OtherTaskParts
  <2>4. CASE /\ task.t = "expr"
             /\ task.e.k \in {"binary", "unary", "call", "return", "given"} \/ IsResult(task)
    BY <1>1, <2>4, ExprTaskParts
  <2>5. QED
    BY <2>1, <2>2, <2>3, <2>4 DEF Expand
<1>3. Done(Parts(task)) /\ UNCHANGED <<mir, forge, header, phase, current_block>>
  BY DEF Expand
<1> HIDE DEF task
<1>4. QED
  BY <1>1, <1>2, <1>3, KeepsIInv

\* The steps that append instructions, or make a local, and nothing else.
LEMMA AppendingKeepsIInv ==
  ASSUME IInv,
         \/ LowerLiteral \/ LowerIdent \/ RvalueToOperand \/ MakeRvalue \/ StoreVariable
         \/ DropValue \/ PushAssert \/ PushCall \/ ExitZone
  PROVE  IInv'
<1>1. Graph(mir) /\ current_block \in Blocks(mir)
  BY DEF IInv
<1>2. /\ Lowering
      /\ Done(<<>>)
      /\ UNCHANGED <<forge, header, phase, current_block>>
  BY DEF LowerLiteral, LowerIdent, RvalueToOperand, MakeRvalue, StoreVariable, DropValue,
         PushAssert, PushCall, ExitZone, Now, NowExpr
<1>3. \A count, ins :
        /\ Graph(NewLocals(mir, count)) /\ Blocks(NewLocals(mir, count)) = Blocks(mir)
        /\ Graph(Emit(mir, current_block, ins)) /\ Blocks(Emit(mir, current_block, ins)) = Blocks(mir)
        /\ Graph(Emit(NewLocals(mir, count), current_block, ins))
        /\ Blocks(Emit(NewLocals(mir, count), current_block, ins)) = Blocks(mir)
  BY <1>1, LocalsKeepGraph, EmitKeepsGraph DEF Emit
<1>4. Graph(mir') /\ Blocks(mir') = Blocks(mir)
  BY <1>1, <1>3 DEF LowerLiteral, LowerIdent, RvalueToOperand, MakeRvalue, StoreVariable,
                    DropValue, PushAssert, PushCall, ExitZone
<1>5. <<>> \in Seq(Tasks(Blocks(mir)))
  OBVIOUS
<1>6. QED
  BY <1>1, <1>2, <1>4, <1>5, KeepsIInv

LEMMA EnterZoneKeepsIInv == IInv /\ EnterZone => IInv'
<1> SUFFICES ASSUME IInv, EnterZone PROVE IInv'
  OBVIOUS
<1> DEFINE e    == Head(tasks).e
           more == <<BlockTask(e.body), EmitZoneExit(e.name)>>
<1>1. Graph(mir) /\ current_block \in Blocks(mir) /\ Lowering
  BY DEF IInv, EnterZone, NowExpr, Now
<1>2. e \in Exprs /\ e.k = "zone"
  BY <1>1, HeadIsTask, TaskCarries DEF EnterZone, NowExpr, Now
<1>3. e.body \in HirBodies(Exprs)
  BY <1>2, ExprsAssumption DEF IsExpr
<1>4. BlockTask(e.body) \in Tasks(Blocks(mir)) /\ EmitZoneExit(e.name) \in Tasks(Blocks(mir))
  <2>1. BlockTask(e.body) \in Tasks(Blocks(mir))
    BY <1>3, Constructors
  <2>2. EmitZoneExit(e.name) \in Tasks(Blocks(mir))
    BY <1>2 DEF Tasks
  <2>3. QED
    BY <2>1, <2>2
<1>5. Done(more) /\ UNCHANGED <<forge, header, phase, current_block>>
  BY DEF EnterZone
<1>6. Graph(mir') /\ Blocks(mir') = Blocks(mir)
  BY <1>1, EmitKeepsGraph DEF EnterZone, Emit
<1>7. more \in Seq(Tasks(Blocks(mir)))
  BY <1>4
<1> HIDE DEF more
<1>8. QED
  BY <1>1, <1>5, <1>6, <1>7, KeepsIInv

LEMMA PushTailCallKeepsIInv == IInv /\ PushTailCall => IInv'
<1> SUFFICES ASSUME IInv, PushTailCall PROVE IInv'
  OBVIOUS
<1>1. Graph(mir) /\ current_block \in Blocks(mir) /\ header \in Blocks(mir) /\ Lowering
  BY DEF IInv, PushTailCall, Now
<1>2. \A n, moves :
        LET c == EmitAll(NewLocals(mir, n), current_block, moves)
        IN  Graph(c) /\ Blocks(c) = Blocks(mir)
  BY <1>1, LocalsKeepGraph, EmitKeepsGraph
<1>3. PICK c : Graph(c) /\ Blocks(c) = Blocks(mir) /\ mir' = Jump(c, current_block, header)
  BY <1>2 DEF PushTailCall
<1>4. Graph(mir') /\ Blocks(mir') = Blocks(mir)
  BY <1>1, <1>3, JumpKeepsGraph
<1>5. Done(<<>>) /\ UNCHANGED <<forge, header, phase, current_block>>
  BY DEF PushTailCall
<1>6. <<>> \in Seq(Tasks(Blocks(mir)))
  OBVIOUS
<1>7. QED
  BY <1>1, <1>4, <1>5, <1>6, KeepsIInv

LEMMA PushReturnKeepsIInv == IInv /\ PushReturn => IInv'
<1> SUFFICES ASSUME IInv, PushReturn PROVE IInv'
  OBVIOUS
<1>1. Graph(mir) /\ current_block \in Blocks(mir) /\ Lowering
  BY DEF IInv, PushReturn, Now
<1>2. Graph(mir') /\ Blocks(mir') = Blocks(mir)
  BY <1>1, ReturnKeepsGraph DEF PushReturn
<1>3. Done(<<>>) /\ UNCHANGED <<forge, header, phase, current_block>>
  BY DEF PushReturn
<1>4. <<>> \in Seq(Tasks(Blocks(mir)))
  OBVIOUS
<1>5. QED
  BY <1>1, <1>2, <1>3, <1>4, KeepsIInv

\* The steps that add three blocks, at the numbers size, size + 1, size + 2.
LEMMA AddingThree ==
  ASSUME IInv
  PROVE  LET c == AddBlocks(mir, 3)
         IN  /\ Graph(c)
             /\ Blocks(mir) \subseteq Blocks(c)
             /\ {mir.size, mir.size + 1, mir.size + 2} \subseteq Blocks(c)
             /\ current_block \in Blocks(c) /\ header \in Blocks(c)
             /\ Seq(Tasks(Blocks(mir))) \subseteq Seq(Tasks(Blocks(c)))
<1> DEFINE c == AddBlocks(mir, 3)
<1>1. Graph(mir) /\ mir.size \in Nat \ {0}
  BY DEF IInv, Graph
<1>2. Graph(c) /\ Blocks(c) = 0 .. mir.size + 2
  BY <1>1, AddBlocksKeepsGraph
<1> HIDE DEF c
<1> Blocks(mir) = 0 .. mir.size - 1
  BY DEF Blocks
<1>3. Blocks(mir) \subseteq Blocks(c) /\ {mir.size, mir.size + 1, mir.size + 2} \subseteq Blocks(c)
  BY <1>1, <1>2
<1>4. Seq(Tasks(Blocks(mir))) \subseteq Seq(Tasks(Blocks(c)))
  BY <1>3, TasksGrow
<1>5. QED
  BY <1>2, <1>3, <1>4 DEF IInv, c

LEMMA OpenGivenKeepsIInv == IInv /\ OpenGiven => IInv'
<1> SUFFICES ASSUME IInv, OpenGiven PROVE IInv'
  OBVIOUS
<1> DEFINE e       == Head(tasks).e
           c       == AddBlocks(mir, 3)
           B       == Blocks(c)
           then_id == mir.size
           else_id == mir.size + 1
           join_id == mir.size + 2
           else    == IF e.els = None THEN <<>> ELSE <<ExprTask(e.els[1], None), Drop>>
           first   == <<BlockTask(e.then), Drop, CloseArm(join_id, else_id)>>
           last    == <<CloseArm(join_id, join_id), ExprTask(Lit(0), None)>>
<1>1. Lowering
  BY DEF OpenGiven, Now
<1>2. e \in Exprs /\ e.k = "given"
  BY <1>1, HeadIsTask, TaskCarries DEF OpenGiven, Now
<1>3. e.then \in HirBodies(Exprs) /\ e.els \in Optional(Exprs)
  BY <1>2, ExprsAssumption DEF IsExpr
<1>4. /\ Graph(c) /\ {then_id, else_id, join_id} \subseteq B
      /\ current_block \in B /\ header \in B
      /\ Seq(Tasks(Blocks(mir))) \subseteq Seq(Tasks(B))
  BY AddingThree
<1>5. PICK op : mir' = Fork(c, current_block, op, then_id, else_id)
  BY DEF OpenGiven
<1> HIDE DEF c
<1>6. Graph(mir') /\ Blocks(mir') = B
  BY <1>4, <1>5, ForkKeepsGraph
<1>7. else \in Seq(Tasks(B))
  <2>1. CASE e.els = None
    BY <2>1
  <2>2. CASE e.els # None
    <3>1. e.els[1] \in Exprs
      BY <1>3, <2>2 DEF Optional, None
    <3>2. ExprTask(e.els[1], None) \in Tasks(B) /\ Drop \in Tasks(B)
      BY <3>1, Constructors, NoneIsOptional
    <3>3. QED
      BY <2>2, <3>2
  <2>3. QED
    BY <2>1, <2>2
<1>8. first \in Seq(Tasks(B)) /\ last \in Seq(Tasks(B))
  <2>1. /\ {BlockTask(e.then), Drop, CloseArm(join_id, else_id), CloseArm(join_id, join_id)}
             \subseteq Tasks(B)
        /\ ExprTask(Lit(0), None) \in Tasks(B)
    BY <1>3, <1>4, Constructors, NoneIsOptional, ExprsAssumption
  <2>2. QED
    BY <2>1
<1>9. Tail(tasks) \in Seq(Tasks(B))
  BY <1>1, <1>4 DEF IInv, Lowering
<1>10. tasks' = (first \o else \o last) \o Tail(tasks)
  BY DEF OpenGiven, Done
<1> HIDE DEF first, last, else
<1>11. tasks' \in Seq(Tasks(B))
  BY <1>7, <1>8, <1>9, <1>10
<1>12. current_block' = then_id /\ UNCHANGED <<forge, header, phase>> /\ phase = "lower"
  BY <1>1 DEF OpenGiven, Lowering
<1>13. QED
  BY <1>4, <1>6, <1>11, <1>12 DEF IInv

LEMMA OpenWhileKeepsIInv == IInv /\ OpenWhile => IInv'
<1> SUFFICES ASSUME IInv, OpenWhile PROVE IInv'
  OBVIOUS
<1> DEFINE e       == Head(tasks).e
           c       == AddBlocks(mir, 3)
           B       == Blocks(c)
           cond_id == mir.size
           body_id == mir.size + 1
           exit_id == mir.size + 2
           more    == <<OperandTask(e.cond, None), TestLoop(cond_id, body_id, exit_id),
                        BlockTask(e.body), Drop, CloseArm(cond_id, exit_id),
                        ExprTask(Lit(0), None)>>
<1>1. Lowering
  BY DEF OpenWhile, NowExpr, Now
<1>2. e \in Exprs /\ e.k = "while"
  BY <1>1, HeadIsTask, TaskCarries DEF OpenWhile, NowExpr, Now
<1>3. e.cond \in Exprs /\ e.body \in HirBodies(Exprs)
  BY <1>2, ExprsAssumption DEF IsExpr
<1>4. /\ Graph(c) /\ {cond_id, body_id, exit_id} \subseteq B
      /\ current_block \in B /\ header \in B
      /\ Seq(Tasks(Blocks(mir))) \subseteq Seq(Tasks(B))
  BY AddingThree
<1>5. mir' = Jump(c, current_block, cond_id)
  BY DEF OpenWhile
<1> HIDE DEF c
<1>6. Graph(mir') /\ Blocks(mir') = B
  BY <1>4, <1>5, JumpKeepsGraph
<1>7. more \in Seq(Tasks(B))
  <2>1. /\ {OperandTask(e.cond, None), TestLoop(cond_id, body_id, exit_id)} \subseteq Tasks(B)
        /\ {BlockTask(e.body), Drop, CloseArm(cond_id, exit_id)} \subseteq Tasks(B)
        /\ ExprTask(Lit(0), None) \in Tasks(B)
    BY <1>3, <1>4, Constructors, NoneIsOptional, ExprsAssumption
  <2>2. QED
    BY <2>1
<1>8. Tail(tasks) \in Seq(Tasks(B))
  BY <1>1, <1>4 DEF IInv, Lowering
<1>9. tasks' = more \o Tail(tasks)
  BY DEF OpenWhile, Done
<1> HIDE DEF more
<1>10. tasks' \in Seq(Tasks(B))
  BY <1>7, <1>8, <1>9
<1>11. current_block' = cond_id /\ UNCHANGED <<forge, header, phase>> /\ phase = "lower"
  BY <1>1 DEF OpenWhile, NowExpr, Now, Lowering
<1>12. QED
  BY <1>4, <1>6, <1>10, <1>11 DEF IInv

LEMMA BranchOnTestKeepsIInv == IInv /\ BranchOnTest => IInv'
<1> SUFFICES ASSUME IInv, BranchOnTest PROVE IInv'
  OBVIOUS
<1> DEFINE task == Head(tasks)
<1>1. Graph(mir) /\ Lowering
  BY DEF IInv, BranchOnTest, Now
<1>2. {task.cond_id, task.body_id, task.exit_id} \subseteq Blocks(mir)
  BY <1>1, HeadIsTask, TaskCarries DEF BranchOnTest, Now
<1>3. PICK op : mir' = Fork(mir, task.cond_id, op, task.body_id, task.exit_id)
  BY DEF BranchOnTest
<1>4. Graph(mir') /\ Blocks(mir') = Blocks(mir)
  BY <1>1, <1>2, <1>3, ForkKeepsGraph
<1>5. Done(<<>>) /\ UNCHANGED <<forge, header, phase>> /\ current_block' \in Blocks(mir)
  BY <1>2 DEF BranchOnTest
<1>6. <<>> \in Seq(Tasks(Blocks(mir)))
  OBVIOUS
<1>7. QED
  BY <1>1, <1>4, <1>5, <1>6, KeepsIInv

LEMMA EndArmKeepsIInv == IInv /\ EndArm => IInv'
<1> SUFFICES ASSUME IInv, EndArm PROVE IInv'
  OBVIOUS
<1> DEFINE task == Head(tasks)
<1>1. Graph(mir) /\ current_block \in Blocks(mir) /\ Lowering
  BY DEF IInv, EndArm, Now
<1>2. task.join \in Blocks(mir) /\ task.next \in Blocks(mir)
  BY <1>1, HeadIsTask, TaskCarries DEF EndArm, Now
<1>3. Graph(mir') /\ Blocks(mir') = Blocks(mir)
  BY <1>1, <1>2, JumpKeepsGraph DEF EndArm, JoinUnlessTerminated
<1>4. Done(<<>>) /\ UNCHANGED <<forge, header, phase>> /\ current_block' \in Blocks(mir)
  BY <1>2 DEF EndArm
<1>5. <<>> \in Seq(Tasks(Blocks(mir)))
  OBVIOUS
<1>6. QED
  BY <1>1, <1>3, <1>4, <1>5, KeepsIInv

LEMMA FinishForgeKeepsIInv == IInv /\ FinishForge => IInv'
<1> SUFFICES ASSUME IInv, FinishForge PROVE IInv'
  OBVIOUS
<1>1. Graph(mir) /\ current_block \in Blocks(mir)
  BY DEF IInv
<1>2. Graph(mir') /\ Blocks(mir') = Blocks(mir)
  BY <1>1, ReturnKeepsGraph DEF FinishForge
<1>3. QED
  BY <1>2 DEF FinishForge, IInv

LEMMA NextIInv == IInv /\ [LowerNext]_lowerVars => IInv'
<1> SUFFICES ASSUME IInv, [LowerNext]_lowerVars PROVE IInv'
  OBVIOUS
<1>1. CASE StartForge \/ Expand
  BY <1>1, StartForgeKeepsIInv, ExpandKeepsIInv
<1>2. CASE \/ LowerLiteral \/ LowerIdent \/ RvalueToOperand \/ MakeRvalue \/ StoreVariable
           \/ DropValue \/ PushAssert \/ PushCall \/ ExitZone
  BY <1>2, AppendingKeepsIInv
<1>3. CASE EnterZone \/ PushTailCall \/ PushReturn
  BY <1>3, EnterZoneKeepsIInv, PushTailCallKeepsIInv, PushReturnKeepsIInv
<1>4. CASE OpenGiven \/ OpenWhile \/ BranchOnTest \/ EndArm
  BY <1>4, OpenGivenKeepsIInv, OpenWhileKeepsIInv, BranchOnTestKeepsIInv, EndArmKeepsIInv
<1>5. CASE FinishForge
  BY <1>5, FinishForgeKeepsIInv
<1>6. CASE UNCHANGED lowerVars
  BY <1>6 DEF lowerVars, IInv
<1>7. QED
  BY <1>1, <1>2, <1>3, <1>4, <1>5, <1>6 DEF LowerNext, LowerExpr

\* Lowering any forge of any well-formed set keeps the invariant: the block
\* instructions go to, the header and every block a pending task names exist.
THEOREM BlocksExist == LowerSpec => []IInv
<1>1. QED
  BY InitIInv, NextIInv, PTL DEF LowerSpec

\* For every forge and at every moment of its lowering, each target of each
\* terminator is an edge of the graph, so the borrow checker's liveness and
\* the dead-code pass, which walk edges, see every jump that can be taken.
THEOREM LoweringMakesEdges == LowerSpec => []TargetsAreEdges
<1>1. IInv => TargetsAreEdges
  BY DEF IInv, Graph, TargetsAreEdges
<1>2. QED
  BY <1>1, BlocksExist, PTL

=============================================================================
