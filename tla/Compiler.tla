------------------------------- MODULE Compiler -------------------------------
(***************************************************************************)
(* The pipeline from a forge's source to its execution: the front end's    *)
(* HIR is lowered to MIR, the dead-code pass may run over it, and the      *)
(* machine runs the result, which is compared with what the source means.  *)
(***************************************************************************)
EXTENDS MirLower, SourceSemantics

CONSTANTS
  Sources,           \* the forges a run may compile
  MaxCalls           \* bound on the calls of one execution

VARIABLES
  source,            \* the forge being compiled
  pass,              \* the dead-code pass: "off", "sweep", "clear" or "done"
  outcome, pc, store, input, trace, results, zones, returned    \* the machine

Machine == INSTANCE MirMachine

machineVars == <<outcome, pc, store, input, trace, results, zones, returned>>

compilerVars == <<source, lowerVars, pass, machineVars>>

-----------------------------------------------------------------------------
(* The dead-code pass of izel_mir (optim::Dce): rounds that delete the     *)
(* assignments to locals nothing uses, until a round deletes none, then    *)
(* the contents of the blocks no edge reaches.  One round is one step.     *)

\* collect_used_locals_instr, _term, _rvalue and _operand: the locals that are
\* operands of an instruction or of a terminator, or borrowed.
UsesOf(ins) ==
  CASE ins.op \in {"assign", "call", "assert"} -> OperandLocals(ins.args)
    [] ins.op = "ref"                          -> {ins.of}
    [] OTHER                                   -> {}

UsedLocals(b) ==
  UNION {UNION {UsesOf(Code(b, n)[i]) : i \in DOMAIN Code(b, n)}
           \cup OperandLocals(Term(b, n).args) : n \in Blocks(b)}

\* Mutant: a call whose result nothing uses goes too.
CallsRemovable(ins, used) ==
  ins.op \in {"assign", "ref", "call"} /\ ins.dst \notin used

Removable(ins, used) == ins.op \in {"assign", "ref"} /\ ins.dst \notin used

Swept(b) ==
  LET used == UsedLocals(b)
  IN  [b EXCEPT !.block = [n \in Blocks(b) |->
         [@[n] EXCEPT !.code = SelectSeq(@, LAMBDA ins : ~Removable(ins, used))]]]

Reachable(b) ==
  LET Reach[k \in 0 .. b.size] ==
        IF k = 0 THEN {0}
        ELSE LET known == Reach[k - 1]
             IN  known \cup UNION {Succ(b, n) : n \in known}
  IN  Reach[b.size]

\* What is cleared keeps its edges.
Cleared(b) ==
  [b EXCEPT !.block = [n \in Blocks(b) |->
     IF n \in Reachable(b) THEN @[n]
     ELSE [@[n] EXCEPT !.code = <<>>, !.term = NoTerminator]]]

\* Mutant: the changed flag is never reset.
SweepAgain ==
  /\ pass = "sweep"
  /\ mir' = Swept(mir)
  /\ pass' = "sweep"

SweepRound ==
  /\ pass = "sweep"
  /\ mir' = Swept(mir)
  /\ pass' = IF mir' = mir THEN "clear" ELSE "sweep"

ClearUnreachable ==
  /\ pass = "clear"
  /\ mir' = Cleared(mir)
  /\ pass' = "done"

DceNext == SweepRound \/ ClearUnreachable

-----------------------------------------------------------------------------
(* The pipeline *)

Init ==
  /\ source \in Sources
  /\ LowerInit
  /\ forge = HirForge(source)
  /\ pass = "off"
  /\ Machine!Idle

Lower ==
  /\ LowerNext
  /\ UNCHANGED <<source, pass, machineVars>>

\* The dead-code pass is a library function: a build may use it or not.
Optimize ==
  /\ phase = "lowered" /\ outcome = "idle"
  /\ \/ pass = "off" /\ pass' = "sweep" /\ UNCHANGED mir
     \/ DceNext
  /\ UNCHANGED <<source, machineVars,
                 forge, check_contracts, current_block, header, vars, tasks, values, phase>>

Run ==
  /\ phase = "lowered" /\ pass \in {"off", "done"}
  /\ Machine!Start \/ Machine!Step
  /\ UNCHANGED <<source, lowerVars, pass>>

\* An execution that is over stays over.
Over == Machine!Ended /\ UNCHANGED compilerVars

Next == Lower \/ Optimize \/ Run \/ Over

Spec == Init /\ [][Next]_compilerVars /\ WF_compilerVars(Lower \/ Optimize \/ Run)

-----------------------------------------------------------------------------
(* Properties *)

\* Programs the lowering is meant to be right about: the forms it is known to
\* get wrong have properties of their own below.
Orderly ==
  /\ StopsLast(source)
  /\ ControlAsStatement(source)
  /\ NoLoop(source)
  /\ ~ElseBlock(source)
  /\ ~SelfTail(source)
  /\ KnownOperators(source)
  /\ ~(check_contracts /\ EnsuresOnCall(source))

\* The meaning of the source for the inputs and answers of this execution.
Expected == Meaning(source, check_contracts, input, results, MaxCalls)

\* How an execution has to end whose contract fails is ContractFailuresAreObservable's
\* question; the calls it has made are to be right all the same.
Agrees(expected) ==
  /\ trace = expected.trace
  /\ CASE expected.mode = "ret" -> outcome = "returned" /\ returned = expected.val
       [] expected.mode = "go"  -> outcome = "returned" /\ returned = Machine!NoValue
       [] expected.mode = "cut" -> outcome = "cut"
       [] expected.mode = "violated" -> outcome \in {"returned", "aborted"}

\* Compiled code does what the source means: whichever arms are taken and
\* whatever the calls answer, an execution makes the same calls with the same
\* arguments in the same order, with and without the dead-code pass, and, if
\* its contracts hold, returns the same value.
RunsAsWritten ==
  Machine!Ended /\ Orderly => Agrees(Expected)

\* Zone exits match zone entries along every execution: an exit closes the
\* innermost open zone, and a forge that returns has closed every zone.
ZonesNest ==
  Orderly /\ ~LeavesZoneEarly(source) =>
    /\ Machine!Doing("zone_exit") => zones # <<>> /\ Last(zones) = Machine!Current.zone
    /\ outcome = "returned" => zones = <<>>

\* Compilation and execution come to an end: no orderly program loops without
\* calling out.
EveryRunEnds == Orderly ~> Machine!Ended

-----------------------------------------------------------------------------
(* What the documents promise and the code does not keep *)

\* given and else: an else block runs when the condition does not hold.
ElseArmsRun ==
  Machine!Ended /\ ElseBlock(source) /\ ~check_contracts => Agrees(Expected)

\* With runtime instrumentation a failed contract shows: the execution is stopped.
ContractFailuresAreObservable ==
  Machine!Ended /\ Expected.mode = "violated" => outcome = "aborted"

\* Every operator of the language computes what it is named for.
OperatorsKeepTheirMeaning ==
  Machine!Ended /\ ~KnownOperators(source) /\ ~check_contracts => Agrees(Expected)

=============================================================================
