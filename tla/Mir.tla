--------------------------------- MODULE Mir ---------------------------------
(***************************************************************************)
(* The mid-level intermediate representation of izel_mir: a forge body is  *)
(* a control-flow graph whose nodes are basic blocks, numbered from 0 in   *)
(* creation order (petgraph's node_indices order).                         *)
(*                                                                         *)
(* A body is a record                                                      *)
(*   size      number of blocks; block 0 is the entry                      *)
(*   ty        the locals, each with its class of type: "prim", "ptr" for  *)
(*             a shared pointer, "mutptr" for a mutable one, "adt", and    *)
(*             "other" (functions, tuples, slices, type parameters)        *)
(*   args      the locals that are parameters                              *)
(*   block     for every block its code (a sequence of instructions), its  *)
(*             terminator term and its outgoing edges succ                 *)
(*                                                                         *)
(* The edges are kept apart from the terminator because the code keeps     *)
(* them apart: the analyses walk edges, code generation terminators.       *)
(***************************************************************************)
EXTENDS Naturals, Sequences

CONSTANT NoLocal         \* the destination of a call whose result is dropped

Blocks(b) == 0 .. b.size - 1

Locals(b) == DOMAIN b.ty

InstructionOps == {"assign", "ref", "call", "assert", "zone_enter", "zone_exit"}
TerminatorOps  == {"goto", "switch", "return", "none"}

Copy(l)  == [kind |-> "copy", local |-> l]
Move(l)  == [kind |-> "move", local |-> l]
Const(v) == [kind |-> "const", val |-> v]

\* The operands of an instruction or a terminator.
Operands(ins) ==
  IF ins.op \in {"assign", "call", "switch", "return", "assert"} THEN ins.args ELSE <<>>

AreOperands(b, args) ==
  /\ args \in Seq({args[i] : i \in DOMAIN args})
  /\ \A i \in DOMAIN args :
       args[i].kind = "const" \/ \E l \in Locals(b) : args[i] \in {Copy(l), Move(l)}

\* What every MirBody satisfies, however it was built: a block holds a sequence of
\* instructions, its edges join blocks, and what is assigned or read is declared.
IsBody(b) ==
  /\ b.size \in Nat \ {0}
  /\ NoLocal \notin Locals(b)
  /\ \A n \in Blocks(b) :
       LET code == b.block[n].code
       IN  /\ b.block[n].succ \subseteq Blocks(b)
           /\ b.block[n].term.op \in TerminatorOps
           /\ AreOperands(b, Operands(b.block[n].term))
           /\ code \in Seq({code[i] : i \in DOMAIN code})
           /\ \A i \in DOMAIN code :
                /\ code[i].op \in InstructionOps
                /\ AreOperands(b, Operands(code[i]))
                /\ code[i].op \in {"assign", "ref"} => code[i].dst \in Locals(b)
                /\ code[i].op = "ref" => code[i].of \in Locals(b)

Compute(l, rv, args) == [op |-> "assign", dst |-> l, rv |-> rv, args |-> args]
Assign(l, args)      == Compute(l, "use", args)

\* Assign(place, Ref(of, mut)).
Ref(l, of, mut) == [op |-> "ref", dst |-> l, of |-> of, mut |-> mut]

Invoke(l, callee, args) == [op |-> "call", dst |-> l, callee |-> callee, args |-> args]
Call(l, args)           == Invoke(l, "f", args)
AssertOp(arg)   == [op |-> "assert", args |-> <<arg>>]
ZoneEnter(z)    == [op |-> "zone_enter", zone |-> z]
ZoneExit(z)     == [op |-> "zone_exit", zone |-> z]

\* Terminators; args holds the scrutinee or the returned operand, if any, to
\* the targets.  SwitchInt goes to t on one and to e on anything else.
Goto(t)            == [op |-> "goto", args |-> <<>>, to |-> <<t>>]
SwitchInt(a, t, e) == [op |-> "switch", args |-> <<a>>, to |-> <<t, e>>]
Return(args)       == [op |-> "return", args |-> args, to |-> <<>>]
NoTerminator       == [op |-> "none", args |-> <<>>, to |-> <<>>]

Succ(b, n) == b.block[n].succ
Code(b, n) == b.block[n].code
Term(b, n) == b.block[n].term

\* The locals among the operands.
OperandLocals(args) == {args[i].local : i \in {j \in DOMAIN args : args[j].kind # "const"}}

\* Every target of a terminator is an edge: what executes is what the
\* analyses and the dead-code pass see.
TargetsAreSuccessors(b) ==
  \A n \in Blocks(b) : \A i \in DOMAIN Term(b, n).to : Term(b, n).to[i] \in Succ(b, n)

=============================================================================
