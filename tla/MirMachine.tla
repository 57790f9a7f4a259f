------------------------------ MODULE MirMachine ------------------------------
(***************************************************************************)
(* What a MIR body does when it runs, as izel_codegen compiles it: one     *)
(* slot per local, blocks joined by the terminators' targets.  Calls leave *)
(* the body: each is recorded with its arguments, and answers any bit.     *)
(*                                                                         *)
(* Zone markers compile to nothing; the machine keeps the zones they open  *)
(* and close so that properties can speak of them.                         *)
(***************************************************************************)
EXTENDS Mir

CONSTANT MaxCalls        \* bound: a run is cut short at its next call

VARIABLES
  mir,               \* the body
  outcome,           \* "idle", "running", "returned", "aborted", "stuck" or "cut"
  pc,                \* the block and the instruction in it
  store,             \* the value of each local's slot
  input,             \* what the parameters were
  trace,             \* the calls made, with their arguments
  results,           \* what those calls answered
  zones,             \* the zones open, innermost last
  returned           \* what the body returned

Bit       == {0, 1}
Unwritten == 2           \* a slot nothing was stored in
NoValue   == 3           \* returned nothing

-----------------------------------------------------------------------------

Idle ==
  /\ outcome = "idle"
  /\ pc = <<0, 1>>
  /\ store = <<>> /\ input = <<>> /\ trace = <<>> /\ results = <<>> /\ zones = <<>>
  /\ returned = NoValue

\* Function entry: the parameters are stored in their slots.
Start ==
  /\ outcome = "idle"
  /\ \E in \in [mir.args -> Bit] :
       /\ input' = in
       /\ store' = [l \in Locals(mir) |-> IF l \in mir.args THEN in[l] ELSE Unwritten]
  /\ outcome' = "running"
  /\ UNCHANGED <<pc, trace, results, zones, returned>>

Running == outcome = "running"

AtTerminator == pc[2] > Len(Code(mir, pc[1]))

Current == IF AtTerminator THEN Term(mir, pc[1]) ELSE Code(mir, pc[1])[pc[2]]

Doing(op) == Running /\ Current.op = op

Advance == pc' = <<pc[1], pc[2] + 1>>

\* A load from an unwritten slot yields anything.
Reads(a) ==
  IF a.kind = "const" THEN {a.val}
  ELSE IF store[a.local] = Unwritten THEN Bit
  ELSE {store[a.local]}

ReadAll(args) == {vs \in [DOMAIN args -> Bit] : \A i \in DOMAIN args : vs[i] \in Reads(args[i])}

\* gen_rvalue, with the operations of gen_bin_op and gen_un_op on integers.
Result(rv, vs) ==
  CASE rv = "use" -> vs[1]
    [] rv = "add" -> (vs[1] + vs[2]) % 2
    [] rv = "mul" -> vs[1] * vs[2]
    [] rv = "not" -> 1 - vs[1]
    [] rv = "neg" -> vs[1]         \* modulo two

StepAssign ==
  /\ Doing("assign")
  /\ \E vs \in ReadAll(Current.args) :
       store' = [store EXCEPT ![Current.dst] = Result(Current.rv, vs)]
  /\ Advance
  /\ UNCHANGED <<outcome, input, trace, results, zones, returned>>

StepCall ==
  /\ Doing("call")
  /\ Len(trace) < MaxCalls
  /\ \E vs \in ReadAll(Current.args) :
       trace' = Append(trace, [callee |-> Current.callee, args |-> vs])
  /\ IF Current.dst = NoLocal
     THEN UNCHANGED <<store, results>>
     ELSE \E v \in Bit : /\ store' = [store EXCEPT ![Current.dst] = v]
                         /\ results' = Append(results, v)
  /\ Advance
  /\ UNCHANGED <<outcome, input, zones, returned>>

CutShort ==
  /\ Doing("call")
  /\ Len(trace) = MaxCalls
  /\ outcome' = "cut"
  /\ UNCHANGED <<pc, store, input, trace, results, zones, returned>>

\* The failing branch of an assertion is built as unreachable, so a failure
\* may stop the program or be taken not to happen.
StepAssert ==
  /\ Doing("assert")
  /\ \E vs \in ReadAll(Current.args) :
       IF vs[1] = 1
       THEN /\ Advance
            /\ UNCHANGED outcome
       ELSE \/ /\ Advance
               /\ UNCHANGED outcome
            \/ /\ outcome' = "aborted"
               /\ UNCHANGED pc
  /\ UNCHANGED <<store, input, trace, results, zones, returned>>

StepZone ==
  /\ Doing("zone_enter") \/ Doing("zone_exit")
  /\ zones' = IF Current.op = "zone_enter" THEN Append(zones, Current.zone)
              ELSE IF zones = <<>> THEN <<>>
              ELSE SubSeq(zones, 1, Len(zones) - 1)
  /\ Advance
  /\ UNCHANGED <<outcome, store, input, trace, results, returned>>

StepGoto ==
  /\ Doing("goto")
  /\ pc' = <<Current.to[1], 1>>
  /\ UNCHANGED <<outcome, store, input, trace, results, zones, returned>>

StepSwitch ==
  /\ Doing("switch")
  /\ \E v \in Reads(Current.args[1]) :
       pc' = <<IF v = 1 THEN Current.to[1] ELSE Current.to[2], 1>>
  /\ UNCHANGED <<outcome, store, input, trace, results, zones, returned>>

StepReturn ==
  /\ Doing("return")
  /\ IF Current.args = <<>> THEN UNCHANGED returned ELSE returned' \in Reads(Current.args[1])
  /\ outcome' = "returned"
  /\ UNCHANGED <<pc, store, input, trace, results, zones>>

\* A block without a terminator is built as unreachable.
StepUnreachable ==
  /\ Doing("none")
  /\ outcome' = "stuck"
  /\ UNCHANGED <<pc, store, input, trace, results, zones, returned>>

Step ==
  \/ StepAssign \/ StepCall \/ CutShort \/ StepAssert \/ StepZone
  \/ StepGoto \/ StepSwitch \/ StepReturn \/ StepUnreachable

Ended == outcome \in {"returned", "aborted", "stuck", "cut"}

=============================================================================
