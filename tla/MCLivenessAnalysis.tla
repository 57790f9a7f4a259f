------------------------- MODULE MCLivenessAnalysis -------------------------
(***************************************************************************)
(* Bodies for model checking the liveness analysis: every control-flow     *)
(* graph over MCSize blocks in which a block has at most two successors,   *)
(* each block running one of a few instruction sequences over two locals.  *)
(***************************************************************************)
EXTENDS LivenessAnalysis, FiniteSetsExt

CONSTANT MCSize

\* Passing x and y through, reading x and writing y, reading y and writing x.
MCCode ==
  { <<AssertOp(Copy("x"))>>,
    <<Ref("y", "x", TRUE), Call(NoLocal, <<Move("y")>>)>>,
    <<Call("x", <<Copy("y")>>)>> }

MCTerm(edges) ==
  IF Cardinality(edges) = 2 THEN {SwitchInt(Copy("y"), Max(edges), Min(edges))}
  ELSE IF Cardinality(edges) = 1 THEN {Goto(Max(edges))}
  ELSE {Return(<<Copy("x")>>)}

MCEdges == {e \in SUBSET (0 .. MCSize - 1) : Cardinality(e) <= 2}

MCBlock ==
  UNION {{[code |-> c, term |-> t, succ |-> e] : c \in MCCode, t \in MCTerm(e)}
         : e \in MCEdges}

MCBodies ==
  [size: {MCSize}, ty: {[l \in {"x", "y"} |-> "adt"]}, args: {{}},
   block: [0 .. MCSize - 1 -> MCBlock]]

=============================================================================
