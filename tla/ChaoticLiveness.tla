--------------------------- MODULE ChaoticLiveness ---------------------------
(***************************************************************************)
(* What a liveness analysis promises, whatever order it works in: starting *)
(* from empty sets it re-evaluates blocks one at a time, which only ever   *)
(* adds to them, and it answers only when every block's equations hold.    *)
(***************************************************************************)
EXTENDS MirSemantics

VARIABLES
  mir,          \* the body under analysis
  live_in,      \* locals live on entry to each block
  live_out,     \* locals live on exit from each block
  done          \* the analysis has answered

vars == <<mir, live_in, live_out, done>>

Init ==
  /\ mir \in Bodies
  /\ live_in = NoLocals(mir)
  /\ live_out = NoLocals(mir)
  /\ done = FALSE

Reevaluate(n) ==
  /\ ~done
  /\ live_out' = [live_out EXCEPT ![n] = NewLiveOut(mir, live_in, n)]
  /\ live_in' = [live_in EXCEPT ![n] = NewLiveIn(mir, live_out'[n], n)]
  /\ live_in[n] \subseteq live_in'[n] /\ live_out[n] \subseteq live_out'[n]
  /\ UNCHANGED <<mir, done>>

Answer ==
  /\ ~done
  /\ Solves(mir, live_in, live_out)
  /\ done' = TRUE
  /\ UNCHANGED <<mir, live_in, live_out>>

Next ==
  \/ \E n \in Blocks(mir) : Reevaluate(n)
  \/ Answer

Spec == Init /\ [][Next]_vars

=============================================================================
