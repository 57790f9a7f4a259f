-------------------------- MODULE LivenessAnalysis --------------------------
(***************************************************************************)
(* LivenessAnalysis::compute of izel_borrow: round-robin iteration over    *)
(* the blocks in index order until a whole round changes nothing.  The two *)
(* hash maps start without entries; an absent entry counts as a change     *)
(* when it is first written, even if what is written is the empty set.     *)
(***************************************************************************)
EXTENDS MirSemantics

VARIABLES
  mir,          \* the body under analysis
  live_in,      \* locals live on entry to each block
  live_out,     \* locals live on exit from each block
  entries,      \* blocks that have an entry in both maps
  node,         \* the next block of the current round
  changed,      \* this round wrote something new
  phase         \* "while" at the loop test, "for" inside a round, "done"

vars == <<mir, live_in, live_out, entries, node, changed, phase>>

Init ==
  /\ mir \in Bodies
  /\ live_in = NoLocals(mir)
  /\ live_out = NoLocals(mir)
  /\ entries = {}
  /\ node = 0
  /\ changed = TRUE
  /\ phase = "while"

\* while changed { changed = false; for node in node_indices() {
StartRound ==
  /\ phase = "while"
  /\ changed
  /\ changed' = FALSE
  /\ node' = 0
  /\ phase' = "for"
  /\ UNCHANGED <<mir, live_in, live_out, entries>>

\* Mutants: the flag tells of the last block only; or of anything non-empty.
LastBlockChanged(newOut, newIn) ==
  node \notin entries \/ live_out[node] # newOut \/ live_in[node] # newIn

SomethingLive(newOut, newIn) == changed \/ node \notin entries \/ newOut # {}

\* What the flag becomes when the current block evaluates to newOut and newIn:
\* an absent entry differs from every set.
NowChanged(newOut, newIn) ==
  \/ changed
  \/ node \notin entries
  \/ live_out[node] # newOut
  \/ live_in[node] # newIn

\* One turn of the for loop: both equations of one block, in place.
VisitBlock ==
  /\ phase = "for"
  /\ node \in Blocks(mir)
  /\ LET newOut == NewLiveOut(mir, live_in, node)
         newIn  == NewLiveIn(mir, newOut, node)
     IN  /\ live_out' = [live_out EXCEPT ![node] = newOut]
         /\ live_in' = [live_in EXCEPT ![node] = newIn]
         /\ changed' = NowChanged(newOut, newIn)
  /\ entries' = entries \cup {node}
  /\ node' = node + 1
  /\ UNCHANGED <<mir, phase>>

EndRound ==
  /\ phase = "for"
  /\ node \notin Blocks(mir)
  /\ phase' = "while"
  /\ UNCHANGED <<mir, live_in, live_out, entries, node, changed>>

Finish ==
  /\ phase = "while"
  /\ ~changed
  /\ phase' = "done"
  /\ UNCHANGED <<mir, live_in, live_out, entries, node, changed>>

Next == StartRound \/ VisitBlock \/ EndRound \/ Finish

\* compute is an ordinary call: while it can take a step it takes one.
Spec == Init /\ [][Next]_vars /\ WF_vars(Next)

-----------------------------------------------------------------------------
(* Safety *)

TypeOK ==
  /\ mir \in Bodies
  /\ live_in \in [Blocks(mir) -> SUBSET Locals(mir)]
  /\ live_out \in [Blocks(mir) -> SUBSET Locals(mir)]
  /\ entries \subseteq Blocks(mir)
  /\ node \in 0 .. mir.size
  /\ changed \in BOOLEAN
  /\ phase \in {"while", "for", "done"}

\* A round that has changed nothing so far has checked every block it passed:
\* evaluating a later block cannot unbalance an earlier one without setting
\* the flag.  This is why "no change in a round" may end the loop.
QuietRoundIsBalanced ==
  ~changed =>
    \A n \in Blocks(mir) :
      n < node => Balanced(mir, live_in, live_out, n)

\* The answer solves the data-flow equations of every block, although each
\* block was last evaluated at a different moment of the last round.
AnswerSolves == phase = "done" => Solves(mir, live_in, live_out)

\* The answer is exact: live on entry means a path to a read exists, no more
\* (no borrow is kept alive too long) and no less (none ends too early).
AnswerExact ==
  phase = "done" =>
    \A n \in Blocks(mir) : \A l \in Locals(mir) :
      l \in live_in[n] <=> PathLive(mir, l, n)

\* Each evaluation only ever adds to both sets, in place updates included;
\* the loop ends because the sets cannot grow for ever.
OnlyGrows ==
  [][\A n \in Blocks(mir) : /\ live_in[n] \subseteq live_in'[n]
                            /\ live_out[n] \subseteq live_out'[n]]_vars

-----------------------------------------------------------------------------
(* Liveness and refinement *)

\* The loop has no bound on its rounds; it still ends on every body, loops
\* in the control-flow graph included.
Terminates == <>(phase = "done")

\* Round-robin is one way to do chaotic iteration: updates in place only ever
\* add, and its "nothing changed" test is enough to answer.
Abstract == INSTANCE ChaoticLiveness WITH done <- (phase = "done")

RefinesChaotic == Abstract!Spec

=============================================================================
