----------------------- MODULE LivenessAnalysis_proofs -----------------------
(***************************************************************************)
(* Proofs about LivenessAnalysis for every set of bodies.                  *)
(***************************************************************************)
EXTENDS LivenessAnalysis, IterationTheorems, TLAPS

\* What one block's equations yield stays within the body's locals, provided
\* the sets they start from do.
LEMMA EquationsTyped ==
  ASSUME NEW b, NEW n,
         NEW in \in [Blocks(b) -> SUBSET Locals(b)],
         NEW out \in SUBSET Locals(b),
         Succ(b, n) \subseteq Blocks(b)
  PROVE  /\ NewLiveOut(b, in, n) \in SUBSET Locals(b)
         /\ NewLiveIn(b, out, n) \in SUBSET Locals(b)
<1>1. NewLiveOut(b, in, n) \in SUBSET Locals(b)
  BY DEF NewLiveOut
<1>2. Uses(b, n) \subseteq Locals(b)
  BY DEF Uses
<1>3. QED
  BY <1>1, <1>2 DEF NewLiveIn

LEMMA SuccAreBlocks ==
  ASSUME NEW b \in Bodies
  PROVE  /\ b.size \in Nat \ {0}
         /\ \A n \in Blocks(b) : Succ(b, n) \subseteq Blocks(b)
  BY BodiesAssumption DEF IsBody, Succ

-----------------------------------------------------------------------------
(* Type correctness *)

LEMMA InitTypeOK == Init => TypeOK
  BY SuccAreBlocks DEF Init, TypeOK, NoLocals

LEMMA NextTypeOK == TypeOK /\ [Next]_vars => TypeOK'
<1> SUFFICES ASSUME TypeOK, [Next]_vars
             PROVE  TypeOK'
  OBVIOUS
<1> USE DEF TypeOK
<1>1. CASE StartRound
  <2>1. 0 \in 0 .. mir.size
    BY SuccAreBlocks
  <2>2. QED
    BY <1>1, <2>1 DEF StartRound
<1>2. CASE VisitBlock
  <2>1. /\ NewLiveOut(mir, live_in, node) \in SUBSET Locals(mir)
        /\ NewLiveIn(mir, NewLiveOut(mir, live_in, node), node)
             \in SUBSET Locals(mir)
    BY <1>2, SuccAreBlocks, EquationsTyped DEF VisitBlock
  <2>2. mir' = mir /\ node \in Blocks(mir) /\ phase' = phase
    BY <1>2 DEF VisitBlock
  <2>3. live_in' \in [Blocks(mir) -> SUBSET Locals(mir)]
    BY <1>2, <2>1 DEF VisitBlock
  <2>4. live_out' \in [Blocks(mir) -> SUBSET Locals(mir)]
    BY <1>2, <2>1 DEF VisitBlock
  <2>5. entries' \subseteq Blocks(mir) /\ changed' \in BOOLEAN
    BY <1>2 DEF VisitBlock, NowChanged
  <2>6. node' \in 0 .. mir.size
    BY <1>2, SuccAreBlocks DEF VisitBlock, Blocks
  <2>7. QED
    BY <2>2, <2>3, <2>4, <2>5, <2>6
<1>3. CASE EndRound
  BY <1>3 DEF EndRound
<1>4. CASE Finish
  BY <1>4 DEF Finish
<1>5. CASE UNCHANGED vars
  BY <1>5 DEF vars
<1>6. QED
  BY <1>1, <1>2, <1>3, <1>4, <1>5 DEF Next

\* The two maps, the entry set and the cursor keep their types in every
\* reachable state, for every set of bodies.
THEOREM TypeCorrect == Spec => []TypeOK
<1>1. QED
  BY InitTypeOK, NextTypeOK, PTL DEF Spec

-----------------------------------------------------------------------------
(* The answer solves the equations *)

\* Inductive strengthening: the flag can only be down outside a round when the
\* round has passed every block.
IInv ==
  /\ TypeOK
  /\ QuietRoundIsBalanced
  /\ phase # "for" /\ ~changed => node = mir.size
  /\ phase = "done" => ~changed

LEMMA InitIInv == Init => IInv
  BY InitTypeOK DEF Init, IInv, QuietRoundIsBalanced

\* A visit that leaves the flag down has rewritten both maps with themselves,
\* so everything balanced stays balanced and the visited block is too.
LEMMA QuietVisit ==
  ASSUME TypeOK, VisitBlock, ~changed'
  PROVE  /\ live_in' = live_in
         /\ live_out' = live_out
         /\ ~changed
         /\ Balanced(mir, live_in, live_out, node)
<1> DEFINE newOut == NewLiveOut(mir, live_in, node)
           newIn  == NewLiveIn(mir, newOut, node)
<1>1. /\ live_out[node] = newOut
      /\ live_in[node] = newIn
      /\ ~changed
  BY DEF VisitBlock, NowChanged
<1>2. /\ live_out' = [live_out EXCEPT ![node] = newOut]
      /\ live_in' = [live_in EXCEPT ![node] = newIn]
  BY DEF VisitBlock
<1>3. live_in' = live_in /\ live_out' = live_out
  BY <1>1, <1>2 DEF TypeOK
<1>4. QED
  BY <1>1, <1>3 DEF Balanced

LEMMA NextIInv == IInv /\ [Next]_vars => IInv'
<1> SUFFICES ASSUME IInv, [Next]_vars
             PROVE  IInv'
  OBVIOUS
<1>t. TypeOK /\ TypeOK'
  BY NextTypeOK DEF IInv
<1>1. CASE StartRound
  BY <1>1, <1>t DEF StartRound, IInv, QuietRoundIsBalanced, TypeOK, Blocks
<1>2. CASE VisitBlock
  <2>1. ASSUME ~changed', NEW n \in Blocks(mir), n < node'
        PROVE  Balanced(mir, live_in, live_out, n)
    <3>1. ~changed /\ Balanced(mir, live_in, live_out, node)
      BY <1>2, <1>t, <2>1, QuietVisit
    <3>2. CASE n < node
      BY <3>1, <3>2 DEF IInv, QuietRoundIsBalanced
    <3>3. CASE ~(n < node)
      <4>1. n = node
        BY <1>2, <1>t, <2>1, <3>3, SuccAreBlocks DEF VisitBlock, Blocks, TypeOK
      <4>2. QED
        BY <3>1, <4>1
    <3>4. QED
      BY <3>2, <3>3
  <2>2. QuietRoundIsBalanced'
    <3> SUFFICES ASSUME ~changed'
                 PROVE  \A n \in Blocks(mir)' :
                          n < node' => Balanced(mir, live_in, live_out, n)'
      BY DEF QuietRoundIsBalanced
    <3>1. live_in' = live_in /\ live_out' = live_out /\ mir' = mir
      BY <1>2, <1>t, QuietVisit DEF VisitBlock
    <3>2. QED
      BY <2>1, <3>1 DEF Balanced
  <2>3. phase' = "for"
    BY <1>2 DEF VisitBlock
  <2>4. QED
    BY <1>t, <2>2, <2>3 DEF IInv
<1>3. CASE EndRound
  <2>1. node = mir.size
    BY <1>3, <1>t, SuccAreBlocks DEF EndRound, TypeOK, Blocks
  <2>2. QED
    BY <1>3, <1>t, <2>1 DEF EndRound, IInv, QuietRoundIsBalanced, Balanced
<1>4. CASE Finish
  BY <1>4, <1>t DEF Finish, IInv, QuietRoundIsBalanced, Balanced
<1>5. CASE UNCHANGED vars
  BY <1>5, <1>t DEF vars, IInv, QuietRoundIsBalanced, Balanced
<1>6. QED
  BY <1>1, <1>2, <1>3, <1>4, <1>5 DEF Next

\* While the flag is down and the round has passed every block, all of the
\* equations hold.
LEMMA QuietRoundSolves ==
  ASSUME IInv, phase # "for", ~changed
  PROVE  Solves(mir, live_in, live_out)
<1>1. node = mir.size /\ mir.size \in Nat
  BY SuccAreBlocks DEF IInv, TypeOK
<1>2. \A n \in Blocks(mir) : n < node
  BY <1>1 DEF Blocks
<1>3. QED
  BY <1>2 DEF IInv, QuietRoundIsBalanced, Solves

\* A round that has written nothing new has left every block it passed with
\* its equations holding (the in-place updates of LivenessAnalysis::compute).
THEOREM QuietRound == Spec => []QuietRoundIsBalanced
<1>1. IInv => QuietRoundIsBalanced
  BY DEF IInv
<1>2. QED
  BY <1>1, InitIInv, NextIInv, PTL DEF Spec

\* When compute returns, live_in and live_out solve the data-flow equations
\* of every block of the body.
THEOREM AnswerCorrect == Spec => []AnswerSolves
<1>1. IInv => AnswerSolves
  BY QuietRoundSolves DEF AnswerSolves, IInv
<1>2. QED
  BY <1>1, InitIInv, NextIInv, PTL DEF Spec

-----------------------------------------------------------------------------
(* The sets only grow *)

\* Every set is at most what its equation yields now: what was written came
\* from smaller sets.
Grounded ==
  \A n \in Blocks(mir) :
    /\ live_out[n] \subseteq NewLiveOut(mir, live_in, n)
    /\ live_in[n] \subseteq NewLiveIn(mir, live_out[n], n)

\* A visit of a grounded state adds to both sets and keeps the state grounded.
LEMMA VisitGrows ==
  ASSUME TypeOK, TypeOK', Grounded, VisitBlock
  PROVE  /\ \A n \in Blocks(mir) : /\ live_in[n] \subseteq live_in'[n]
                                   /\ live_out[n] \subseteq live_out'[n]
         /\ Grounded'
<1> DEFINE newOut == NewLiveOut(mir, live_in, node)
           newIn  == NewLiveIn(mir, newOut, node)
<1>1. /\ node \in Blocks(mir)
      /\ mir' = mir
      /\ live_out' = [live_out EXCEPT ![node] = newOut]
      /\ live_in' = [live_in EXCEPT ![node] = newIn]
  BY DEF VisitBlock
<1>2. /\ live_in \in [Blocks(mir) -> SUBSET Locals(mir)]
      /\ live_out \in [Blocks(mir) -> SUBSET Locals(mir)]
  BY DEF TypeOK
<1>3. live_out[node] \subseteq newOut
  BY <1>1 DEF Grounded
<1>4. live_in[node] \subseteq newIn
  <2>1. live_in[node] \subseteq NewLiveIn(mir, live_out[node], node)
    BY <1>1 DEF Grounded
  <2>2. NewLiveIn(mir, live_out[node], node) \subseteq newIn
    BY <1>3 DEF NewLiveIn
  <2>3. QED
    BY <2>1, <2>2
<1>5. \A n \in Blocks(mir) : /\ live_in[n] \subseteq live_in'[n]
                             /\ live_out[n] \subseteq live_out'[n]
  <2> HIDE DEF newIn, newOut
  <2> QED
    BY <1>1, <1>2, <1>3, <1>4
<1>6. ASSUME NEW n \in Blocks(mir)
      PROVE  /\ live_out'[n] \subseteq NewLiveOut(mir, live_in', n)
             /\ live_in'[n] \subseteq NewLiveIn(mir, live_out'[n], n)
  <2>1. \A s \in Succ(mir, n) : live_in[s] \subseteq live_in'[s]
    BY <1>5, SuccAreBlocks DEF TypeOK
  <2>2. NewLiveOut(mir, live_in, n) \subseteq NewLiveOut(mir, live_in', n)
    BY <2>1 DEF NewLiveOut
  <2>3. CASE n = node
    <3>1. live_out'[n] = newOut /\ live_in'[n] = newIn
      BY <1>1, <1>2, <2>3
    <3>2. QED
      BY <2>2, <2>3, <3>1
  <2>4. CASE n # node
    <3>1. live_out'[n] = live_out[n] /\ live_in'[n] = live_in[n]
      BY <1>1, <1>2, <2>4
    <3>2. QED
      BY <2>2, <3>1 DEF Grounded
  <2>5. QED
    BY <2>3, <2>4
<1>7. QED
  BY <1>1, <1>5, <1>6 DEF Grounded

LEMMA InitGrounded == Init => Grounded
<1> SUFFICES ASSUME Init, NEW n \in Blocks(mir)
             PROVE  live_in[n] = {} /\ live_out[n] = {}
  BY DEF Grounded
<1>1. QED
  BY DEF Init, NoLocals

\* What every action but VisitBlock leaves alone.
LEMMA OnlyVisitsWrite ==
  [Next]_vars => VisitBlock \/ UNCHANGED <<mir, live_in, live_out>>
  BY DEF Next, vars, StartRound, EndRound, Finish

LEMMA NextGrounded ==
  TypeOK /\ Grounded /\ [Next]_vars =>
    /\ Grounded'
    /\ \A n \in Blocks(mir) : /\ live_in[n] \subseteq live_in'[n]
                              /\ live_out[n] \subseteq live_out'[n]
<1> SUFFICES ASSUME TypeOK, Grounded, [Next]_vars
             PROVE  /\ Grounded'
                    /\ \A n \in Blocks(mir) :
                         /\ live_in[n] \subseteq live_in'[n]
                         /\ live_out[n] \subseteq live_out'[n]
  OBVIOUS
<1>1. CASE VisitBlock
  BY <1>1, NextTypeOK, VisitGrows
<1>2. CASE UNCHANGED <<mir, live_in, live_out>>
  BY <1>2 DEF Grounded
<1>3. QED
  BY <1>1, <1>2, OnlyVisitsWrite

\* No evaluation of a block ever takes a local out of a set.
THEOREM Growth == Spec => OnlyGrows
<1> DEFINE Grow == \A n \in Blocks(mir) :
                     /\ live_in[n] \subseteq live_in'[n]
                     /\ live_out[n] \subseteq live_out'[n]
<1>1. TypeOK /\ Grounded /\ [Next]_vars => TypeOK' /\ Grounded' /\ [Grow]_vars
  BY NextTypeOK, NextGrounded
<1>2. QED
  BY <1>1, InitTypeOK, InitGrounded, PTL DEF Spec, OnlyGrows

-----------------------------------------------------------------------------
(* The answer is the least solution *)

\* The sets lie below every solution of the equations.
BelowEverySolution ==
  \A in, out \in [Blocks(mir) -> SUBSET Locals(mir)] :
    Solves(mir, in, out) =>
      \A n \in Blocks(mir) : live_in[n] \subseteq in[n] /\ live_out[n] \subseteq out[n]

LEMMA InitBelow == Init => BelowEverySolution
<1> SUFFICES ASSUME Init, NEW n \in Blocks(mir)
             PROVE  live_in[n] = {} /\ live_out[n] = {}
  BY DEF BelowEverySolution
<1> QED  BY DEF Init, NoLocals

LEMMA NextBelow == TypeOK /\ BelowEverySolution /\ [Next]_vars => BelowEverySolution'
<1> SUFFICES ASSUME TypeOK, BelowEverySolution, [Next]_vars
             PROVE  BelowEverySolution'
  OBVIOUS
<1>1. CASE VisitBlock
  <2>1. mir' = mir /\ node \in Blocks(mir)
    BY <1>1 DEF VisitBlock
  <2> SUFFICES ASSUME NEW in \in [Blocks(mir) -> SUBSET Locals(mir)],
                      NEW out \in [Blocks(mir) -> SUBSET Locals(mir)],
                      Solves(mir, in, out),
                      NEW n \in Blocks(mir)
               PROVE  live_in'[n] \subseteq in[n] /\ live_out'[n] \subseteq out[n]
    BY <2>1 DEF BelowEverySolution
  <2>2. \A m \in Blocks(mir) : live_in[m] \subseteq in[m] /\ live_out[m] \subseteq out[m]
    BY DEF BelowEverySolution
  <2>3. NewLiveOut(mir, live_in, node) \subseteq out[node]
    <3>1. \A s \in Succ(mir, node) : live_in[s] \subseteq in[s]
      BY <2>1, <2>2, SuccAreBlocks DEF TypeOK
    <3>2. NewLiveOut(mir, live_in, node) \subseteq NewLiveOut(mir, in, node)
      BY <3>1 DEF NewLiveOut
    <3>3. QED
      BY <2>1, <3>2 DEF Solves, Balanced
  <2>4. NewLiveIn(mir, NewLiveOut(mir, live_in, node), node) \subseteq in[node]
    BY <2>1, <2>3 DEF Solves, Balanced, NewLiveIn
  <2>5. CASE n = node
    BY <1>1, <2>3, <2>4, <2>5 DEF VisitBlock, TypeOK
  <2>6. CASE n # node
    BY <1>1, <2>2, <2>6 DEF VisitBlock, TypeOK
  <2>7. QED
    BY <2>5, <2>6
<1>2. CASE UNCHANGED <<mir, live_in, live_out>>
  BY <1>2 DEF BelowEverySolution
<1>3. QED
  BY <1>1, <1>2, OnlyVisitsWrite

\* At every moment the analysis is below every solution of the equations; with
\* AnswerCorrect, what compute returns is the least solution.
THEOREM NothingSuperfluous == Spec => []BelowEverySolution
  BY InitTypeOK, NextTypeOK, InitBelow, NextBelow, PTL DEF Spec

-----------------------------------------------------------------------------
(* The answer is exact *)

\* The blocks that read l first, and those from which one step leads, without a
\* write of l, to a block of R.
FirstReaders(b, l) == {m \in Blocks(b) : l \in Uses(b, m)}
OneStepBack(b, l, R) == {m \in Blocks(b) : l \notin Defs(b, m) /\ Succ(b, m) \cap R # {}}

\* PathLive is the least set of blocks that holds the first readers of a local and
\* every block from which one step leads into it: the bound on the length of the
\* paths loses none.
LEMMA PathLiveIsLeast ==
  ASSUME NEW b, b.size \in Nat \ {0}, NEW l
  PROVE  \E R \in SUBSET Blocks(b) :
           /\ \A n : PathLive(b, l, n) <=> n \in R
           /\ FirstReaders(b, l) \subseteq R
           /\ OneStepBack(b, l, R) \subseteq R
           /\ \A C \in SUBSET Blocks(b) :
                FirstReaders(b, l) \subseteq C /\ OneStepBack(b, l, C) \subseteq C => R \subseteq C
<1> DEFINE step == [X \in SUBSET Blocks(b) |-> X \cup OneStepBack(b, l, X)]
           Is(g) == g = [k \in 0 .. b.size |->
                           IF k = 0 THEN FirstReaders(b, l)
                           ELSE g[k - 1] \cup OneStepBack(b, l, g[k - 1])]
           Readers == CHOOSE g : Is(g)
<1>1. /\ Adds(step, Blocks(b)) /\ step \in [SUBSET Blocks(b) -> SUBSET Blocks(b)]
      /\ FirstReaders(b, l) \in SUBSET Blocks(b)
      /\ b.size \in Nat
  BY DEF OneStepBack, FirstReaders, Adds
<1>2. \E g : Is(g)
  <2>1. PICK g \in [0 .. b.size -> SUBSET Blocks(b)] : Iterates(g, b.size, FirstReaders(b, l), step)
    <3> HIDE DEF step
    <3> QED  BY <1>1, IterationExists
  <2>2. ASSUME NEW k \in 0 .. b.size, k # 0
        PROVE  g[k] = g[k - 1] \cup OneStepBack(b, l, g[k - 1])
    <3>1. k \in 1 .. b.size /\ g[k - 1] \in SUBSET Blocks(b)
      BY <2>1, <2>2
    <3> QED  BY <2>1, <3>1 DEF Iterates
  <2>3. Is(g)
    BY <2>1, <2>2 DEF Iterates
  <2> HIDE DEF Is
  <2> QED  BY <2>3
<1>3. Is(Readers)
  <2> HIDE DEF Is
  <2> QED  BY <1>2
<1>4. \A n : PathLive(b, l, n) <=> n \in Readers[b.size]
  BY DEF PathLive, FirstReaders, OneStepBack
<1> HIDE DEF Readers
<1>5. Readers[0] = FirstReaders(b, l)
  BY <1>3
<1>6. ASSUME NEW k \in 1 .. b.size, Readers[k - 1] \subseteq Blocks(b)
      PROVE  Readers[k] = step[Readers[k - 1]]
  <2>1. k \in 0 .. b.size /\ k # 0
    OBVIOUS
  <2>2. Readers[k] = Readers[k - 1] \cup OneStepBack(b, l, Readers[k - 1])
    BY <1>3, <2>1
  <2> QED  BY <1>6, <2>2
<1>7. IsFiniteSet(Blocks(b)) /\ Cardinality(Blocks(b)) <= b.size
  BY <1>1, FS_Interval DEF Blocks
<1>8. LeastClosed(Readers[b.size], Blocks(b), FirstReaders(b, l), step)
  <2>1. IteratesIn(Blocks(b), Readers, b.size, FirstReaders(b, l), step)
    BY <1>5, <1>6 DEF IteratesIn
  <2>2. FirstReaders(b, l) \subseteq Blocks(b)
    BY <1>1
  <2> HIDE DEF step
  <2> QED  BY <1>1, <1>7, <2>1, <2>2, IterationIsLeastClosed
<1>9. ASSUME NEW C \in SUBSET Blocks(b), OneStepBack(b, l, C) \subseteq C
      PROVE  Keeps(step, C)
  BY <1>9 DEF OneStepBack, Keeps
<1>10. OneStepBack(b, l, Readers[b.size]) \subseteq Readers[b.size] /\ Readers[b.size] \in SUBSET Blocks(b)
  BY <1>8 DEF LeastClosed
<1>11. ASSUME NEW C \in SUBSET Blocks(b), FirstReaders(b, l) \subseteq C, OneStepBack(b, l, C) \subseteq C
       PROVE  Readers[b.size] \subseteq C
  <2> HIDE DEF step
  <2> QED  BY <1>8, <1>9, <1>11 DEF LeastClosed
<1>12. FirstReaders(b, l) \subseteq Readers[b.size]
  BY <1>8 DEF LeastClosed
<1> QED  BY <1>4, <1>10, <1>11, <1>12

\* Every path to a read is in every solution of the equations.
LEMMA SolutionsHoldPaths ==
  ASSUME NEW b, b.size \in Nat \ {0}, \A n \in Blocks(b) : Succ(b, n) \subseteq Blocks(b),
         NEW in, NEW out, Solves(b, in, out),
         NEW l, NEW n \in Blocks(b), PathLive(b, l, n)
  PROVE  l \in in[n]
<1> DEFINE C == {m \in Blocks(b) : l \in in[m]}
<1>1. FirstReaders(b, l) \subseteq C
  BY DEF FirstReaders, Solves, Balanced, NewLiveIn
<1>2. OneStepBack(b, l, C) \subseteq C
  BY DEF OneStepBack, Solves, Balanced, NewLiveIn, NewLiveOut
<1>3. PICK R \in SUBSET Blocks(b) :
        /\ \A m : PathLive(b, l, m) <=> m \in R
        /\ FirstReaders(b, l) \subseteq C /\ OneStepBack(b, l, C) \subseteq C => R \subseteq C
  BY PathLiveIsLeast
<1> QED  BY <1>1, <1>2, <1>3

\* What the paths say is itself a solution of the equations.
PathIn(b)  == [n \in Blocks(b) |-> {l \in Locals(b) : PathLive(b, l, n)}]
PathOut(b) == [n \in Blocks(b) |-> NewLiveOut(b, PathIn(b), n)]

LEMMA PathsSolve ==
  ASSUME NEW b, b.size \in Nat \ {0}, \A n \in Blocks(b) : Succ(b, n) \subseteq Blocks(b)
  PROVE  /\ Solves(b, PathIn(b), PathOut(b))
         /\ PathIn(b) \in [Blocks(b) -> SUBSET Locals(b)]
         /\ PathOut(b) \in [Blocks(b) -> SUBSET Locals(b)]
<1>1. PathIn(b) \in [Blocks(b) -> SUBSET Locals(b)]
  BY DEF PathIn
<1>2. PathOut(b) \in [Blocks(b) -> SUBSET Locals(b)]
  BY <1>1 DEF PathOut, NewLiveOut
<1>3. ASSUME NEW n \in Blocks(b), NEW l \in Locals(b)
      PROVE  PathLive(b, l, n)
               <=> \/ l \in Uses(b, n)
                   \/ l \notin Defs(b, n) /\ \E s \in Succ(b, n) : PathLive(b, l, s)
  <2>1. PICK R \in SUBSET Blocks(b) :
          /\ \A m : PathLive(b, l, m) <=> m \in R
          /\ FirstReaders(b, l) \subseteq R
          /\ OneStepBack(b, l, R) \subseteq R
          /\ \A C \in SUBSET Blocks(b) :
               FirstReaders(b, l) \subseteq C /\ OneStepBack(b, l, C) \subseteq C => R \subseteq C
    BY PathLiveIsLeast
  <2> DEFINE C == FirstReaders(b, l) \cup OneStepBack(b, l, R)
  <2>2. C \subseteq R /\ C \in SUBSET Blocks(b)
    BY <2>1
  <2>3. OneStepBack(b, l, C) \subseteq OneStepBack(b, l, R)
    <3>1. \A s : s \in C => s \in R
      BY <2>2
    <3> HIDE DEF C
    <3> QED  BY <3>1 DEF OneStepBack
  <2>4. R = C
    BY <2>1, <2>2, <2>3
  <2>5. n \in R <=> n \in FirstReaders(b, l) \/ n \in OneStepBack(b, l, R)
    BY <2>4
  <2> QED  BY <2>1, <2>5 DEF FirstReaders, OneStepBack
<1>4. ASSUME NEW n \in Blocks(b) PROVE PathIn(b)[n] = NewLiveIn(b, PathOut(b)[n], n)
  <2>1. Uses(b, n) \subseteq Locals(b)
    BY DEF Uses
  <2>2. PathOut(b)[n] = {l \in Locals(b) : \E s \in Succ(b, n) : PathLive(b, l, s)}
    <3>1. \A s \in Succ(b, n) : PathIn(b)[s] = {l \in Locals(b) : PathLive(b, l, s)}
      BY DEF PathIn
    <3>2. PathOut(b)[n] = UNION {PathIn(b)[s] : s \in Succ(b, n)}
      BY DEF PathOut, NewLiveOut
    <3>3. \A l : l \in PathOut(b)[n] <=> \E s \in Succ(b, n) : l \in PathIn(b)[s]
      BY <3>2
    <3>4. \A l : l \in PathOut(b)[n]
                   <=> l \in Locals(b) /\ \E s \in Succ(b, n) : PathLive(b, l, s)
      BY <3>1, <3>3
    <3> QED  BY <3>4
  <2>3. PathIn(b)[n] = {l \in Locals(b) : PathLive(b, l, n)}
    BY DEF PathIn
  <2> QED  BY <1>3, <2>1, <2>2, <2>3 DEF NewLiveIn
<1>5. \A n \in Blocks(b) : PathOut(b)[n] = NewLiveOut(b, PathIn(b), n)
  BY DEF PathOut
<1> QED  BY <1>1, <1>2, <1>4, <1>5 DEF Solves, Balanced

\* The answer is what the paths say, whatever the rounds were.
LEMMA AnswerIsPaths ==
  ASSUME IInv, BelowEverySolution, phase = "done"
  PROVE  live_in = PathIn(mir) /\ live_out = PathOut(mir)
<1>1. mir.size \in Nat \ {0} /\ \A m \in Blocks(mir) : Succ(mir, m) \subseteq Blocks(mir)
  BY SuccAreBlocks DEF IInv, TypeOK
<1>2. Solves(mir, live_in, live_out)
  BY QuietRoundSolves DEF IInv
<1>3. /\ live_in \in [Blocks(mir) -> SUBSET Locals(mir)]
      /\ live_out \in [Blocks(mir) -> SUBSET Locals(mir)]
  BY DEF IInv, TypeOK
<1>4. /\ PathIn(mir) \in [Blocks(mir) -> SUBSET Locals(mir)]
      /\ PathOut(mir) \in [Blocks(mir) -> SUBSET Locals(mir)]
      /\ Solves(mir, PathIn(mir), PathOut(mir))
  BY <1>1, PathsSolve
<1>5. \A n \in Blocks(mir) : live_in[n] \subseteq PathIn(mir)[n] /\ live_out[n] \subseteq PathOut(mir)[n]
  BY <1>4 DEF BelowEverySolution
<1>6. ASSUME NEW n \in Blocks(mir) PROVE live_in[n] = PathIn(mir)[n]
  <2>1. PathIn(mir)[n] \subseteq live_in[n]
    BY <1>1, <1>2, SolutionsHoldPaths DEF PathIn
  <2> QED  BY <1>5, <2>1
<1>7. live_in = PathIn(mir)
  BY <1>3, <1>4, <1>6
<1>8. ASSUME NEW n \in Blocks(mir) PROVE live_out[n] = PathOut(mir)[n]
  BY <1>2, <1>4, <1>7 DEF Solves, Balanced
<1> QED  BY <1>3, <1>4, <1>7, <1>8

\* What compute returns is exact for every body: a local is live on entry to a block if
\* and only if a path from there reads it before writing it.
THEOREM Exactness == Spec => []AnswerExact
<1>1. IInv /\ BelowEverySolution => AnswerExact
  BY AnswerIsPaths DEF AnswerExact, PathIn
<1> QED  BY <1>1, InitTypeOK, NextTypeOK, InitBelow, NextBelow, InitIInv, NextIInv, PTL DEF Spec

-----------------------------------------------------------------------------
(* Refinement *)

\* The abstract specification's copies of the data-flow operators are the
\* operators used here.
LEMMA SameOperators ==
  ASSUME NEW b, NEW in, NEW out, NEW set, NEW n
  PROVE  /\ Abstract!Blocks(b) = Blocks(b)
         /\ Abstract!NoLocals(b) = NoLocals(b)
         /\ Abstract!NewLiveOut(b, in, n) = NewLiveOut(b, in, n)
         /\ Abstract!NewLiveIn(b, set, n) = NewLiveIn(b, set, n)
         /\ Abstract!Solves(b, in, out) <=> Solves(b, in, out)
<1>1. Abstract!Blocks(b) = Blocks(b)
  BY DEF Abstract!Blocks, Blocks
<1>2. Abstract!NoLocals(b) = NoLocals(b)
  BY <1>1 DEF Abstract!NoLocals, NoLocals
<1>3. ASSUME NEW m
      PROVE  Abstract!NewLiveOut(b, in, m) = NewLiveOut(b, in, m)
  BY DEF Abstract!NewLiveOut, NewLiveOut, Abstract!Succ, Succ
<1>4. \A i : Abstract!InstrUses(i) = InstrUses(i) /\ Abstract!InstrDefs(i) = InstrDefs(i)
  <2>1. \A args : Abstract!OperandLocals(args) = OperandLocals(args)
    BY DEF Abstract!OperandLocals, OperandLocals
  <2>2. QED
    BY <2>1 DEF Abstract!InstrUses, InstrUses, Abstract!InstrDefs, InstrDefs
<1>5. \A t : Abstract!TermUses(t) = TermUses(t)
  BY DEF Abstract!TermUses, TermUses, Abstract!OperandLocals, OperandLocals
<1>6. ASSUME NEW m, NEW s
      PROVE  Abstract!NewLiveIn(b, s, m) = NewLiveIn(b, s, m)
  <2>1. Abstract!Code(b, m) = Code(b, m)
    BY DEF Abstract!Code, Code
  <2>2. Abstract!Defs(b, m) = Defs(b, m)
    BY <1>4, <2>1 DEF Abstract!Defs, Defs
  <2>3. Abstract!Uses(b, m) = Uses(b, m)
    BY <1>4, <1>5, <2>1 DEF Abstract!Uses, Uses, Abstract!Locals, Locals,
                            Abstract!Term, Term
  <2>4. QED
    BY <2>2, <2>3 DEF Abstract!NewLiveIn, NewLiveIn
<1>7. Abstract!Solves(b, in, out) <=> Solves(b, in, out)
  BY <1>1, <1>3, <1>6 DEF Abstract!Solves, Solves, Abstract!Balanced, Balanced
<1>8. QED
  BY <1>1, <1>2, <1>3, <1>6, <1>7

\* A visit re-evaluates one block and takes nothing out of its sets (NextGrounded),
\* Finish answers only when everything balances, and keeping the round stutters.
LEMMA StepIsChaotic ==
  ASSUME IInv, Grounded, [Next]_vars
  PROVE  [Abstract!Next]_(Abstract!vars)
<1>1. ASSUME VisitBlock PROVE Abstract!Reevaluate(node)
  <2>1. live_in[node] \subseteq live_in'[node] /\ live_out[node] \subseteq live_out'[node]
    BY <1>1, NextGrounded DEF VisitBlock, IInv
  <2>2. live_out'[node] = NewLiveOut(mir, live_in, node)
    BY <1>1 DEF VisitBlock, IInv, TypeOK
  <2> QED  BY <1>1, <2>1, <2>2, SameOperators DEF VisitBlock, Abstract!Reevaluate
<1>2. VisitBlock => Abstract!Next
  BY <1>1, SameOperators DEF VisitBlock, Abstract!Next
<1>3. Finish => Abstract!Next
  BY QuietRoundSolves, SameOperators DEF Finish, Abstract!Next, Abstract!Answer
<1>4. StartRound \/ EndRound \/ UNCHANGED vars => UNCHANGED Abstract!vars
  BY DEF StartRound, EndRound, vars, Abstract!vars
<1> QED  BY <1>2, <1>3, <1>4 DEF Next

\* The round-robin loop of compute is a chaotic iteration, which only adds to the
\* sets and answers when every block's equations hold.
THEOREM Refinement == Spec => RefinesChaotic
<1>1. Spec => [](IInv /\ Grounded)
  <2>1. IInv /\ Grounded /\ [Next]_vars => Grounded'
    BY NextGrounded DEF IInv
  <2> QED  BY <2>1, InitIInv, NextIInv, InitGrounded, PTL DEF Spec
<1>2. Init => Abstract!Init
  BY SameOperators DEF Init, Abstract!Init
<1> QED  BY <1>1, <1>2, StepIsChaotic, PTL DEF Spec, RefinesChaotic, Abstract!Spec

=============================================================================
