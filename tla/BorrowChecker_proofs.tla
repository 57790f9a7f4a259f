------------------------- MODULE BorrowChecker_proofs -------------------------
(***************************************************************************)
(* Proofs about BorrowChecker for every set of bodies and programs.        *)
(***************************************************************************)
EXTENDS BorrowChecker, IterationTheorems, TLAPS

\* What is proved of the liveness analysis holds of the one each check makes.
Live == INSTANCE LivenessAnalysis_proofs

-----------------------------------------------------------------------------
(* The operators of the two instances are those used here *)

LEMMA SameBodies == \A b \in Bodies : Live!IsBody(b)
  BY BodiesAssumption
  DEF IsBody, Live!IsBody, Blocks, Live!Blocks, Locals, Live!Locals, InstructionOps,
      Live!InstructionOps, TerminatorOps, Live!TerminatorOps, Operands, Live!Operands,
      AreOperands, Live!AreOperands, Copy, Live!Copy, Move, Live!Move

LEMMA SameEquations ==
  ASSUME NEW b
  PROVE  /\ Live!Blocks(b) = Blocks(b) /\ Liveness!Blocks(b) = Blocks(b)
         /\ Live!NoLocals(b) = NoLocals(b)
         /\ \A in, n : /\ Live!NewLiveOut(b, in, n) = NewLiveOut(b, in, n)
                       /\ Liveness!NewLiveOut(b, in, n) = NewLiveOut(b, in, n)
         /\ \A out, n : /\ Live!NewLiveIn(b, out, n) = NewLiveIn(b, out, n)
                        /\ Liveness!NewLiveIn(b, out, n) = NewLiveIn(b, out, n)
         /\ \A in, out : Live!Solves(b, in, out) <=> Solves(b, in, out)
<1>1. Live!Blocks(b) = Blocks(b) /\ Liveness!Blocks(b) = Blocks(b)
  BY DEF Live!Blocks, Liveness!Blocks, Blocks
<1>2. Live!NoLocals(b) = NoLocals(b)
  BY <1>1 DEF Live!NoLocals, NoLocals
<1>3. ASSUME NEW in, NEW n
      PROVE  /\ Live!NewLiveOut(b, in, n) = NewLiveOut(b, in, n)
             /\ Liveness!NewLiveOut(b, in, n) = NewLiveOut(b, in, n)
  BY DEF Live!NewLiveOut, Liveness!NewLiveOut, NewLiveOut, Live!Succ, Liveness!Succ, Succ
<1>4. \A i : /\ Live!InstrUses(i) = InstrUses(i) /\ Live!InstrDefs(i) = InstrDefs(i)
             /\ Liveness!InstrUses(i) = InstrUses(i) /\ Liveness!InstrDefs(i) = InstrDefs(i)
  BY DEF Live!OperandLocals, Liveness!OperandLocals, OperandLocals, Live!InstrUses,
         Liveness!InstrUses, InstrUses, Live!InstrDefs, Liveness!InstrDefs, InstrDefs
<1>5. \A t : Live!TermUses(t) = TermUses(t) /\ Liveness!TermUses(t) = TermUses(t)
  BY DEF Live!TermUses, Liveness!TermUses, TermUses, Live!OperandLocals,
         Liveness!OperandLocals, OperandLocals
<1>6. ASSUME NEW out, NEW n
      PROVE  /\ Live!NewLiveIn(b, out, n) = NewLiveIn(b, out, n)
             /\ Liveness!NewLiveIn(b, out, n) = NewLiveIn(b, out, n)
  <2>1. Live!Code(b, n) = Code(b, n) /\ Liveness!Code(b, n) = Code(b, n)
    BY DEF Live!Code, Liveness!Code, Code
  <2>2. Live!Defs(b, n) = Defs(b, n) /\ Liveness!Defs(b, n) = Defs(b, n)
    BY <1>4, <2>1 DEF Live!Defs, Liveness!Defs, Defs
  <2>3. Live!Uses(b, n) = Uses(b, n) /\ Liveness!Uses(b, n) = Uses(b, n)
    BY <1>4, <1>5, <2>1 DEF Live!Uses, Liveness!Uses, Uses, Live!Locals, Liveness!Locals, Locals,
                            Live!Term, Liveness!Term, Term
  <2> QED  BY <2>2, <2>3 DEF Live!NewLiveIn, Liveness!NewLiveIn, NewLiveIn
<1>7. \A in, out : Live!Solves(b, in, out) <=> Solves(b, in, out)
  BY <1>1, <1>3, <1>6 DEF Live!Solves, Solves, Live!Balanced, Balanced
<1> QED  BY <1>1, <1>2, <1>3, <1>6, <1>7

LEMMA SameNext == Liveness!Next <=> Live!Next
<1>1. Liveness!VisitBlock <=> Live!VisitBlock
  <2>1. Liveness!Blocks(mir) = Live!Blocks(mir)
    BY SameEquations
  <2>2. Liveness!NewLiveOut(mir, live_in, node) = Live!NewLiveOut(mir, live_in, node)
    BY SameEquations
  <2>3. \A out : Liveness!NewLiveIn(mir, out, node) = Live!NewLiveIn(mir, out, node)
    BY SameEquations
  <2>4. \A out, in : Liveness!NowChanged(out, in) <=> Live!NowChanged(out, in)
    BY DEF Liveness!NowChanged, Live!NowChanged
  <2> QED  BY <2>1, <2>2, <2>3, <2>4, Zenon DEF Liveness!VisitBlock, Live!VisitBlock
<1>2. Liveness!EndRound <=> Live!EndRound
  BY SameEquations DEF Liveness!EndRound, Live!EndRound
<1>3. (Liveness!StartRound <=> Live!StartRound) /\ (Liveness!Finish <=> Live!Finish)
  BY DEF Liveness!StartRound, Live!StartRound, Liveness!Finish, Live!Finish
<1> QED  BY <1>1, <1>2, <1>3 DEF Liveness!Next, Live!Next

-----------------------------------------------------------------------------
(* Program points *)

LEMMA BodyFacts ==
  ASSUME NEW b \in Bodies
  PROVE  /\ b.size \in Nat \ {0}
         /\ \A n \in Blocks(b) :
              /\ Succ(b, n) \subseteq Blocks(b)
              /\ Term(b, n).op \in TerminatorOps
              /\ Len(Code(b, n)) \in Nat
              /\ DOMAIN Code(b, n) = 1 .. Len(Code(b, n))
              /\ \A i \in 1 .. Len(Code(b, n)) :
                   /\ Code(b, n)[i].op \in InstructionOps
                   /\ Code(b, n)[i].op \in {"assign", "ref"} => Code(b, n)[i].dst \in Locals(b)
<1>1. IsBody(b)
  BY BodiesAssumption
<1>2. ASSUME NEW n \in Blocks(b)
      PROVE  Len(Code(b, n)) \in Nat /\ DOMAIN Code(b, n) = 1 .. Len(Code(b, n))
  <2>1. Code(b, n) \in Seq({Code(b, n)[i] : i \in DOMAIN Code(b, n)})
    BY <1>1 DEF IsBody, Code
  <2> QED  BY <2>1
<1> QED  BY <1>1, <1>2 DEF IsBody, Succ, Term, Code

LEMMA PointsAre ==
  ASSUME NEW b \in Bodies
  PROVE  \A pt : pt \in Points(b) <=> /\ pt = <<pt[1], pt[2]>>
                                      /\ pt[1] \in Blocks(b)
                                      /\ pt[2] \in 1 .. Len(Code(b, pt[1])) + 1
  BY DEF Points

LEMMA PointsFinite ==
  ASSUME NEW b \in Bodies
  PROVE  IsFiniteSet(Points(b)) /\ Cardinality(Points(b)) \in Nat
<1> DEFINE row == [n \in Blocks(b) |-> {n} \X (1 .. Len(Code(b, n)) + 1)]
           Rows == {row[n] : n \in Blocks(b)}
<1>1. IsFiniteSet(Blocks(b))
  BY BodyFacts, FS_Interval DEF Blocks
<1>2. IsFiniteSet(Rows)
  <2>1. row \in Surjection(Blocks(b), Rows)
    BY DEF Surjection
  <2> QED  BY <1>1, <2>1, FS_Surjection
<1>3. \A n \in Blocks(b) : IsFiniteSet(row[n])
  <2> TAKE n \in Blocks(b)
  <2>1. IsFiniteSet(1 .. Len(Code(b, n)) + 1)
    BY BodyFacts, FS_Interval
  <2>2. IsFiniteSet({n} \X (1 .. Len(Code(b, n)) + 1))
    BY <2>1, FS_Singleton, FS_Product
  <2> QED  BY <2>2
<1>4. IsFiniteSet(UNION Rows)
  <2>1. \A R \in Rows : IsFiniteSet(R)
    BY <1>3
  <2> HIDE DEF Rows
  <2> QED  BY <1>2, <2>1, FS_UNION
<1>5. UNION Rows = Points(b)
  BY DEF Points
<1> QED  BY <1>4, <1>5, FS_CardinalityType

LEMMA FollowStays ==
  ASSUME NEW b \in Bodies, NEW pt \in Points(b)
  PROVE  /\ Follow(b, pt) \subseteq Points(b)
         /\ pt = <<pt[1], pt[2]>> /\ pt[1] \in Blocks(b) /\ pt[2] \in 1 .. Len(Code(b, pt[1])) + 1
<1>1. pt = <<pt[1], pt[2]>> /\ pt[1] \in Blocks(b) /\ pt[2] \in 1 .. Len(Code(b, pt[1])) + 1
  BY PointsAre
<1>2. CASE AtTerm(b, pt)
  <2>1. ASSUME NEW m \in Succ(b, pt[1]) PROVE <<m, 1>> \in Points(b)
    BY <1>1, BodyFacts, PointsAre
  <2> QED  BY <1>1, <1>2, <2>1 DEF Follow
<1>3. CASE ~AtTerm(b, pt)
  <2>1. <<pt[1], pt[2] + 1>> \in Points(b)
    BY <1>1, <1>3, BodyFacts, PointsAre DEF AtTerm
  <2> QED  BY <1>1, <1>3, <2>1 DEF Follow
<1> QED  BY <1>1, <1>2, <1>3

-----------------------------------------------------------------------------
(* Reachability *)

KeepStep(b, l) ==
  [X \in SUBSET Points(b) |-> X \cup UNION {Follow(b, p) : p \in {q \in X : l \notin Writes(b, q)}}]

\* Keeping is the least set of points that holds the start and is closed under the
\* steps that leave l alone.
LEMMA KeepingLeast ==
  ASSUME NEW b \in Bodies, NEW l, NEW start, start \subseteq Points(b)
  PROVE  LeastClosed(Keeping(b, l, start), Points(b), start, KeepStep(b, l))
<1> DEFINE step == KeepStep(b, l)
           Most == Cardinality(Points(b))
           Is(g) == g = [k \in 0 .. Most |->
                           IF k = 0 THEN start
                           ELSE g[k - 1] \cup
                                UNION {Follow(b, p) : p \in {q \in g[k - 1] : l \notin Writes(b, q)}}]
           Reach == CHOOSE g : Is(g)
<1>1. /\ Adds(step, Points(b)) /\ step \in [SUBSET Points(b) -> SUBSET Points(b)]
      /\ start \in SUBSET Points(b) /\ start \subseteq Points(b)
      /\ Most \in Nat /\ Cardinality(Points(b)) <= Most /\ IsFiniteSet(Points(b))
  <2>1. ASSUME NEW X \in SUBSET Points(b) PROVE step[X] \in SUBSET Points(b) /\ X \subseteq step[X]
    BY FollowStays DEF KeepStep
  <2>2. step = [X \in SUBSET Points(b) |-> step[X]]
    BY DEF KeepStep
  <2>3. step \in [SUBSET Points(b) -> SUBSET Points(b)]
    <3> HIDE DEF step
    <3> QED  BY <2>1, <2>2
  <2>4. Most \in Nat /\ Cardinality(Points(b)) <= Most /\ IsFiniteSet(Points(b))
    BY PointsFinite
  <2> QED  BY <2>1, <2>3, <2>4 DEF Adds
<1>2. \E g : Is(g)
  <2>1. PICK g \in [0 .. Most -> SUBSET Points(b)] : Iterates(g, Most, start, step)
    <3> HIDE DEF step, Most
    <3> QED  BY <1>1, IterationExists
  <2>2. ASSUME NEW k \in 0 .. Most, k # 0
        PROVE  g[k] = g[k - 1] \cup UNION {Follow(b, p) : p \in {q \in g[k - 1] : l \notin Writes(b, q)}}
    <3>1. k \in 1 .. Most /\ g[k - 1] \in SUBSET Points(b)
      BY <1>1, <2>1, <2>2
    <3> QED  BY <2>1, <3>1 DEF Iterates, KeepStep
  <2>3. Is(g)
    <3> HIDE DEF Most
    <3> QED  BY <1>1, <2>1, <2>2 DEF Iterates
  <2> HIDE DEF Is
  <2> QED  BY <2>3
<1>3. Is(Reach)
  <2> HIDE DEF Is
  <2> QED  BY <1>2
<1>4. Keeping(b, l, start) = Reach[Most]
  BY DEF Keeping, Forward
<1> HIDE DEF Reach
<1>5. IteratesIn(Points(b), Reach, Most, start, step)
  <2>1. Reach[0] = start
    BY <1>1, <1>3
  <2>2. ASSUME NEW k \in 1 .. Most, Reach[k - 1] \subseteq Points(b)
        PROVE  Reach[k] = step[Reach[k - 1]]
    <3>1. k \in 0 .. Most /\ k # 0
      BY <1>1
    <3>2. Reach[k] = Reach[k - 1] \cup
                       UNION {Follow(b, p) : p \in {q \in Reach[k - 1] : l \notin Writes(b, q)}}
      BY <1>3, <3>1
    <3> QED  BY <2>2, <3>2 DEF KeepStep
  <2> QED  BY <2>1, <2>2 DEF IteratesIn
<1> HIDE DEF step, Most
<1>6. LeastClosed(Reach[Most], Points(b), start, step)
  BY <1>1, <1>5, IterationIsLeastClosed
<1> QED  BY <1>4, <1>6 DEF step

\* To bound what keeps a value, find a set that holds the start and that no step
\* which leaves the local alone leads out of.
LEMMA KeepingWithin ==
  ASSUME NEW b \in Bodies, NEW l, NEW start, start \subseteq Points(b),
         NEW C, C \subseteq Points(b), start \subseteq C,
         \A p \in C : l \notin Writes(b, p) => Follow(b, p) \subseteq C
  PROVE  Keeping(b, l, start) \subseteq C
<1>1. Keeps(KeepStep(b, l), C)
  BY DEF Keeps, KeepStep
<1>2. LeastClosed(Keeping(b, l, start), Points(b), start, KeepStep(b, l))
  BY KeepingLeast
<1> QED  BY <1>1, <1>2 DEF LeastClosed

-----------------------------------------------------------------------------
(* A reference is live only within its region *)

\* What the block sets say of l at a point: it is read later in the block before it is
\* written, or it is live on exit and not written in the rest of the block.
ReadAhead(b, l, n, i) ==
  \E j \in i .. Len(Code(b, n)) + 1 :
    /\ l \in AnalysedReads(b, <<n, j>>)
    /\ \A k \in i .. j - 1 : l \notin InstrDefs(Code(b, n)[k])

UnwrittenFrom(b, l, n, i) == \A k \in i .. Len(Code(b, n)) : l \notin InstrDefs(Code(b, n)[k])

LiveAt(b, l, out, pt) ==
  ReadAhead(b, l, pt[1], pt[2]) \/ (l \in out[pt[1]] /\ UnwrittenFrom(b, l, pt[1], pt[2]))

\* The reads of a position are those the block's own summary counts.
LEMMA ReadsOfPosition ==
  ASSUME NEW b \in Bodies, NEW n \in Blocks(b), NEW j \in 1 .. Len(Code(b, n)) + 1
  PROVE  /\ AnalysedReads(b, <<n, j>>) =
              IF j = Len(Code(b, n)) + 1 THEN TermUses(Term(b, n)) ELSE InstrUses(Code(b, n)[j])
         /\ Writes(b, <<n, j>>) = IF j = Len(Code(b, n)) + 1 THEN {} ELSE InstrDefs(Code(b, n)[j])
<1>1. CASE j = Len(Code(b, n)) + 1
  <2>1. At(b, <<n, j>>) = Term(b, n) /\ Term(b, n).op \in TerminatorOps
    BY <1>1, BodyFacts DEF At, AtTerm
  <2>2. InstrUses(Term(b, n)) = {} /\ InstrDefs(Term(b, n)) = {}
    BY <2>1 DEF InstrUses, InstrDefs, TerminatorOps
  <2> QED  BY <1>1, <2>1, <2>2 DEF AnalysedReads, Writes
<1>2. CASE j # Len(Code(b, n)) + 1
  <2>1. At(b, <<n, j>>) = Code(b, n)[j] /\ Code(b, n)[j].op \in InstructionOps
    BY <1>2, BodyFacts DEF At, AtTerm
  <2>2. TermUses(Code(b, n)[j]) = {}
    BY <2>1 DEF TermUses, InstructionOps
  <2> QED  BY <1>2, <2>1, <2>2 DEF AnalysedReads, Writes
<1> QED  BY <1>1, <1>2

\* A read no write of the block precedes is one of the block's uses.
LEMMA FirstReadIsUse ==
  ASSUME NEW b \in Bodies, NEW n \in Blocks(b), NEW l \in Locals(b), ReadAhead(b, l, n, 1)
  PROVE  l \in Uses(b, n)
<1>1. PICK j \in 1 .. Len(Code(b, n)) + 1 :
        /\ l \in AnalysedReads(b, <<n, j>>)
        /\ \A k \in 1 .. j - 1 : l \notin InstrDefs(Code(b, n)[k])
  BY DEF ReadAhead
<1>2. l \in IF j = Len(Code(b, n)) + 1 THEN TermUses(Term(b, n)) ELSE InstrUses(Code(b, n)[j])
  BY <1>1, ReadsOfPosition
<1> QED  BY <1>1, <1>2 DEF Uses

\* If l is live at the start of a block it is in the block's set.
LEMMA LiveAtStart ==
  ASSUME NEW b \in Bodies, NEW in, NEW out, Solves(b, in, out),
         NEW n \in Blocks(b), NEW l \in Locals(b), LiveAt(b, l, out, <<n, 1>>)
  PROVE  l \in in[n]
<1>1. in[n] = Uses(b, n) \cup (out[n] \ Defs(b, n))
  BY DEF Solves, Balanced, NewLiveIn
<1>2. CASE ReadAhead(b, l, n, 1)
  BY <1>1, <1>2, FirstReadIsUse
<1>3. CASE l \in out[n] /\ UnwrittenFrom(b, l, n, 1)
  <2>1. l \notin Defs(b, n)
    BY <1>3, BodyFacts DEF Defs, UnwrittenFrom
  <2> QED  BY <1>1, <1>3, <2>1
<1> QED  BY <1>2, <1>3 DEF LiveAt

\* Liveness goes backward over a step that leaves l alone.
LEMMA LiveBeforeStep ==
  ASSUME NEW b \in Bodies, NEW in, NEW out, Solves(b, in, out), NEW l \in Locals(b),
         NEW p \in Points(b), l \notin Writes(b, p),
         NEW q \in Follow(b, p), LiveAt(b, l, out, q)
  PROVE  LiveAt(b, l, out, p)
<1> DEFINE n == p[1]
           i == p[2]
           end == Len(Code(b, n)) + 1
<1>1. p = <<n, i>> /\ n \in Blocks(b) /\ i \in 1 .. end /\ end \in Nat /\ q \in Points(b)
  BY FollowStays, BodyFacts
<1>2. CASE i = end
  <2>1. q = <<q[1], 1>> /\ q[1] \in Succ(b, n) /\ q[1] \in Blocks(b)
    BY <1>1, <1>2, BodyFacts DEF Follow, AtTerm
  <2>2. l \in in[q[1]]
    BY <2>1, LiveAtStart
  <2>3. l \in out[n]
    BY <1>1, <2>1, <2>2 DEF Solves, Balanced, NewLiveOut
  <2>4. UnwrittenFrom(b, l, n, i)
    BY <1>1, <1>2 DEF UnwrittenFrom
  <2> QED  BY <2>3, <2>4 DEF LiveAt
<1>3. CASE i # end
  <2>1. q = <<n, i + 1>>
    BY <1>1, <1>3 DEF Follow, AtTerm
  <2>2. l \notin InstrDefs(Code(b, n)[i])
    BY <1>1, <1>3, ReadsOfPosition
  <2>3. CASE ReadAhead(b, l, n, i + 1)
    <3>1. PICK j \in i + 1 .. end : /\ l \in AnalysedReads(b, <<n, j>>)
                                    /\ \A k \in i + 1 .. j - 1 : l \notin InstrDefs(Code(b, n)[k])
      BY <2>3 DEF ReadAhead
    <3>2. j \in i .. end
      BY <1>1
    <3>3. \A k \in i .. j - 1 : l \notin InstrDefs(Code(b, n)[k])
      <4> TAKE k \in i .. j - 1
      <4>1. k = i \/ k \in i + 1 .. j - 1
        BY <1>1
      <4> QED  BY <2>2, <3>1, <4>1
    <3>4. ReadAhead(b, l, n, i)
      BY <3>1, <3>2, <3>3 DEF ReadAhead
    <3> QED  BY <3>4 DEF LiveAt
  <2>4. CASE l \in out[n] /\ UnwrittenFrom(b, l, n, i + 1)
    <3>1. UnwrittenFrom(b, l, n, i)
      <4> SUFFICES ASSUME NEW k \in i .. Len(Code(b, n)) PROVE l \notin InstrDefs(Code(b, n)[k])
        BY DEF UnwrittenFrom
      <4>1. k = i \/ k \in i + 1 .. Len(Code(b, n))
        BY <1>1
      <4> QED  BY <2>2, <2>4, <4>1 DEF UnwrittenFrom
    <3> QED  BY <2>4, <3>1 DEF LiveAt
  <2> QED  BY <2>1, <2>3, <2>4 DEF LiveAt
<1> QED  BY <1>2, <1>3

\* A value that may be read later is live in the sense of the block sets.
LEMMA ReadLaterIsLive ==
  ASSUME NEW b \in Bodies, NEW in, NEW out, Solves(b, in, out), NEW l \in Locals(b),
         NEW pt \in Points(b), ReadLater(b, l, pt, AnalysedReads)
  PROVE  LiveAt(b, l, out, pt)
<1> DEFINE C == {p \in Points(b) : LiveAt(b, l, out, p) => LiveAt(b, l, out, pt)}
<1>1. PICK q \in Keeping(b, l, {pt}) : l \in AnalysedReads(b, q)
  BY DEF ReadLater
<1>2. \A p \in C : l \notin Writes(b, p) => Follow(b, p) \subseteq C
  BY LiveBeforeStep, FollowStays
<1>3. C \subseteq Points(b) /\ {pt} \subseteq C /\ {pt} \subseteq Points(b)
  OBVIOUS
<1>4. Keeping(b, l, {pt}) \subseteq C
  <2> HIDE DEF C
  <2> QED  BY <1>2, <1>3, KeepingWithin
<1>5. LiveAt(b, l, out, q)
  <2>1. q = <<q[1], q[2]>> /\ q[1] \in Blocks(b) /\ q[2] \in 1 .. Len(Code(b, q[1])) + 1
    BY <1>1, <1>4, FollowStays
  <2>2. ReadAhead(b, l, q[1], q[2])
    BY <1>1, <2>1, BodyFacts DEF ReadAhead
  <2> QED  BY <2>2 DEF LiveAt
<1> QED  BY <1>1, <1>4, <1>5

LEMMA RefSiteFacts ==
  ASSUME NEW b \in Bodies, NEW s \in RefSites(b)
  PROVE  s \in Points(b) /\ ~AtTerm(b, s) /\ At(b, s).dst \in Locals(b)
<1>1. s \in Points(b) /\ At(b, s).op = "ref"
  BY DEF RefSites
<1>2. s[1] \in Blocks(b) /\ s[2] \in 1 .. Len(Code(b, s[1])) + 1
  BY <1>1, FollowStays
<1>3. ~AtTerm(b, s)
  BY <1>1, <1>2, BodyFacts DEF At, TerminatorOps
<1>4. At(b, s) = Code(b, s[1])[s[2]] /\ s[2] \in 1 .. Len(Code(b, s[1]))
  BY <1>2, <1>3, BodyFacts DEF At, AtTerm
<1> QED  BY <1>1, <1>2, <1>3, <1>4, BodyFacts

\* The region inferred for a reference covers every block in which it is live.
LEMMA RegionCovers ==
  ASSUME mir \in Bodies, Solves(mir, live_in, live_out),
         NEW s \in RefSites(mir), NEW pt \in ReferenceLive(mir, s, AnalysedReads)
  PROVE  pt \in Points(mir) /\ pt[1] \in Region(s)
<1> DEFINE l == At(mir, s).dst
           Untouched(n, i) == \A k \in 1 .. i - 1 : l \notin InstrDefs(Code(mir, n)[k])
           C == {p \in Points(mir) : p[1] = s[1] \/ Untouched(p[1], p[2])}
<1>1. s \in Points(mir) /\ ~AtTerm(mir, s) /\ l \in Locals(mir)
  BY RefSiteFacts
<1>2. Follow(mir, s) \subseteq Points(mir)
  BY <1>1, FollowStays
<1>3. Follow(mir, s) \subseteq C
  BY <1>1, <1>2 DEF Follow
<1>4. ASSUME NEW p \in C, l \notin Writes(mir, p), NEW q \in Follow(mir, p)
      PROVE  q \in C
  <2>1. /\ p = <<p[1], p[2]>> /\ p[1] \in Blocks(mir) /\ p[2] \in 1 .. Len(Code(mir, p[1])) + 1
        /\ q \in Points(mir) /\ Len(Code(mir, p[1])) \in Nat
    BY <1>4, FollowStays, BodyFacts
  <2>2. CASE AtTerm(mir, p)
    <3>1. q[2] = 1
      BY <1>4, <2>2 DEF Follow
    <3>2. Untouched(q[1], q[2])
      BY <3>1
    <3> QED  BY <2>1, <3>2
  <2>3. CASE ~AtTerm(mir, p)
    <3>1. q = <<p[1], p[2] + 1>>
      BY <1>4, <2>3 DEF Follow
    <3>2. CASE p[1] = s[1]
      BY <2>1, <3>1, <3>2
    <3>3. CASE Untouched(p[1], p[2])
      <4>1. l \notin InstrDefs(Code(mir, p[1])[p[2]])
        BY <1>4, <2>1, <2>3, ReadsOfPosition DEF AtTerm
      <4>2. Untouched(q[1], q[2])
        <5> SUFFICES ASSUME NEW k \in 1 .. p[2] PROVE l \notin InstrDefs(Code(mir, p[1])[k])
          BY <2>1, <3>1
        <5>1. k = p[2] \/ k \in 1 .. p[2] - 1
          BY <2>1
        <5> QED  BY <3>3, <4>1, <5>1
      <4> QED  BY <2>1, <4>2
    <3> QED  BY <1>4, <3>2, <3>3
  <2> QED  BY <2>2, <2>3
<1>5. pt \in C
  <2>1. Keeping(mir, l, Follow(mir, s)) \subseteq C
    <3>1. C \subseteq Points(mir)
      OBVIOUS
    <3> HIDE DEF C
    <3> QED  BY <1>2, <1>3, <1>4, <3>1, KeepingWithin
  <2> QED  BY <2>1 DEF ReferenceLive
<1>6. /\ pt = <<pt[1], pt[2]>> /\ pt[1] \in Blocks(mir) /\ pt[2] \in 1 .. Len(Code(mir, pt[1])) + 1
      /\ Len(Code(mir, pt[1])) \in Nat
  BY <1>5, FollowStays, BodyFacts
<1>7. LiveAt(mir, l, live_out, pt)
  BY <1>1, <1>5, ReadLaterIsLive DEF ReferenceLive
<1>8. CASE l \in live_out[pt[1]]
  BY <1>5, <1>6, <1>8 DEF Region
<1>9. CASE pt[1] = s[1]
  BY <1>5, <1>9 DEF Region
<1>10. CASE ReadAhead(mir, l, pt[1], pt[2]) /\ Untouched(pt[1], pt[2])
  <2>1. PICK j \in pt[2] .. Len(Code(mir, pt[1])) + 1 :
          /\ l \in AnalysedReads(mir, <<pt[1], j>>)
          /\ \A k \in pt[2] .. j - 1 : l \notin InstrDefs(Code(mir, pt[1])[k])
    BY <1>10 DEF ReadAhead
  <2>2. \A k \in 1 .. j - 1 : l \notin InstrDefs(Code(mir, pt[1])[k])
    <3> TAKE k \in 1 .. j - 1
    <3>1. k \in 1 .. pt[2] - 1 \/ k \in pt[2] .. j - 1
      BY <1>6
    <3> QED  BY <1>10, <2>1, <3>1
  <2>3. LiveAt(mir, l, live_out, <<pt[1], 1>>)
    BY <1>6, <2>1, <2>2 DEF LiveAt, ReadAhead
  <2>4. l \in live_in[pt[1]]
    BY <1>1, <1>6, <2>3, LiveAtStart
  <2> QED  BY <1>5, <1>6, <2>4 DEF Region
<1> QED  BY <1>5, <1>7, <1>8, <1>9, <1>10 DEF LiveAt

-----------------------------------------------------------------------------
(* The inductive invariant *)

\* The forge under check is one of the program's.
ForgeOK ==
  /\ program \in Programs
  /\ forge \in 1 .. Len(program)
  /\ mir = program[forge]
  /\ pc \in {"compute", "infer", "walk", "returned"}

\* The analysis made for it is one of LivenessAnalysis, and it has ended before the walk.
AnalysisOK == Live!IInv /\ (pc # "compute" => phase = "done")

\* What infer_borrow_regions makes of the body.
Inferred == {[site |-> s, local |-> At(mir, s).of, is_mut |-> At(mir, s).mut,
              region |-> Region(s)] : s \in RefSites(mir)}

\* The errors about moves that check_operand owes to a point.
MoveErrors(pt) ==
  {Error("move_borrowed", l) : l \in {k \in MovedAt(mir, pt) \cap AnalysedReads(mir, pt) :
                                        \E w \in InBlock(pt[1]) : w.local = k}}

\* The walk has entered every block up to here and passed every point before this one, and
\* what their checks owe has been pushed.
WalkOK ==
  pc \in {"walk", "returned"} =>
    /\ borrows = Inferred
    /\ at = <<at[1], at[2]>> /\ at[1] \in 0 .. mir.size /\ at[2] \in Nat
    /\ at[1] \in Blocks(mir) => at[2] <= Len(Code(mir, at[1])) + 1
    /\ \A n \in Blocks(mir) :
         n < at[1] \/ (n = at[1] /\ at[2] # 0) => ClashErrors(n) \subseteq errors
    /\ \A pt \in Points(mir) :
         pt[1] < at[1] \/ (pt[1] = at[1] /\ pt[2] < at[2]) => MoveErrors(pt) \subseteq errors
    /\ pc = "returned" => at[1] = mir.size

IInv == ForgeOK /\ AnalysisOK /\ WalkOK

LEMMA ForgeIsBody == ForgeOK => mir \in Bodies
  BY ProgramsAssumption DEF ForgeOK

LEMMA ForgeInit == Init => ForgeOK
<1> SUFFICES ASSUME Init PROVE 1 \in 1 .. Len(program)
  BY DEF Init, ForgeOK
<1>1. program \in Seq(Bodies) /\ program # <<>>
  BY ProgramsAssumption DEF Init
<1> QED  BY <1>1

LEMMA ForgeNext == ForgeOK /\ [Next]_vars => ForgeOK'
<1> SUFFICES ASSUME ForgeOK, [Next]_vars PROVE ForgeOK'
  OBVIOUS
<1> USE DEF ForgeOK
<1>1. CASE ComputeLiveness
  <2>1. mir' = mir
    BY <1>1 DEF ComputeLiveness, Liveness!Next, Liveness!StartRound, Liveness!VisitBlock,
                Liveness!EndRound, Liveness!Finish
  <2> QED  BY <1>1, <2>1 DEF ComputeLiveness, forgeVars
<1>2. CASE InferBorrowRegions
  BY <1>2 DEF InferBorrowRegions, liveVars, forgeVars
<1>3. CASE Walk
  BY <1>3 DEF Walk, EnterBlock, CheckAssignOrCall, CheckRef, EnterZone, ExitZone, SkipInstruction,
              CheckTerminator, ReturnResult, Passing, liveVars, forgeVars
<1>4. CASE CheckNextForge
  <2>1. program \in Seq(Bodies)
    BY ProgramsAssumption
  <2>2. forge + 1 \in 1 .. Len(program)
    BY <1>4, <2>1 DEF CheckNextForge
  <2> QED  BY <1>4, <2>2 DEF CheckNextForge
<1>5. CASE UNCHANGED vars
  BY <1>5 DEF vars, liveVars, forgeVars
<1> QED  BY <1>1, <1>2, <1>3, <1>4, <1>5 DEF Next

-----------------------------------------------------------------------------
(* The analysis *)

LEMMA FreshAnalysis ==
  ASSUME mir \in Bodies, live_in = NoLocals(mir), live_out = NoLocals(mir),
         entries = {}, node = 0, changed = TRUE, phase = "while"
  PROVE  Live!Init
  BY SameEquations DEF Live!Init

LEMMA AnalysisInit == Init => AnalysisOK
<1> SUFFICES ASSUME Init PROVE AnalysisOK
  OBVIOUS
<1>1. Live!Init
  BY ForgeInit, ForgeIsBody, FreshAnalysis DEF Init
<1>2. Live!IInv
  BY <1>1, SameBodies, Live!InitIInv
<1> QED  BY <1>2 DEF AnalysisOK, Init

LEMMA FreshAnalysisNext == Live!Init' => Live!IInv'
<1>1. Live!Init => Live!IInv
  BY SameBodies, Live!InitIInv
<1> QED  BY <1>1, PTL

\* The next forge is analysed afresh.
LEMMA FreshNextForge == ForgeOK /\ CheckNextForge => Live!Init'
<1> SUFFICES ASSUME ForgeOK, CheckNextForge PROVE Live!Init'
  OBVIOUS
<1>1. mir' \in Bodies
  <2>1. ForgeOK'
    BY ForgeNext DEF Next
  <2> QED  BY <2>1, ProgramsAssumption DEF ForgeOK
<1>2. /\ live_in' = Live!NoLocals(mir') /\ live_out' = Live!NoLocals(mir')
      /\ entries' = {} /\ node' = 0 /\ changed' = TRUE /\ phase' = "while"
  BY SameEquations DEF CheckNextForge
<1> QED  BY <1>1, <1>2 DEF Live!Init, Live!NoLocals, Live!Blocks

LEMMA AnalysisNext == ForgeOK /\ AnalysisOK /\ [Next]_vars => AnalysisOK'
<1> SUFFICES ASSUME ForgeOK, AnalysisOK, [Next]_vars PROVE AnalysisOK'
  OBVIOUS
<1>1. CASE ComputeLiveness
  <2>1. Live!Next
    BY <1>1, SameNext DEF ComputeLiveness
  <2>2. Live!IInv'
    BY <2>1, SameBodies, Live!NextIInv DEF AnalysisOK
  <2>3. pc' # "compute" => phase' = "done"
    BY <1>1 DEF ComputeLiveness
  <2> QED  BY <2>2, <2>3 DEF AnalysisOK
<1>2. CASE CheckNextForge
  <2>1. Live!Init'
    BY <1>2, FreshNextForge
  <2> QED  BY <1>2, <2>1, FreshAnalysisNext DEF AnalysisOK, CheckNextForge
<1>3. CASE UNCHANGED liveVars /\ (pc # "compute" \/ pc' = pc)
  <2>1. [Live!Next]_(Live!vars)
    BY <1>3 DEF liveVars, Live!vars
  <2>2. Live!IInv'
    BY <2>1, SameBodies, Live!NextIInv DEF AnalysisOK
  <2>3. CASE pc # "compute"
    BY <1>3, <2>2, <2>3 DEF AnalysisOK, liveVars
  <2>4. CASE pc' = pc
    BY <1>3, <2>2, <2>4 DEF AnalysisOK, liveVars
  <2> QED  BY <1>3, <2>3, <2>4
<1>4. CASE InferBorrowRegions
  BY <1>3, <1>4 DEF InferBorrowRegions
<1>5. CASE Walk
  BY <1>3, <1>5 DEF Walk, EnterBlock, CheckAssignOrCall, CheckRef, EnterZone, ExitZone, SkipInstruction,
                    CheckTerminator, ReturnResult, Passing, Walking
<1>6. CASE UNCHANGED vars
  BY <1>3, <1>6 DEF vars
<1> QED  BY <1>1, <1>2, <1>4, <1>5, <1>6 DEF Next

\* When the walk begins, the block sets solve the data-flow equations.
LEMMA AnalysisSolves ==
  ASSUME ForgeOK, AnalysisOK, pc # "compute"
  PROVE  mir \in Bodies /\ Solves(mir, live_in, live_out)
<1>1. Live!Solves(mir, live_in, live_out)
  BY SameBodies, Live!QuietRoundSolves DEF AnalysisOK, Live!IInv
<1> QED  BY <1>1, SameEquations, ForgeIsBody

-----------------------------------------------------------------------------
(* The walk *)

\* One step of the walk over an instruction or a terminator.
PassPoint == \/ CheckAssignOrCall \/ CheckRef \/ EnterZone \/ ExitZone \/ SkipInstruction
             \/ CheckTerminator

\* No step of the walk takes an error back or touches what was inferred.
LEMMA WalkFrame ==
  ASSUME EnterBlock \/ PassPoint
  PROVE  /\ pc = "walk" /\ pc' = "walk" /\ at[1] \in Blocks(mir)
         /\ mir' = mir /\ live_in' = live_in /\ live_out' = live_out
         /\ borrows' = borrows /\ forge' = forge
         /\ errors \subseteq errors'
<1> USE DEF Walking, Passing, liveVars, forgeVars
<1>1. CASE EnterBlock
  BY <1>1 DEF EnterBlock
<1>2. CASE CheckAssignOrCall
  BY <1>2 DEF CheckAssignOrCall
<1>3. CASE CheckRef
  BY <1>3 DEF CheckRef
<1>4. CASE EnterZone
  BY <1>4 DEF EnterZone
<1>5. CASE ExitZone
  BY <1>5 DEF ExitZone
<1>6. CASE SkipInstruction
  BY <1>6 DEF SkipInstruction
<1>7. CASE CheckTerminator
  BY <1>7 DEF CheckTerminator
<1> QED  BY <1>1, <1>2, <1>3, <1>4, <1>5, <1>6, <1>7 DEF PassPoint

\* The errors owed to a point or a block depend on nothing a step of the walk changes.
LEMMA OwedErrorsStay ==
  ASSUME mir' = mir, borrows' = borrows, forge' = forge
  PROVE  /\ \A n : ClashErrors(n)' = ClashErrors(n)
         /\ \A pt : MoveErrors(pt)' = MoveErrors(pt)
  BY DEF ClashErrors, MoveErrors, InBlock, Error

\* The operands of a point at which a step looks, and what check_operand pushes of them.
LEMMA OperandErrorsHoldMoves ==
  ASSUME NEW args, \A l \in MovedAt(mir, at) \cap AnalysedReads(mir, at) :
                     Move(l) \in {args[i] : i \in DOMAIN args}
  PROVE  MoveErrors(at) \subseteq OperandErrors(args, at[1])
<1> SUFFICES ASSUME NEW l \in MovedAt(mir, at) \cap AnalysedReads(mir, at),
                    \E w \in InBlock(at[1]) : w.local = l
             PROVE  Error("move_borrowed", l) \in OperandErrors(args, at[1])
  BY DEF MoveErrors
<1>1. PICK i \in DOMAIN args : args[i] = Move(l)
  OBVIOUS
<1>2. args[i].kind = "move" /\ args[i].local = l
  BY <1>1 DEF Move
<1> QED  BY <1>2 DEF OperandErrors

\* Passing a point pushes the errors about moves that are owed to it.
LEMMA MovesReported ==
  ASSUME mir \in Bodies, at \in Points(mir), PassPoint
  PROVE  MoveErrors(at) \subseteq errors'
<1>1. CASE CheckAssignOrCall
  <2>1. At(mir, at).op \in {"assign", "call"}
    BY <1>1 DEF CheckAssignOrCall, Passing
  <2>2. Operands(At(mir, at)) = At(mir, at).args
    BY <2>1 DEF Operands
  <2>3. \A l \in MovedAt(mir, at) : Move(l) \in {At(mir, at).args[i] : i \in DOMAIN At(mir, at).args}
    BY <2>2 DEF MovedAt
  <2>4. MoveErrors(at) \subseteq OperandErrors(At(mir, at).args, at[1])
    BY <2>3, OperandErrorsHoldMoves
  <2> QED  BY <1>1, <2>4 DEF CheckAssignOrCall
<1>2. CASE CheckRef \/ EnterZone \/ ExitZone \/ SkipInstruction
  <2>1. At(mir, at).op \in {"ref", "zone_enter", "zone_exit", "assert"}
    BY <1>2 DEF CheckRef, EnterZone, ExitZone, SkipInstruction, Passing
  <2>2. CASE At(mir, at).op = "assert"
    <3>1. AnalysedReads(mir, at) = {}
      BY <2>2 DEF AnalysedReads, InstrUses, TermUses
    <3> QED  BY <3>1 DEF MoveErrors
  <2>3. CASE At(mir, at).op # "assert"
    <3>1. MovedAt(mir, at) = {}
      BY <2>1, <2>3 DEF MovedAt, Operands
    <3> QED  BY <3>1 DEF MoveErrors
  <2> QED  BY <2>2, <2>3
<1>3. CASE CheckTerminator
  <2> DEFINE args == IF At(mir, at).op = "switch" THEN At(mir, at).args ELSE <<>>
  <2>1. OperandErrors(args, at[1]) \subseteq errors'
    BY <1>3 DEF CheckTerminator
  <2>2. CASE At(mir, at).op = "switch"
    <3>1. Operands(At(mir, at)) = args
      BY <2>2 DEF Operands
    <3>2. \A l \in MovedAt(mir, at) : Move(l) \in {args[i] : i \in DOMAIN args}
      BY <3>1 DEF MovedAt
    <3> HIDE DEF args
    <3> QED  BY <2>1, <3>2, OperandErrorsHoldMoves
  <2>3. CASE At(mir, at).op # "switch"
    <3>1. At(mir, at).op \in TerminatorOps
      BY <1>3, FollowStays, BodyFacts DEF CheckTerminator, At
    <3>2. AnalysedReads(mir, at) = {}
      BY <2>3, <3>1 DEF AnalysedReads, InstrUses, TermUses, TerminatorOps
    <3> QED  BY <3>2 DEF MoveErrors
  <2> QED  BY <2>2, <2>3
<1> QED  BY <1>1, <1>2, <1>3 DEF PassPoint

\* How the cursor moves.
LEMMA CursorMoves ==
  ASSUME PassPoint, mir \in Bodies, at = <<at[1], at[2]>>, at[2] \in Nat,
         at[2] <= Len(Code(mir, at[1])) + 1
  PROVE  /\ at \in Points(mir) /\ at[2] # 0
         /\ \/ ~AtTerm(mir, at) /\ at' = <<at[1], at[2] + 1>>
            \/ AtTerm(mir, at) /\ at' = <<at[1] + 1, 0>>
<1>1. at[1] \in Blocks(mir) /\ at[2] # 0
  BY DEF PassPoint, CheckAssignOrCall, CheckRef, EnterZone, ExitZone, SkipInstruction,
         CheckTerminator, Passing, Walking
<1>2. at \in Points(mir)
  BY <1>1, BodyFacts, PointsAre
<1>3. CASE CheckTerminator
  BY <1>1, <1>2, <1>3 DEF CheckTerminator
<1>4. CASE ~CheckTerminator
  BY <1>1, <1>2, <1>4 DEF PassPoint, CheckAssignOrCall, CheckRef, EnterZone, ExitZone,
                          SkipInstruction, Passing
<1> QED  BY <1>3, <1>4

LEMMA PassPointKeepsWalk ==
  ASSUME mir \in Bodies, WalkOK, PassPoint
  PROVE  WalkOK'
<1>1. /\ pc = "walk" /\ pc' = "walk" /\ at[1] \in Blocks(mir)
      /\ mir' = mir /\ live_in' = live_in /\ live_out' = live_out
      /\ borrows' = borrows /\ forge' = forge
      /\ errors \subseteq errors'
  BY WalkFrame
<1>2. /\ borrows = Inferred
      /\ at = <<at[1], at[2]>> /\ at[1] \in 0 .. mir.size /\ at[2] \in Nat
      /\ at[2] <= Len(Code(mir, at[1])) + 1
  BY <1>1 DEF WalkOK
<1>3. /\ at \in Points(mir) /\ at[2] # 0
      /\ \/ ~AtTerm(mir, at) /\ at' = <<at[1], at[2] + 1>>
         \/ AtTerm(mir, at) /\ at' = <<at[1] + 1, 0>>
  BY <1>1, <1>2, CursorMoves
<1>4. Inferred' = Inferred
  BY <1>1 DEF Inferred, Region
<1>5. /\ \A n : ClashErrors(n)' = ClashErrors(n)
      /\ \A pt : MoveErrors(pt)' = MoveErrors(pt)
  BY <1>1, OwedErrorsStay
<1>6. mir.size \in Nat /\ Len(Code(mir, at[1])) \in Nat
  BY <1>1, BodyFacts
<1>7. /\ at' = <<at'[1], at'[2]>> /\ at'[1] \in 0 .. mir.size /\ at'[2] \in Nat
      /\ at'[1] \in Blocks(mir) => at'[2] <= Len(Code(mir, at'[1])) + 1
  <2>1. CASE ~AtTerm(mir, at) /\ at' = <<at[1], at[2] + 1>>
    BY <1>1, <1>2, <1>6, <2>1 DEF AtTerm
  <2>2. CASE AtTerm(mir, at) /\ at' = <<at[1] + 1, 0>>
    <3>1. at[1] + 1 \in 0 .. mir.size
      BY <1>1, <1>6 DEF Blocks
    <3>2. at'[1] \in Blocks(mir) => Len(Code(mir, at'[1])) \in Nat
      BY BodyFacts
    <3> QED  BY <2>2, <3>1, <3>2
  <2> QED  BY <1>3, <2>1, <2>2
<1>8. ASSUME NEW n \in Blocks(mir), n < at'[1] \/ (n = at'[1] /\ at'[2] # 0)
      PROVE  ClashErrors(n) \subseteq errors'
  <2>1. n < at[1] \/ n = at[1]
    BY <1>2, <1>3, <1>6, <1>8 DEF Blocks
  <2>2. ClashErrors(n) \subseteq errors
    BY <1>1, <1>3, <2>1 DEF WalkOK
  <2> QED  BY <1>1, <2>2
<1>9. ASSUME NEW pt \in Points(mir), pt[1] < at'[1] \/ (pt[1] = at'[1] /\ pt[2] < at'[2])
      PROVE  MoveErrors(pt) \subseteq errors'
  <2>1. /\ pt = <<pt[1], pt[2]>> /\ pt[1] \in Nat /\ pt[2] \in Nat
        /\ pt[1] = at[1] => pt[2] <= Len(Code(mir, at[1])) + 1
    BY <1>6, FollowStays DEF Blocks
  <2>2. pt[1] < at[1] \/ (pt[1] = at[1] /\ pt[2] < at[2]) \/ (pt[1] = at[1] /\ pt[2] = at[2])
    BY <1>2, <1>3, <1>6, <1>9, <2>1 DEF AtTerm
  <2>3. CASE pt[1] = at[1] /\ pt[2] = at[2]
    <3>1. pt = at
      BY <1>2, <2>1, <2>3
    <3> QED  BY <1>3, <3>1, MovesReported
  <2>4. CASE pt[1] < at[1] \/ (pt[1] = at[1] /\ pt[2] < at[2])
    <3>1. MoveErrors(pt) \subseteq errors
      BY <1>1, <2>4 DEF WalkOK
    <3> QED  BY <1>1, <3>1
  <2> QED  BY <2>2, <2>3, <2>4
<1> QED  BY <1>1, <1>2, <1>4, <1>5, <1>7, <1>8, <1>9 DEF WalkOK

LEMMA EnterBlockKeepsWalk ==
  ASSUME mir \in Bodies, WalkOK, EnterBlock
  PROVE  WalkOK'
<1>1. /\ pc = "walk" /\ pc' = "walk" /\ at[1] \in Blocks(mir)
      /\ mir' = mir /\ live_in' = live_in /\ live_out' = live_out
      /\ borrows' = borrows /\ forge' = forge
      /\ errors \subseteq errors'
  BY WalkFrame
<1>2. at[2] = 0 /\ at' = <<at[1], 1>> /\ ClashErrors(at[1]) \subseteq errors'
  BY DEF EnterBlock
<1>3. borrows = Inferred /\ at[1] \in 0 .. mir.size
  BY <1>1 DEF WalkOK
<1>4. Inferred' = Inferred
  BY <1>1 DEF Inferred, Region
<1>5. /\ \A n : ClashErrors(n)' = ClashErrors(n)
      /\ \A pt : MoveErrors(pt)' = MoveErrors(pt)
  BY <1>1, OwedErrorsStay
<1>6. mir.size \in Nat /\ Len(Code(mir, at[1])) \in Nat
  BY <1>1, BodyFacts
<1>7. ASSUME NEW n \in Blocks(mir), n < at'[1] \/ (n = at'[1] /\ at'[2] # 0)
      PROVE  ClashErrors(n) \subseteq errors'
  <2>1. CASE n = at[1]
    BY <1>2, <2>1
  <2>2. CASE n # at[1]
    <3>1. ClashErrors(n) \subseteq errors
      BY <1>1, <1>2, <1>7, <2>2 DEF WalkOK
    <3> QED  BY <1>1, <3>1
  <2> QED  BY <2>1, <2>2
<1>8. ASSUME NEW pt \in Points(mir), pt[1] < at'[1] \/ (pt[1] = at'[1] /\ pt[2] < at'[2])
      PROVE  MoveErrors(pt) \subseteq errors'
  <2>1. pt[2] \in 1 .. Len(Code(mir, pt[1])) + 1 /\ Len(Code(mir, pt[1])) \in Nat
    BY FollowStays, BodyFacts
  <2>2. pt[1] < at[1]
    BY <1>2, <1>8, <2>1
  <2>3. MoveErrors(pt) \subseteq errors
    BY <1>1, <2>2 DEF WalkOK
  <2> QED  BY <1>1, <2>3
<1> QED  BY <1>1, <1>2, <1>3, <1>4, <1>5, <1>6, <1>7, <1>8 DEF WalkOK

LEMMA WalkNext == ForgeOK /\ AnalysisOK /\ WalkOK /\ [Next]_vars => WalkOK'
<1> SUFFICES ASSUME ForgeOK, AnalysisOK, WalkOK, [Next]_vars PROVE WalkOK'
  OBVIOUS
<1>1. mir \in Bodies
  BY ForgeIsBody
<1>2. CASE ComputeLiveness
  BY <1>2 DEF ComputeLiveness, WalkOK
<1>3. CASE InferBorrowRegions
  <2>1. mir' = mir /\ live_in' = live_in /\ live_out' = live_out
    BY <1>3 DEF InferBorrowRegions, liveVars
  <2>2. borrows' = Inferred' /\ at' = <<0, 0>> /\ pc' = "walk"
    <3>1. borrows' = Inferred
      BY <1>3 DEF InferBorrowRegions, Inferred
    <3>2. Inferred' = Inferred
      BY <2>1 DEF Inferred, Region
    <3> QED  BY <1>3, <3>1, <3>2 DEF InferBorrowRegions
  <2>3. mir.size \in Nat \ {0} /\ \A n \in Blocks(mir) : n \in Nat /\ Len(Code(mir, n)) \in Nat
    BY <1>1, BodyFacts DEF Blocks
  <2>4. \A pt \in Points(mir) : pt[1] \in Nat /\ pt[2] \in Nat
    BY <1>1, <2>3, FollowStays
  <2> QED  BY <2>1, <2>2, <2>3, <2>4 DEF WalkOK
<1>4. CASE EnterBlock
  BY <1>1, <1>4, EnterBlockKeepsWalk
<1>5. CASE PassPoint
  BY <1>1, <1>5, PassPointKeepsWalk
<1>6. CASE ReturnResult
  <2>1. /\ pc = "walk" /\ at[1] \notin Blocks(mir) /\ pc' = "returned"
        /\ mir' = mir /\ live_in' = live_in /\ live_out' = live_out /\ borrows' = borrows
        /\ at' = at /\ errors' = errors /\ forge' = forge
    BY <1>6 DEF ReturnResult, liveVars, walkVars
  <2>2. Inferred' = Inferred
    BY <2>1 DEF Inferred, Region
  <2>3. at[1] = mir.size
    BY <1>1, <2>1, BodyFacts DEF WalkOK, Blocks
  <2>4. /\ \A n : ClashErrors(n)' = ClashErrors(n)
        /\ \A pt : MoveErrors(pt)' = MoveErrors(pt)
    BY <2>1, OwedErrorsStay
  <2> QED  BY <2>1, <2>2, <2>3, <2>4 DEF WalkOK
<1>7. CASE CheckNextForge
  BY <1>7 DEF CheckNextForge, WalkOK
<1>8. CASE UNCHANGED vars
  <2>1. /\ pc' = pc /\ mir' = mir /\ live_in' = live_in /\ live_out' = live_out
        /\ borrows' = borrows /\ at' = at /\ errors' = errors /\ forge' = forge
    BY <1>8 DEF vars, liveVars, walkVars, forgeVars
  <2>2. Inferred' = Inferred
    BY <2>1 DEF Inferred, Region
  <2>3. /\ \A n : ClashErrors(n)' = ClashErrors(n)
        /\ \A pt : MoveErrors(pt)' = MoveErrors(pt)
    BY <2>1, OwedErrorsStay
  <2> QED  BY <2>1, <2>2, <2>3 DEF WalkOK
<1> QED  BY <1>2, <1>3, <1>4, <1>5, <1>6, <1>7, <1>8 DEF Next, Walk, PassPoint

LEMMA InitIInv == Init => IInv
  BY ForgeInit, AnalysisInit DEF IInv, Init, WalkOK

LEMMA NextIInv == IInv /\ [Next]_vars => IInv'
  BY ForgeNext, AnalysisNext, WalkNext DEF IInv

-----------------------------------------------------------------------------
(* What an accepted forge promises *)

\* In an accepted forge no error was owed.
LEMMA AcceptedOwesNothing ==
  ASSUME IInv, Accepted
  PROVE  /\ \A n \in Blocks(mir) : ClashErrors(n) = {}
         /\ \A pt \in Points(mir) : MoveErrors(pt) = {}
<1>1. pc = "returned" /\ OwnErrors = {}
  BY DEF Accepted
<1>2. ASSUME NEW kind, NEW about PROVE Error(kind, about) \notin errors
  <2>1. Error(kind, about).forge = forge
    BY DEF Error
  <2>2. OwnErrors = {[kind |-> e.kind, about |-> e.about] : e \in {f \in errors : f.forge = forge}}
    BY DEF OwnErrors
  <2> QED  BY <1>1, <2>1, <2>2
<1>3. at[1] = mir.size /\ mir.size \in Nat
  BY <1>1, ForgeIsBody, BodyFacts DEF IInv, WalkOK
<1>4. ASSUME NEW n \in Blocks(mir) PROVE ClashErrors(n) = {}
  <2>1. n < at[1]
    BY <1>3 DEF Blocks
  <2>2. ClashErrors(n) \subseteq errors
    BY <1>1, <2>1 DEF IInv, WalkOK
  <2> QED  BY <1>2, <2>2 DEF ClashErrors
<1>5. ASSUME NEW pt \in Points(mir) PROVE MoveErrors(pt) = {}
  <2>1. pt[1] < at[1]
    BY <1>3, ForgeIsBody, FollowStays DEF Blocks, IInv
  <2>2. MoveErrors(pt) \subseteq errors
    BY <1>1, <2>1 DEF IInv, WalkOK
  <2> QED  BY <1>2, <2>2 DEF MoveErrors
<1> QED  BY <1>4, <1>5

LEMMA PairHasTwo ==
  ASSUME NEW x, NEW y, x # y
  PROVE  Cardinality({x, y}) = 2
<1>1. IsFiniteSet({x}) /\ Cardinality({x}) = 1
  BY FS_Singleton
<1>2. Cardinality({x} \cup {y}) = IF y \in {x} THEN Cardinality({x}) ELSE Cardinality({x}) + 1
  BY <1>1, FS_AddElement
<1>3. {x} \cup {y} = {x, y}
  OBVIOUS
<1> QED  BY <1>1, <1>2, <1>3

\* The record of the reference taken at a site, and where it counts.
LEMMA BorrowOf ==
  ASSUME IInv, pc = "returned", NEW s \in RefSites(mir),
         NEW pt \in ReferenceLive(mir, s, AnalysedReads)
  PROVE  /\ pt[1] \in Blocks(mir)
         /\ \E w \in InBlock(pt[1]) : w.site = s /\ w.local = At(mir, s).of /\ w.is_mut = At(mir, s).mut
<1>1. mir \in Bodies /\ Solves(mir, live_in, live_out)
  BY AnalysisSolves DEF IInv
<1>2. pt \in Points(mir) /\ pt[1] \in Region(s)
  BY <1>1, RegionCovers
<1>3. pt[1] \in Blocks(mir)
  BY <1>1, <1>2, FollowStays
<1> DEFINE w == [site |-> s, local |-> At(mir, s).of, is_mut |-> At(mir, s).mut, region |-> Region(s)]
<1>4. w \in borrows
  BY DEF IInv, WalkOK, Inferred
<1>5. w \in InBlock(pt[1]) /\ w.site = s /\ w.local = At(mir, s).of /\ w.is_mut = At(mir, s).mut
  BY <1>2, <1>4 DEF InBlock
<1> HIDE DEF w
<1> QED  BY <1>3, <1>5

\* Of the references to one local that are live at a point of an accepted forge, a mutable
\* one is the only one, whatever the forges, their loops and branches, and those the same
\* checker saw before.
THEOREM ReferencesExclusive == Spec => []AcceptedReferencesAreExclusive
<1>1. IInv => AcceptedReferencesAreExclusive
  <2> SUFFICES ASSUME IInv, Accepted, NEW s \in RefSites(mir), NEW t \in RefSites(mir),
                      s # t, At(mir, s).of = At(mir, t).of, At(mir, s).mut,
                      NEW pt \in ReferenceLive(mir, s, AnalysedReads),
                      pt \in ReferenceLive(mir, t, AnalysedReads)
               PROVE  FALSE
    BY DEF AcceptedReferencesAreExclusive
  <2>1. pc = "returned"
    BY DEF Accepted
  <2> DEFINE n == pt[1]
             l == At(mir, s).of
             Mut == {w \in InBlock(n) : w.local = l /\ w.is_mut}
             Shared == {w \in InBlock(n) : w.local = l /\ ~w.is_mut}
  <2>2. n \in Blocks(mir) /\ ClashErrors(n) = {}
    BY <2>1, BorrowOf, AcceptedOwesNothing
  <2>3. PICK ws \in InBlock(n) : ws.site = s /\ ws.local = l /\ ws.is_mut = At(mir, s).mut
    BY <2>1, BorrowOf
  <2>4. PICK wt \in InBlock(n) : wt.site = t /\ wt.local = l /\ wt.is_mut = At(mir, t).mut
    BY <2>1, BorrowOf
  <2>5. ws \in Mut /\ l \in {w.local : w \in borrows}
    BY <2>3 DEF InBlock
  <2>6. CASE ~wt.is_mut
    <3>1. wt \in Shared
      BY <2>4, <2>6
    <3>2. Error("mut_and_shared", l) \in ClashErrors(n)
      BY <2>5, <3>1 DEF ClashErrors
    <3> QED  BY <2>2, <3>2
  <2>7. CASE wt.is_mut
    <3>1. wt \in Mut /\ wt # ws
      BY <2>3, <2>4, <2>7
    <3>2. IsFiniteSet(Mut)
      <4>1. IsFiniteSet(borrows)
        <5>1. IsFiniteSet(RefSites(mir))
          BY ForgeIsBody, PointsFinite, FS_Subset DEF IInv, RefSites
        <5> DEFINE f == [r \in RefSites(mir) |->
                           [site |-> r, local |-> At(mir, r).of, is_mut |-> At(mir, r).mut,
                            region |-> Region(r)]]
        <5>2. borrows = {f[r] : r \in RefSites(mir)}
          BY <2>1 DEF IInv, WalkOK, Inferred
        <5>3. f \in Surjection(RefSites(mir), {f[r] : r \in RefSites(mir)})
          <6>1. \A r \in RefSites(mir) : f[r] \in {f[q] : q \in RefSites(mir)}
            OBVIOUS
          <6> QED  BY <6>1 DEF Surjection
        <5> HIDE DEF f
        <5> QED  BY <5>1, <5>2, <5>3, FS_Surjection
      <4>2. Mut \in SUBSET borrows
        BY DEF InBlock
      <4> HIDE DEF Mut
      <4> QED  BY <4>1, <4>2, FS_Subset
    <3>3. Cardinality(Mut) > 1
      <4>1. {ws, wt} \in SUBSET Mut
        BY <2>5, <3>1
      <4>2. Cardinality({ws, wt}) = 2
        BY <3>1, PairHasTwo
      <4>3. Cardinality(Mut) \in Nat /\ 2 <= Cardinality(Mut)
        <5> HIDE DEF Mut
        <5> QED  BY <3>2, <4>1, <4>2, FS_Subset, FS_CardinalityType
      <4> QED  BY <4>3
    <3>4. Error("mut_twice", l) \in ClashErrors(n)
      BY <2>5, <3>3 DEF ClashErrors
    <3> QED  BY <2>2, <3>4
  <2> QED  BY <2>6, <2>7
<1> QED  BY <1>1, InitIInv, NextIInv, PTL DEF Spec

\* No analysed read of an accepted forge moves a local out while a reference to it is live.
THEOREM MovesUnborrowed == Spec => []AcceptedMovesAreUnborrowed
<1>1. IInv => AcceptedMovesAreUnborrowed
  <2> SUFFICES ASSUME IInv, Accepted, NEW pt \in Points(mir), NEW s \in RefSites(mir),
                      At(mir, s).of \in MovedAt(mir, pt) \cap AnalysedReads(mir, pt),
                      pt \in ReferenceLive(mir, s, AnalysedReads)
               PROVE  FALSE
    BY DEF AcceptedMovesAreUnborrowed
  <2>1. PICK w \in InBlock(pt[1]) : w.local = At(mir, s).of
    BY BorrowOf DEF Accepted
  <2>2. Error("move_borrowed", At(mir, s).of) \in MoveErrors(pt)
    BY <2>1 DEF MoveErrors
  <2> QED  BY <2>2, AcceptedOwesNothing
<1> QED  BY <1>1, InitIInv, NextIInv, PTL DEF Spec

-----------------------------------------------------------------------------
(* A check is a function of the body *)

(* The walk again, without the checker: c is where it stands (the point, what is           *)
(* initialized, the zones entered, what is tagged) and what it has noted so far.           *)

Note(kind, about) == [kind |-> kind, about |-> about]

RegionOf(b, site) ==
  {site[1]} \cup {n \in Blocks(b) : At(b, site).dst \in Live!PathIn(b)[n] \cup Live!PathOut(b)[n]}

BorrowsOf(b) ==
  {[site |-> s, local |-> At(b, s).of, is_mut |-> At(b, s).mut, region |-> RegionOf(b, s)] :
     s \in RefSites(b)}

Around(b, n) == {w \in BorrowsOf(b) : n \in w.region}

ClashNotes(b, n) ==
  LET Borrowed  == {w.local : w \in BorrowsOf(b)}
      Mut(l)    == {w \in Around(b, n) : w.local = l /\ w.is_mut}
      Shared(l) == {w \in Around(b, n) : w.local = l /\ ~w.is_mut}
  IN  {Note("mut_and_shared", l) : l \in {k \in Borrowed : Mut(k) # {} /\ Shared(k) # {}}}
      \cup {Note("mut_twice", l) : l \in {k \in Borrowed : Cardinality(Mut(k)) > 1}}

Consumes(b, arg) == arg.kind = "move" /\ ~Copyable(b, arg.local)

OperandNotes(b, init, args, n) ==
  LET Gone(i) == \/ args[i].local \notin init
                 \/ \E j \in 1 .. i - 1 : Consumes(b, args[j]) /\ args[j].local = args[i].local
      Borrowed(l) == \E w \in Around(b, n) : w.local = l
      Notes(kind, I) == {Note(kind, args[i].local) : i \in I}
  IN  Notes("uninit", {i \in DOMAIN args : args[i].kind # "const" /\ Gone(i)})
      \cup Notes("move_borrowed",
                 {i \in DOMAIN args : args[i].kind = "move" /\ Borrowed(args[i].local)})
      \cup Notes("copy", {i \in DOMAIN args :
                            args[i].kind = "copy" /\ ~Copyable(b, args[i].local)})

Left(b, init, args) == init \ {args[i].local : i \in {j \in DOMAIN args : Consumes(b, args[j])}}

TaggedIn(b, zones, tags, l) ==
  IF zones # <<>> /\ Allocatable(b, l)
  THEN [tags EXCEPT ![zones[Len(zones)]] = @ \cup {l}]
  ELSE tags

Begin(b) == [at |-> <<0, 0>>, init |-> b.args, zones |-> <<>>, tags |-> NoAllocations, notes |-> {}]

Escapes(b, c, name) ==
  \E w \in BorrowsOf(b) : w.local \in c.tags[name] /\ Reaches(w.region, c.at[1])

BlockEntry(b, c) ==
  [at |-> <<c.at[1], 1>>, init |-> c.init, zones |-> c.zones, tags |-> c.tags,
   notes |-> c.notes \cup ClashNotes(b, c.at[1])]

BlockEnd(b, c) ==
  LET args == IF At(b, c.at).op = "switch" THEN At(b, c.at).args ELSE <<>>
  IN  [at |-> <<c.at[1] + 1, 0>>, init |-> Left(b, c.init, args), zones |-> c.zones, tags |-> c.tags,
       notes |-> c.notes \cup OperandNotes(b, c.init, args, c.at[1])]

After(c) == <<c.at[1], c.at[2] + 1>>

Computing(b, c, ins) ==
  [at |-> After(c), init |-> Left(b, c.init, ins.args) \cup InstrDefs(ins), zones |-> c.zones,
   tags |-> IF ins.dst = NoLocal THEN c.tags ELSE TaggedIn(b, c.zones, c.tags, ins.dst),
   notes |-> c.notes \cup OperandNotes(b, c.init, ins.args, c.at[1])]

Borrowing(b, c, ins) ==
  [at |-> After(c), init |-> c.init \cup {ins.dst}, zones |-> c.zones,
   tags |-> TaggedIn(b, c.zones, c.tags, ins.dst),
   notes |-> IF ins.of \in c.init THEN c.notes ELSE c.notes \cup {Note("borrow_uninit", ins.of)}]

Entering(b, c, ins) ==
  [at |-> After(c), init |-> c.init, zones |-> Append(c.zones, ins.zone), tags |-> c.tags,
   notes |-> c.notes]

Skipping(b, c) ==
  [at |-> After(c), init |-> c.init, zones |-> c.zones, tags |-> c.tags, notes |-> c.notes]

Leaving(b, c, ins) ==
  [at |-> After(c), init |-> c.init, zones |-> SubSeq(c.zones, 1, Len(c.zones) - 1), tags |-> c.tags,
   notes |-> IF Escapes(b, c, ins.zone) THEN c.notes \cup {Note("zone_escape", ins.zone)} ELSE c.notes]

Innermost(c, ins) == c.zones # <<>> /\ c.zones[Len(c.zones)] = ins.zone

StepOf(b, c) ==
  LET ins == At(b, c.at)
  IN  IF c.at[2] = 0 THEN BlockEntry(b, c)
      ELSE IF AtTerm(b, c.at) THEN BlockEnd(b, c)
      ELSE CASE ins.op \in {"assign", "call"} -> Computing(b, c, ins)
             [] ins.op = "ref" -> Borrowing(b, c, ins)
             [] ins.op = "zone_enter" -> Entering(b, c, ins)
             [] ins.op = "zone_exit" -> IF Innermost(c, ins) THEN Leaving(b, c, ins) ELSE Skipping(b, c)
             [] ins.op = "assert" -> Skipping(b, c)

\* tr lists the first m steps of the walk over b.
Trace(b, m, tr) ==
  /\ tr[0] = Begin(b)
  /\ \A k \in 0 .. m - 1 : tr[k].at[1] \in Blocks(b) /\ tr[k + 1] = StepOf(b, tr[k])

\* A whole walk over b notes E.
Checked(b, E) ==
  \E m \in Nat : \E tr : Trace(b, m, tr) /\ tr[m].at[1] \notin Blocks(b) /\ tr[m].notes = E

\* There is one walk over a body, and it ends at one point.
LEMMA OneVerdict ==
  ASSUME NEW b, NEW E, NEW F, Checked(b, E), Checked(b, F)
  PROVE  E = F
<1>1a. PICK m \in Nat : \E s : Trace(b, m, s) /\ s[m].at[1] \notin Blocks(b) /\ s[m].notes = E
  BY DEF Checked
<1>1. PICK s : Trace(b, m, s) /\ s[m].at[1] \notin Blocks(b) /\ s[m].notes = E
  BY <1>1a
<1>2a. PICK n \in Nat : \E t : Trace(b, n, t) /\ t[n].at[1] \notin Blocks(b) /\ t[n].notes = F
  BY DEF Checked
<1>2. PICK t : Trace(b, n, t) /\ t[n].at[1] \notin Blocks(b) /\ t[n].notes = F
  BY <1>2a
<1> DEFINE T == {k \in Nat : k <= m /\ k <= n => s[k] = t[k]}
<1>3. 0 \in T
  BY <1>1, <1>2 DEF Trace
<1>4. ASSUME NEW top \in Nat, NEW k \in 1 .. top, k - 1 \in T PROVE k \in T
  <2> SUFFICES ASSUME k <= m, k <= n PROVE s[k] = t[k]
    OBVIOUS
  <2>1. k - 1 \in 0 .. m - 1 /\ k - 1 \in 0 .. n - 1 /\ k - 1 + 1 = k
    OBVIOUS
  <2>2. s[k - 1] = t[k - 1]
    BY <1>4
  <2>3. s[k] = StepOf(b, s[k - 1]) /\ t[k] = StepOf(b, t[k - 1])
    BY <1>1, <1>2, <2>1 DEF Trace
  <2> QED  BY <2>2, <2>3
<1>5. ASSUME NEW k \in Nat, k <= m, k <= n PROVE s[k] = t[k]
  <2>1. 0 .. k \subseteq T
    <3> HIDE DEF T
    <3> QED  BY <1>3, <1>4, BoundedInduction
  <2>2. k \in 0 .. k
    OBVIOUS
  <2>3. k \in T
    BY <2>1, <2>2
  <2> QED  BY <1>5, <2>3
<1>6. m = n
  <2>1. ~(m < n)
    BY <1>1, <1>2, <1>5 DEF Trace
  <2>2. ~(n < m)
    BY <1>1, <1>2, <1>5 DEF Trace
  <2> QED  BY <2>1, <2>2
<1> QED  BY <1>1, <1>2, <1>5, <1>6

-----------------------------------------------------------------------------
(* What a check adds is the body's *)

\* The answer of the analysis is the one the paths of the body give.
AnswerOK == ForgeOK /\ AnalysisOK /\ Live!BelowEverySolution

\* An error is tagged with the forge of a check that has walked.
TagsOK ==
  \A e \in errors : /\ e.forge \in Nat /\ e.forge <= forge
                    /\ pc \in {"compute", "infer"} => e.forge # forge

\* Where the walk is.
Now == [at |-> at, init |-> initialized, zones |-> active_zones, tags |-> zone_allocations,
        notes |-> OwnErrors]

\* The walk so far is one of the body, and every check has added what a whole walk notes.
HistoryOK ==
  pc \in {"walk", "returned"} =>
    /\ borrows = BorrowsOf(mir)
    /\ \E m \in Nat : \E tr : Trace(mir, m, tr) /\ tr[m] = Now

VerdictsOK == \E S : verdicts \in Seq(S) /\ \A v \in S : Checked(v.mir, v.added)

LEMMA FreshBelowNext == Live!Init' => Live!BelowEverySolution'
<1>1. Live!Init => Live!BelowEverySolution
  BY SameBodies, Live!InitBelow
<1> QED  BY <1>1, PTL

LEMMA NextAnswer == AnswerOK /\ [Next]_vars => AnswerOK'
<1> SUFFICES ASSUME AnswerOK, [Next]_vars PROVE Live!BelowEverySolution'
  BY ForgeNext, AnalysisNext DEF AnswerOK
<1>1. Live!TypeOK /\ Live!BelowEverySolution
  BY DEF AnswerOK, AnalysisOK, Live!IInv
<1>2. CASE ComputeLiveness \/ UNCHANGED liveVars
  <2>1. [Live!Next]_(Live!vars)
    BY <1>2, SameNext DEF ComputeLiveness, liveVars, Live!vars
  <2> QED  BY <1>1, <2>1, SameBodies, Live!NextBelow
<1>3. CASE CheckNextForge
  <2>1. Live!Init'
    BY <1>3, FreshNextForge DEF AnswerOK
  <2> QED  BY <2>1, FreshBelowNext
<1>4. CASE InferBorrowRegions \/ Walk
  BY <1>2, <1>4 DEF InferBorrowRegions, Walk, EnterBlock, CheckAssignOrCall, CheckRef, EnterZone,
     ExitZone, SkipInstruction, CheckTerminator, ReturnResult, Passing
<1> QED  BY <1>2, <1>3, <1>4 DEF Next, vars

LEMMA InitAnswer == Init => AnswerOK
<1> SUFFICES ASSUME Init PROVE AnswerOK
  OBVIOUS
<1>1. Live!Init
  BY ForgeInit, ForgeIsBody, FreshAnalysis DEF Init
<1>2. Live!BelowEverySolution
  BY <1>1, SameBodies, Live!InitBelow
<1> QED  BY <1>2, ForgeInit, AnalysisInit DEF AnswerOK

\* What infer_borrow_regions makes of the body is the body's own.
LEMMA InferredIsOwn ==
  ASSUME AnswerOK, pc # "compute"
  PROVE  Inferred = BorrowsOf(mir)
<1>1. live_in = Live!PathIn(mir) /\ live_out = Live!PathOut(mir)
  BY SameBodies, Live!AnswerIsPaths DEF AnswerOK, AnalysisOK
<1> QED  BY <1>1 DEF Inferred, BorrowsOf, Region, RegionOf

\* The errors of E the current check has pushed, without the tag.
Own(E) == {[kind |-> e.kind, about |-> e.about] : e \in {f \in E : f.forge = forge}}

ErrorsAbout(kind, L) == {Error(kind, l) : l \in L}
NotesAbout(kind, L)  == {Note(kind, l) : l \in L}

LEMMA OwnJoins ==
  /\ OwnErrors = Own(errors)
  /\ \A E, F : Own(E \cup F) = Own(E) \cup Own(F)
  /\ \A kind, about : Own({Error(kind, about)}) = {Note(kind, about)}
  /\ \A kind, L : Own(ErrorsAbout(kind, L)) = NotesAbout(kind, L)
<1>1. OwnErrors = Own(errors)
  BY DEF OwnErrors, Own
<1>2. \A E, x : x \in Own(E) <=> \E e \in E : e.forge = forge /\ x = Note(e.kind, e.about)
  BY DEF Own, Note
<1>3. ASSUME NEW E, NEW F PROVE Own(E \cup F) = Own(E) \cup Own(F)
  <2>1. \A x : x \in Own(E \cup F) <=> x \in Own(E) \/ x \in Own(F)
    BY <1>2
  <2> QED  BY <2>1
<1>4. \A kind, about : LET e == Error(kind, about) IN e.forge = forge /\ Note(e.kind, e.about) = Note(kind, about)
  BY DEF Error
<1>5. ASSUME NEW kind, NEW L PROVE Own(ErrorsAbout(kind, L)) = NotesAbout(kind, L)
  <2>1. \A x : x \in Own(ErrorsAbout(kind, L)) <=> \E l \in L : x = Note(kind, l)
    BY <1>2, <1>4 DEF ErrorsAbout
  <2> QED  BY <2>1 DEF NotesAbout
<1>6. ASSUME NEW kind, NEW about PROVE Own({Error(kind, about)}) = {Note(kind, about)}
  <2>1. \A x : x \in Own({Error(kind, about)}) <=> x = Note(kind, about)
    BY <1>2, <1>4
  <2> QED  BY <2>1
<1> QED  BY <1>1, <1>3, <1>6, <1>5

\* The notes of the body's own walk are the checker's errors.
LEMMA NotesAreErrors ==
  ASSUME borrows = BorrowsOf(mir)
  PROVE  /\ \A n : Own(ClashErrors(n)) = ClashNotes(mir, n)
         /\ \A args, n : Own(OperandErrors(args, n)) = OperandNotes(mir, initialized, args, n)
         /\ \A args : AfterOperands(args) = Left(mir, initialized, args)
         /\ \A l : Tagged(l) = TaggedIn(mir, active_zones, zone_allocations, l)
<1>1. \A n : InBlock(n) = Around(mir, n)
  BY DEF InBlock, Around
<1>2. \A arg : Consumed(arg) <=> Consumes(mir, arg)
  BY DEF Consumed, Consumes
<1>3. ASSUME NEW n PROVE Own(ClashErrors(n)) = ClashNotes(mir, n)
  <2> DEFINE Borrowed  == {w.local : w \in borrows}
             Mut(l)    == {w \in InBlock(n) : w.local = l /\ w.is_mut}
             Shared(l) == {w \in InBlock(n) : w.local = l /\ ~w.is_mut}
             Both  == {k \in Borrowed : Mut(k) # {} /\ Shared(k) # {}}
             Twice == {k \in Borrowed : Cardinality(Mut(k)) > 1}
  <2>1. ClashErrors(n) = ErrorsAbout("mut_and_shared", Both) \cup ErrorsAbout("mut_twice", Twice)
    BY DEF ClashErrors, ErrorsAbout
  <2>2. ClashNotes(mir, n) = NotesAbout("mut_and_shared", Both) \cup NotesAbout("mut_twice", Twice)
    BY <1>1 DEF ClashNotes, NotesAbout
  <2> HIDE DEF Both, Twice
  <2> QED  BY <2>1, <2>2, OwnJoins
<1>4. ASSUME NEW args, NEW n PROVE Own(OperandErrors(args, n)) = OperandNotes(mir, initialized, args, n)
  <2> DEFINE Gone(i) == \/ args[i].local \notin initialized
                        \/ \E j \in 1 .. i - 1 : Consumed(args[j]) /\ args[j].local = args[i].local
             Borrowed(l) == \E w \in InBlock(n) : w.local = l
             Uninit == {i \in DOMAIN args : args[i].kind # "const" /\ Gone(i)}
             Moved  == {i \in DOMAIN args : args[i].kind = "move" /\ Borrowed(args[i].local)}
             Copied == {i \in DOMAIN args : args[i].kind = "copy" /\ ~Copyable(mir, args[i].local)}
             Of(I)  == {args[i].local : i \in I}
  <2>1. OperandErrors(args, n) = ErrorsAbout("uninit", Of(Uninit))
                                   \cup ErrorsAbout("move_borrowed", Of(Moved))
                                   \cup ErrorsAbout("copy", Of(Copied))
    BY DEF OperandErrors, ErrorsAbout
  <2>2. OperandNotes(mir, initialized, args, n) = NotesAbout("uninit", Of(Uninit))
                                   \cup NotesAbout("move_borrowed", Of(Moved))
                                   \cup NotesAbout("copy", Of(Copied))
    BY <1>1, <1>2 DEF OperandNotes, NotesAbout
  <2> DEFINE A == ErrorsAbout("uninit", Of(Uninit))
             B == ErrorsAbout("move_borrowed", Of(Moved))
             C == ErrorsAbout("copy", Of(Copied))
  <2>3. Own(A) = NotesAbout("uninit", Of(Uninit))
    BY OwnJoins
  <2>4. Own(B) = NotesAbout("move_borrowed", Of(Moved))
    BY OwnJoins
  <2>5. Own(C) = NotesAbout("copy", Of(Copied))
    BY OwnJoins
  <2> HIDE DEF A, B, C, Uninit, Moved, Copied, Of
  <2>6. Own(A \cup B \cup C) = Own(A \cup B) \cup Own(C) /\ Own(A \cup B) = Own(A) \cup Own(B)
    BY OwnJoins
  <2>7. OperandErrors(args, n) = A \cup B \cup C
    BY <2>1 DEF A, B, C
  <2> QED  BY <2>2, <2>3, <2>4, <2>5, <2>6, <2>7
<1>5. \A args : AfterOperands(args) = Left(mir, initialized, args)
  BY <1>2 DEF AfterOperands, Left
<1>6. \A l : Tagged(l) = TaggedIn(mir, active_zones, zone_allocations, l)
  BY DEF Tagged, TaggedIn
<1> QED  BY <1>3, <1>4, <1>5, <1>6

\* What a step pushes, without the tags.
LEMMA OwnGrows ==
  /\ \A E : errors' = errors \cup E => Own(errors') = OwnErrors \cup Own(E)
  /\ \A kind, about : errors' = errors \cup {Error(kind, about)}
                        => Own(errors') = OwnErrors \cup {Note(kind, about)}
<1>1. ASSUME NEW E, errors' = errors \cup E PROVE Own(errors') = OwnErrors \cup Own(E)
  BY <1>1, OwnJoins
<1>2. ASSUME NEW kind, NEW about, errors' = errors \cup {Error(kind, about)}
      PROVE  Own(errors') = OwnErrors \cup {Note(kind, about)}
  <2>1. Own({Error(kind, about)}) = {Note(kind, about)}
    BY OwnJoins
  <2> QED  BY <1>1, <1>2, <2>1
<1> QED  BY <1>1, <1>2

\* Every step of the walk is the body's own step.
LEMMA StepIsOwn ==
  ASSUME borrows = BorrowsOf(mir), EnterBlock \/ PassPoint
  PROVE  Now' = StepOf(mir, Now)
<1>1. /\ Now.at = at /\ Now.init = initialized /\ Now.zones = active_zones
      /\ Now.tags = zone_allocations /\ Now.notes = OwnErrors
  BY DEF Now
<1>2. Now' = [at |-> at', init |-> initialized', zones |-> active_zones', tags |-> zone_allocations',
              notes |-> Own(errors)']
  BY OwnJoins DEF Now, OwnErrors, Own
<1>3. Own(errors)' = Own(errors')
  BY WalkFrame DEF Own
<1>4. CASE EnterBlock
  <2>1. at[2] = 0
    BY <1>4 DEF EnterBlock
  <2>2. StepOf(mir, Now) = BlockEntry(mir, Now)
    BY <1>1, <2>1 DEF StepOf
  <2>3. Own(errors') = OwnErrors \cup ClashNotes(mir, at[1])
    BY <1>4, OwnGrows, NotesAreErrors DEF EnterBlock
  <2> QED  BY <1>1, <1>2, <1>3, <1>4, <2>2, <2>3, NotesAreErrors DEF EnterBlock, BlockEntry
<1>5. CASE CheckTerminator
  <2>1. at[2] # 0 /\ AtTerm(mir, at)
    BY <1>5 DEF CheckTerminator
  <2>2. StepOf(mir, Now) = BlockEnd(mir, Now)
    BY <1>1, <2>1 DEF StepOf
  <2>3. Own(errors') = OwnErrors \cup OperandNotes(mir, initialized, IF At(mir, at).op = "switch" THEN At(mir, at).args ELSE <<>>, at[1])
    BY <1>5, OwnGrows, NotesAreErrors DEF CheckTerminator
  <2> QED  BY <1>1, <1>2, <1>3, <1>5, <2>2, <2>3, NotesAreErrors DEF CheckTerminator, BlockEnd
<1>6. CASE CheckAssignOrCall
  <2>1. at[2] # 0 /\ ~AtTerm(mir, at) /\ At(mir, at).op \in {"assign", "call"}
    BY <1>6 DEF CheckAssignOrCall, Passing
  <2>2. StepOf(mir, Now) = Computing(mir, Now, At(mir, at))
    BY <1>1, <2>1 DEF StepOf
  <2>3. Own(errors') = OwnErrors \cup OperandNotes(mir, initialized, At(mir, at).args, at[1])
    BY <1>6, OwnGrows, NotesAreErrors DEF CheckAssignOrCall
  <2> QED  BY <1>1, <1>2, <1>3, <1>6, <2>2, <2>3, NotesAreErrors DEF CheckAssignOrCall, Passing, Computing, After
<1>7. CASE CheckRef
  <2>1. at[2] # 0 /\ ~AtTerm(mir, at) /\ At(mir, at).op = "ref"
    BY <1>7 DEF CheckRef, Passing
  <2>2. StepOf(mir, Now) = Borrowing(mir, Now, At(mir, at))
    BY <1>1, <2>1 DEF StepOf
  <2>3. Own(errors') = IF At(mir, at).of \in initialized THEN OwnErrors
                        ELSE OwnErrors \cup {Note("borrow_uninit", At(mir, at).of)}
    <3>1. CASE At(mir, at).of \in initialized
      BY <1>7, <3>1, OwnJoins DEF CheckRef
    <3>2. CASE At(mir, at).of \notin initialized
      <4>1. errors' = errors \cup {Error("borrow_uninit", At(mir, at).of)}
        BY <1>7, <3>2 DEF CheckRef
      <4> QED  BY <3>2, <4>1, OwnGrows
    <3> QED  BY <3>1, <3>2
  <2> QED  BY <1>1, <1>2, <1>3, <1>7, <2>2, <2>3, NotesAreErrors DEF CheckRef, Passing, Borrowing, After
<1>8. CASE EnterZone
  <2>1. at[2] # 0 /\ ~AtTerm(mir, at) /\ At(mir, at).op = "zone_enter"
    BY <1>8 DEF EnterZone, Passing
  <2>2. StepOf(mir, Now) = Entering(mir, Now, At(mir, at))
    BY <1>1, <2>1 DEF StepOf
  <2>3. Own(errors') = OwnErrors
    BY <1>8, OwnJoins DEF EnterZone
  <2> QED  BY <1>1, <1>2, <1>3, <1>8, <2>2, <2>3, NotesAreErrors DEF EnterZone, Passing, Entering, After
<1>9. CASE ExitZone
  <2> DEFINE ins == At(mir, at)
  <2>1. at[2] # 0 /\ ~AtTerm(mir, at) /\ ins.op = "zone_exit"
    BY <1>9 DEF ExitZone, Passing
  <2>2. StepOf(mir, Now) = IF Innermost(Now, ins) THEN Leaving(mir, Now, ins) ELSE Skipping(mir, Now)
    BY <1>1, <2>1 DEF StepOf
  <2>3. Innermost(Now, ins) <=> active_zones # <<>> /\ active_zones[Len(active_zones)] = ins.zone
    BY <1>1 DEF Innermost
  <2>4. CASE ~Innermost(Now, ins)
    BY <1>1, <1>2, <1>3, <1>9, <2>2, <2>3, <2>4, OwnJoins DEF ExitZone, Passing, Skipping, After
  <2>5. CASE Innermost(Now, ins)
    <3> DEFINE Escaping == {w \in borrows : /\ w.local \in zone_allocations[ins.zone]
                                            /\ Reaches(w.region, at[1])}
    <3>1. Escapes(mir, Now, ins.zone) <=> Escaping # {}
      BY <1>1 DEF Escapes
    <3>2. /\ errors' = IF Escaping = {} THEN errors ELSE errors \cup {Error("zone_escape", ins.zone)}
          /\ active_zones' = SubSeq(active_zones, 1, Len(active_zones) - 1)
      BY <1>9, <2>3, <2>5 DEF ExitZone
    <3> HIDE DEF Escaping
    <3>3. Own(errors') = IF Escapes(mir, Now, ins.zone)
                         THEN OwnErrors \cup {Note("zone_escape", ins.zone)} ELSE OwnErrors
      BY <3>1, <3>2, OwnGrows, OwnJoins
    <3> QED  BY <1>1, <1>2, <1>3, <1>9, <2>2, <2>5, <3>2, <3>3 DEF ExitZone, Passing, Leaving, After
  <2> QED  BY <2>4, <2>5
<1>10. CASE SkipInstruction
  <2>1. at[2] # 0 /\ ~AtTerm(mir, at) /\ At(mir, at).op = "assert"
    BY <1>10 DEF SkipInstruction, Passing
  <2>2. StepOf(mir, Now) = Skipping(mir, Now)
    BY <1>1, <2>1 DEF StepOf
  <2>3. Own(errors') = OwnErrors
    BY <1>10, OwnJoins DEF SkipInstruction
  <2> QED  BY <1>1, <1>2, <1>3, <1>10, <2>2, <2>3, NotesAreErrors DEF SkipInstruction, Passing, Skipping, After
<1> QED  BY <1>4, <1>5, <1>6, <1>7, <1>8, <1>9, <1>10 DEF PassPoint

\* A walk that has come so far goes on by one step.
LEMMA TraceGrows ==
  ASSUME NEW b, NEW c, c.at[1] \in Blocks(b),
         \E m \in Nat : \E tr : Trace(b, m, tr) /\ tr[m] = c
  PROVE  \E m \in Nat : \E tr : Trace(b, m, tr) /\ tr[m] = StepOf(b, c)
<1>1a. PICK m \in Nat : \E tr : Trace(b, m, tr) /\ tr[m] = c
  OBVIOUS
<1>1. PICK tr : Trace(b, m, tr) /\ tr[m] = c
  BY <1>1a
<1> DEFINE longer == [k \in 0 .. m + 1 |-> IF k <= m THEN tr[k] ELSE StepOf(b, c)]
<1>2. longer[m + 1] = StepOf(b, c) /\ m + 1 \in Nat /\ \A k \in 0 .. m : longer[k] = tr[k]
  OBVIOUS
<1> HIDE DEF longer
<1>3. Trace(b, m + 1, longer)
  <2>1. longer[0] = Begin(b)
    BY <1>1, <1>2 DEF Trace
  <2>2. ASSUME NEW k \in 0 .. m
        PROVE  longer[k].at[1] \in Blocks(b) /\ longer[k + 1] = StepOf(b, longer[k])
    <3>1. CASE k = m
      BY <1>1, <1>2, <3>1
    <3>2. CASE k # m
      <4>1. k \in 0 .. m - 1 /\ k + 1 \in 0 .. m
        BY <3>2
      <4> QED  BY <1>1, <1>2, <4>1 DEF Trace
    <3> QED  BY <3>1, <3>2
  <2>3. m + 1 - 1 = m
    OBVIOUS
  <2> QED  BY <2>1, <2>2, <2>3 DEF Trace
<1> QED  BY <1>2, <1>3

\* A step of the walk tags what it pushes with the forge under check.
LEMMA StepTags ==
  ASSUME EnterBlock \/ PassPoint
  PROVE  \A e \in errors' : e \in errors \/ e.forge = forge
<1>1. \A kind, about : Error(kind, about).forge = forge
  BY DEF Error
<1>2. /\ \A n : \A e \in ClashErrors(n) : e.forge = forge
      /\ \A args, n : \A e \in OperandErrors(args, n) : e.forge = forge
  BY <1>1 DEF ClashErrors, OperandErrors
<1>3. CASE EnterBlock
  BY <1>2, <1>3 DEF EnterBlock
<1>4. CASE CheckAssignOrCall
  BY <1>2, <1>4 DEF CheckAssignOrCall
<1>5. CASE CheckRef
  BY <1>1, <1>5 DEF CheckRef
<1>6. CASE EnterZone \/ SkipInstruction
  BY <1>6 DEF EnterZone, SkipInstruction
<1>7. CASE ExitZone
  BY <1>1, <1>7 DEF ExitZone
<1>8. CASE CheckTerminator
  BY <1>2, <1>8 DEF CheckTerminator
<1> QED  BY <1>3, <1>4, <1>5, <1>6, <1>7, <1>8 DEF PassPoint

LEMMA NextTags == ForgeOK /\ TagsOK /\ [Next]_vars => TagsOK'
<1> SUFFICES ASSUME ForgeOK, TagsOK, [Next]_vars PROVE TagsOK'
  OBVIOUS
<1> USE DEF TagsOK
<1>1. forge \in Nat
  BY DEF ForgeOK
<1>2. CASE ComputeLiveness
  BY <1>2 DEF ComputeLiveness, forgeVars
<1>3. CASE InferBorrowRegions
  BY <1>3 DEF InferBorrowRegions, forgeVars
<1>4. CASE EnterBlock \/ PassPoint
  BY <1>1, <1>4, StepTags, WalkFrame
<1>5. CASE ReturnResult
  BY <1>5 DEF ReturnResult
<1>6. CASE CheckNextForge
  <2>1. forge' = forge + 1 /\ errors' = errors
    BY <1>6 DEF CheckNextForge
  <2>2. ASSUME NEW e \in errors
        PROVE  e.forge \in Nat /\ e.forge <= forge + 1 /\ e.forge # forge + 1
    BY <1>1
  <2> QED  BY <2>1, <2>2
<1>7. CASE UNCHANGED vars
  BY <1>7 DEF vars, forgeVars
<1> QED  BY <1>2, <1>3, <1>4, <1>5, <1>6, <1>7 DEF Next, Walk, PassPoint

LEMMA NextHistory ==
  AnswerOK /\ TagsOK /\ HistoryOK /\ [Next]_vars => HistoryOK'
<1> SUFFICES ASSUME AnswerOK, TagsOK, HistoryOK, [Next]_vars PROVE HistoryOK'
  OBVIOUS
<1>1. CASE ComputeLiveness
  BY <1>1 DEF ComputeLiveness, HistoryOK
<1>2. CASE InferBorrowRegions
  <2>1. pc = "infer" /\ mir' = mir /\ forge' = forge /\ errors' = errors
    BY <1>2 DEF InferBorrowRegions, liveVars, forgeVars
  <2>2. borrows' = BorrowsOf(mir)
    <3>1. borrows' = Inferred
      BY <1>2 DEF InferBorrowRegions, Inferred
    <3> QED  BY <2>1, <3>1, InferredIsOwn
  <2>3. Now' = Begin(mir)
    <3>1. OwnErrors' = {}
      BY <2>1 DEF OwnErrors, TagsOK
    <3> QED  BY <1>2, <3>1 DEF Now, Begin, InferBorrowRegions, InitializedAtStart
  <2> DEFINE start == [k \in {0} |-> Begin(mir)]
  <2>4. Trace(mir, 0, start) /\ start[0] = Now'
    BY <2>3 DEF Trace
  <2> HIDE DEF start
  <2>5. Trace(mir', 0, start) /\ start[0] = Now'
    BY <2>1, <2>4
  <2> QED  BY <2>1, <2>2, <2>5 DEF HistoryOK
<1>3. CASE EnterBlock \/ PassPoint
  <2>1. /\ pc = "walk" /\ at[1] \in Blocks(mir) /\ mir' = mir /\ borrows' = borrows
    BY <1>3, WalkFrame
  <2>2. borrows = BorrowsOf(mir) /\ \E m \in Nat : \E tr : Trace(mir, m, tr) /\ tr[m] = Now
    BY <2>1 DEF HistoryOK
  <2>3. Now' = StepOf(mir, Now)
    BY <1>3, <2>2, StepIsOwn
  <2>4. Now.at[1] \in Blocks(mir)
    BY <2>1 DEF Now
  <2>5. \E m \in Nat : \E tr : Trace(mir, m, tr) /\ tr[m] = Now'
    BY <2>2, <2>3, <2>4, TraceGrows
  <2>6. \E m \in Nat : \E tr : Trace(mir', m, tr) /\ tr[m] = Now'
    BY <2>1, <2>5
  <2> QED  BY <2>1, <2>2, <2>6 DEF HistoryOK
<1>4. CASE ReturnResult \/ UNCHANGED vars
  <2>1. /\ mir' = mir /\ borrows' = borrows /\ Now' = Now
        /\ pc' \in {"walk", "returned"} => pc \in {"walk", "returned"}
    BY <1>4 DEF ReturnResult, vars, liveVars, walkVars, forgeVars, Now, OwnErrors
  <2> QED  BY <2>1 DEF HistoryOK
<1>5. CASE CheckNextForge
  BY <1>5 DEF CheckNextForge, HistoryOK
<1> QED  BY <1>1, <1>2, <1>3, <1>4, <1>5 DEF Next, Walk, PassPoint

LEMMA NextVerdicts == HistoryOK /\ VerdictsOK /\ [Next]_vars => VerdictsOK'
<1> SUFFICES ASSUME HistoryOK, VerdictsOK, [Next]_vars PROVE VerdictsOK'
  OBVIOUS
<1>1. PICK S : verdicts \in Seq(S) /\ \A v \in S : Checked(v.mir, v.added)
  BY DEF VerdictsOK
<1>2. CASE ReturnResult
  <2> DEFINE v == [mir |-> mir, added |-> OwnErrors, returned |-> Messages]
  <2>1. Checked(mir, OwnErrors)
    <3>1a. PICK m \in Nat : \E tr : Trace(mir, m, tr) /\ tr[m] = Now
      BY <1>2 DEF ReturnResult, HistoryOK
    <3>1. PICK tr : Trace(mir, m, tr) /\ tr[m] = Now
      BY <3>1a
    <3>2. Now.at[1] \notin Blocks(mir) /\ Now.notes = OwnErrors
      BY <1>2 DEF ReturnResult, Now
    <3> QED  BY <3>1, <3>2 DEF Checked
  <2>2. verdicts' = Append(verdicts, v)
    BY <1>2 DEF ReturnResult
  <2>3. v.mir = mir /\ v.added = OwnErrors
    OBVIOUS
  <2> HIDE DEF v
  <2>4. verdicts \in Seq(S \cup {v})
    BY <1>1
  <2>5. verdicts' \in Seq(S \cup {v})
    BY <2>2, <2>4
  <2>6. \A u \in S \cup {v} : Checked(u.mir, u.added)
    BY <1>1, <2>1, <2>3
  <2> QED  BY <2>5, <2>6 DEF VerdictsOK
<1>3. CASE ~ReturnResult
  <2>1. verdicts' = verdicts
    BY <1>3 DEF Next, Walk, ComputeLiveness, InferBorrowRegions, EnterBlock, CheckAssignOrCall,
                CheckRef, EnterZone, ExitZone, SkipInstruction, CheckTerminator, Passing,
                CheckNextForge, vars, forgeVars
  <2> QED  BY <1>1, <2>1 DEF VerdictsOK
<1> QED  BY <1>2, <1>3

\* What a check adds to the checker's list depends on nothing but the body: not on the
\* forges the same checker saw before it, nor on the errors they left in the list.
THEOREM AdditionsRepeat == Spec => []AdditionsAreRepeatable
<1>1. VerdictsOK => AdditionsAreRepeatable
  <2> SUFFICES ASSUME VerdictsOK, NEW i \in DOMAIN verdicts, NEW j \in DOMAIN verdicts,
                      verdicts[i].mir = verdicts[j].mir
               PROVE  verdicts[i].added = verdicts[j].added
    BY DEF AdditionsAreRepeatable
  <2>1. PICK S : verdicts \in Seq(S) /\ \A v \in S : Checked(v.mir, v.added)
    BY DEF VerdictsOK
  <2>2. verdicts[i] \in S /\ verdicts[j] \in S
    BY <2>1
  <2> QED  BY <2>1, <2>2, OneVerdict
<1>2. Init => TagsOK /\ HistoryOK /\ VerdictsOK
  <2> SUFFICES ASSUME Init PROVE VerdictsOK
    BY DEF Init, TagsOK, HistoryOK
  <2>1. verdicts \in Seq({})
    BY DEF Init
  <2> QED  BY <2>1 DEF VerdictsOK
<1> QED  BY <1>1, <1>2, InitAnswer, NextAnswer, NextTags, NextHistory, NextVerdicts, PTL
         DEF Spec, AnswerOK


-----------------------------------------------------------------------------
(* Straight lines *)

(* On a straight line every point but the entry has one predecessor, and the walk passes   *)
(* the points in the order of execution.                                                   *)

LEMMA LineFollow ==
  ASSUME NEW b \in Bodies, StraightLine(b), NEW pt \in Points(b)
  PROVE  /\ AtTerm(b, pt) => Follow(b, pt) = IF pt[1] + 1 \in Blocks(b) THEN {<<pt[1] + 1, 1>>} ELSE {}
         /\ ~AtTerm(b, pt) => Follow(b, pt) = {<<pt[1], pt[2] + 1>>}
<1>1. pt[1] \in Blocks(b)
  BY FollowStays
<1>2. Succ(b, pt[1]) = IF pt[1] + 1 \in Blocks(b) THEN {pt[1] + 1} ELSE {}
  BY <1>1 DEF StraightLine
<1> QED  BY <1>2 DEF Follow

LEMMA EntryIsPoint ==
  ASSUME NEW b \in Bodies
  PROVE  Entry \in Points(b)
<1>1. 0 \in Blocks(b)
  BY BodyFacts DEF Blocks
<1> QED  BY <1>1, BodyFacts, PointsAre DEF Entry

LEMMA OnePredecessor ==
  ASSUME NEW b \in Bodies, StraightLine(b), NEW p \in Points(b)
  PROVE  /\ Entry \notin Follow(b, p)
         /\ \A q \in Points(b) : \A r : r \in Follow(b, p) /\ r \in Follow(b, q) => p = q
<1> DEFINE At1(x) == x = <<x[1], x[2]>> /\ x[1] \in Nat /\ x[2] \in 1 .. Len(Code(b, x[1])) + 1
                       /\ Len(Code(b, x[1])) \in Nat
<1>1. \A x \in Points(b) : At1(x)
  BY FollowStays, BodyFacts DEF Blocks
<1>2. \A x \in Points(b) : \A r : r \in Follow(b, x) =>
         \/ AtTerm(b, x) /\ r = <<x[1] + 1, 1>>
         \/ ~AtTerm(b, x) /\ r = <<x[1], x[2] + 1>>
  BY LineFollow
<1>3. Entry \notin Follow(b, p)
  BY <1>1, <1>2 DEF Entry
<1>4. ASSUME NEW q \in Points(b), NEW r, r \in Follow(b, p), r \in Follow(b, q)
      PROVE  p = q
  <2>1. At1(p) /\ At1(q)
    BY <1>1
  <2>2. CASE AtTerm(b, p) /\ AtTerm(b, q)
    BY <1>2, <1>4, <2>1, <2>2 DEF AtTerm
  <2>3. CASE ~AtTerm(b, p) /\ ~AtTerm(b, q)
    BY <1>2, <1>4, <2>1, <2>3
  <2>4. CASE AtTerm(b, p) /\ ~AtTerm(b, q)
    BY <1>2, <1>4, <2>1, <2>4
  <2>5. CASE ~AtTerm(b, p) /\ AtTerm(b, q)
    BY <1>2, <1>4, <2>1, <2>5
  <2> QED  BY <2>2, <2>3, <2>4, <2>5
<1> QED  BY <1>3, <1>4

\* What keeps a value is the start and what follows, in a step that leaves the local alone,
\* on what keeps it.
LEMMA KeepingTurns ==
  ASSUME NEW b \in Bodies, NEW l, NEW start, start \subseteq Points(b)
  PROVE  /\ Keeping(b, l, start) \subseteq Points(b)
         /\ \A q : q \in Keeping(b, l, start) <=>
              q \in start \/ \E p \in Keeping(b, l, start) : l \notin Writes(b, p) /\ q \in Follow(b, p)
<1> DEFINE R == Keeping(b, l, start)
           C == start \cup UNION {Follow(b, p) : p \in {q \in R : l \notin Writes(b, q)}}
<1>1. LeastClosed(R, Points(b), start, KeepStep(b, l))
  BY KeepingLeast
<1> HIDE DEF R
<1>2. R \subseteq Points(b) /\ start \subseteq R /\ KeepStep(b, l)[R] = R
  BY <1>1 DEF LeastClosed
<1>3. C \subseteq R
  BY <1>2 DEF KeepStep
<1>4. C \subseteq Points(b) /\ start \subseteq C
  BY <1>2, <1>3
<1>5. \A p \in C : l \notin Writes(b, p) => Follow(b, p) \subseteq C
  BY <1>3
<1>6. R \subseteq C
  <2> HIDE DEF C
  <2> QED  BY <1>4, <1>5, KeepingWithin DEF R
<1>7. \A q : q \in R <=> q \in C
  BY <1>3, <1>6
<1> QED  BY <1>2, <1>7 DEF R

\* On a straight line a value is kept up to a point if it was kept up to the one before.
LEMMA KeepingOnLine ==
  ASSUME NEW b \in Bodies, StraightLine(b), NEW l, NEW start, start \subseteq Points(b),
         NEW p \in Points(b), NEW q \in Follow(b, p)
  PROVE  q \in Keeping(b, l, start) <=> q \in start \/ (p \in Keeping(b, l, start) /\ l \notin Writes(b, p))
<1>1. \A r \in Points(b) : q \in Follow(b, r) => r = p
  BY OnePredecessor
<1> QED  BY <1>1, KeepingTurns

LEMMA ReachableOnLine ==
  ASSUME NEW b \in Bodies
  PROVE  /\ Reachable(b) \subseteq Points(b) /\ Entry \in Reachable(b)
         /\ \A p \in Reachable(b) : Follow(b, p) \subseteq Reachable(b)
<1>1. \A p : NoLocal \notin Writes(b, p)
  BY DEF Writes, InstrDefs
<1>2. {Entry} \subseteq Points(b)
  BY EntryIsPoint
<1> DEFINE R == Keeping(b, NoLocal, {Entry})
<1>3. /\ R \subseteq Points(b)
      /\ \A q : q \in R <=>
           q \in {Entry} \/ \E p \in R : NoLocal \notin Writes(b, p) /\ q \in Follow(b, p)
  BY <1>2, KeepingTurns
<1>4. R = Reachable(b)
  BY DEF Reachable
<1> HIDE DEF R
<1> QED  BY <1>1, <1>3, <1>4

\* On a straight line a local holds no value at a point if it held none before and was not
\* written, or was moved out, at the point before.
LEMMA UninitOnLine ==
  ASSUME NEW b \in Bodies, StraightLine(b), NEW l
  PROVE  /\ MayBeUninit(b, l, Entry) <=> l \notin b.args
         /\ \A p \in Reachable(b) : \A q \in Follow(b, p) :
              MayBeUninit(b, l, q) <=>
                /\ l \notin Writes(b, p)
                /\ MayBeUninit(b, l, p) \/ (l \in MovedAt(b, p) /\ ~Copyable(b, l))
<1> DEFINE Lost(r) == l \in MovedAt(b, r) \ Writes(b, r) /\ ~Copyable(b, l)
<1>1. \A pt : MayBeUninit(b, l, pt) <=>
         \/ l \notin b.args /\ pt \in Keeping(b, l, {Entry})
         \/ \E r \in Reachable(b) : Lost(r) /\ pt \in Keeping(b, l, Follow(b, r))
  BY DEF MayBeUninit
<1>2. {Entry} \subseteq Points(b) /\ Reachable(b) \subseteq Points(b)
      /\ \A r \in Points(b) : Follow(b, r) \subseteq Points(b)
  BY EntryIsPoint, ReachableOnLine, FollowStays
<1>3. MayBeUninit(b, l, Entry) <=> l \notin b.args
  <2>1. Entry \in Keeping(b, l, {Entry})
    BY <1>2, KeepingTurns
  <2>2. ASSUME NEW r \in Reachable(b) PROVE Entry \notin Keeping(b, l, Follow(b, r))
    BY <1>2, OnePredecessor, KeepingTurns
  <2> QED  BY <1>1, <2>1, <2>2
<1>4. ASSUME NEW p \in Reachable(b), NEW q \in Follow(b, p)
      PROVE  MayBeUninit(b, l, q) <=>
                /\ l \notin Writes(b, p)
                /\ MayBeUninit(b, l, p) \/ (l \in MovedAt(b, p) /\ ~Copyable(b, l))
  <2>1. q \in Keeping(b, l, {Entry}) <=> p \in Keeping(b, l, {Entry}) /\ l \notin Writes(b, p)
    BY <1>2, KeepingOnLine, OnePredecessor
  <2>2. ASSUME NEW r \in Reachable(b)
        PROVE  q \in Keeping(b, l, Follow(b, r)) <=>
                 r = p \/ (p \in Keeping(b, l, Follow(b, r)) /\ l \notin Writes(b, p))
    <3>1. q \in Follow(b, r) <=> r = p
      BY <1>2, OnePredecessor
    <3>2. Follow(b, r) \subseteq Points(b) /\ p \in Points(b)
      BY <1>2
    <3>3. q \in Keeping(b, l, Follow(b, r)) <=>
            q \in Follow(b, r) \/ (p \in Keeping(b, l, Follow(b, r)) /\ l \notin Writes(b, p))
      BY <3>2, KeepingOnLine
    <3> QED  BY <3>1, <3>3
  <2> HIDE DEF Lost
  <2>3. MayBeUninit(b, l, q) <=>
           \/ l \notin b.args /\ p \in Keeping(b, l, {Entry}) /\ l \notin Writes(b, p)
           \/ Lost(p)
           \/ (\E r \in Reachable(b) : Lost(r) /\ p \in Keeping(b, l, Follow(b, r))) /\ l \notin Writes(b, p)
    BY <1>1, <2>1, <2>2
  <2>4. Lost(p) <=> l \notin Writes(b, p) /\ l \in MovedAt(b, p) /\ ~Copyable(b, l)
    BY DEF Lost
  <2> QED  BY <1>1, <2>3, <2>4
<1> QED  BY <1>3, <1>4

-----------------------------------------------------------------------------
(* On a straight line the walk finds exactly the bad reads *)

\* What the walk meets at a point.
LEMMA PointFacts ==
  ASSUME NEW b \in Bodies, NEW pt \in Points(b)
  PROVE  /\ AreOperands(b, Operands(At(b, pt)))
         /\ AtTerm(b, pt) => At(b, pt).op \in TerminatorOps
         /\ ~AtTerm(b, pt) => At(b, pt).op \in InstructionOps
         /\ At(b, pt).op \in {"assign", "ref"} => At(b, pt).dst \in Locals(b) /\ At(b, pt).dst # NoLocal
         /\ At(b, pt).op = "ref" => At(b, pt).of \in Locals(b)
<1>1. IsBody(b)
  BY BodiesAssumption
<1>2. pt[1] \in Blocks(b) /\ pt[2] \in 1 .. Len(Code(b, pt[1])) + 1
  BY FollowStays
<1>3. CASE AtTerm(b, pt)
  <2>1. At(b, pt) = b.block[pt[1]].term
    BY <1>3 DEF At, Term
  <2>2. At(b, pt).op \in TerminatorOps /\ AreOperands(b, Operands(At(b, pt)))
    BY <1>1, <1>2, <2>1 DEF IsBody
  <2> QED  BY <1>3, <2>2 DEF TerminatorOps
<1>4. CASE ~AtTerm(b, pt)
  <2>1. At(b, pt) = b.block[pt[1]].code[pt[2]] /\ pt[2] \in DOMAIN b.block[pt[1]].code
    BY <1>2, <1>4, BodyFacts DEF At, AtTerm, Code
  <2> QED  BY <1>1, <1>2, <1>4, <2>1 DEF IsBody
<1> QED  BY <1>3, <1>4

UninitIn(notes) == {e.about : e \in {f \in notes : f.kind \in {"uninit", "borrow_uninit"}}}

TwiceIn(b, args) ==
  {l \in OperandLocals(args) : \E i, j \in DOMAIN args :
     /\ i < j /\ Consumes(b, args[i]) /\ args[j].kind # "const"
     /\ args[i].local = l /\ args[j].local = l}

\* The reads of a point that the walk reports, when init holds a value.
Reported(b, init, pt) ==
  {l \in AnalysedReads(b, pt) : l \notin init \/ l \in TwiceIn(b, Operands(At(b, pt)))}

LEMMA UninitJoins ==
  /\ \A N, M : UninitIn(N \cup M) = UninitIn(N) \cup UninitIn(M)
  /\ \A N, about : UninitIn(N \cup {Note("borrow_uninit", about)}) = UninitIn(N) \cup {about}
  /\ \A N, about : UninitIn(N \cup {Note("zone_escape", about)}) = UninitIn(N)
  /\ \A b, n : UninitIn(ClashNotes(b, n)) = {}
<1>1. \A N, x : x \in UninitIn(N) <=> \E e \in N : e.kind \in {"uninit", "borrow_uninit"} /\ x = e.about
  BY DEF UninitIn
<1>2. \A kind, about : Note(kind, about).kind = kind /\ Note(kind, about).about = about
  BY DEF Note
<1>3. ASSUME NEW N, NEW M PROVE UninitIn(N \cup M) = UninitIn(N) \cup UninitIn(M)
  <2>1. \A x : x \in UninitIn(N \cup M) <=> x \in UninitIn(N) \/ x \in UninitIn(M)
    BY <1>1
  <2> QED  BY <2>1
<1>4. ASSUME NEW N, NEW about
      PROVE  UninitIn(N \cup {Note("borrow_uninit", about)}) = UninitIn(N) \cup {about}
  <2>1. \A x : x \in UninitIn(N \cup {Note("borrow_uninit", about)}) <=> x \in UninitIn(N) \/ x = about
    BY <1>1, <1>2
  <2> QED  BY <2>1
<1>5. ASSUME NEW N, NEW about PROVE UninitIn(N \cup {Note("zone_escape", about)}) = UninitIn(N)
  <2>1. \A x : x \in UninitIn(N \cup {Note("zone_escape", about)}) <=> x \in UninitIn(N)
    BY <1>1, <1>2
  <2> QED  BY <2>1
<1>6. ASSUME NEW b, NEW n PROVE UninitIn(ClashNotes(b, n)) = {}
  <2>1. \A e \in ClashNotes(b, n) : e.kind \in {"mut_and_shared", "mut_twice"}
    BY <1>2 DEF ClashNotes
  <2>2. \A x : x \notin UninitIn(ClashNotes(b, n))
    BY <1>1, <2>1
  <2> QED  BY <2>2
<1> QED  BY <1>3, <1>4, <1>5, <1>6

\* The errors about reads that check_operand owes to a list of operands.
LEMMA OperandsReported ==
  ASSUME NEW b, NEW init, NEW args, AreOperands(b, args), NEW n
  PROVE  UninitIn(OperandNotes(b, init, args, n))
           = {l \in OperandLocals(args) : l \notin init \/ l \in TwiceIn(b, args)}
<1> DEFINE Gone(i) == \/ args[i].local \notin init
                      \/ \E j \in 1 .. i - 1 : Consumes(b, args[j]) /\ args[j].local = args[i].local
           Bad == {i \in DOMAIN args : args[i].kind # "const" /\ Gone(i)}
<1>1. DOMAIN args = 1 .. Len(args) /\ Len(args) \in Nat
  <2>1. args \in Seq({args[i] : i \in DOMAIN args})
    BY DEF AreOperands
  <2> QED  BY <2>1
<1>2. \A x : x \in UninitIn(OperandNotes(b, init, args, n)) <=> \E i \in Bad : x = args[i].local
  <2> DEFINE Notes(kind, I) == {Note(kind, args[i].local) : i \in I}
             Borrowed(l) == \E w \in Around(b, n) : w.local = l
             Moved  == {i \in DOMAIN args : args[i].kind = "move" /\ Borrowed(args[i].local)}
             Copied == {i \in DOMAIN args : args[i].kind = "copy" /\ ~Copyable(b, args[i].local)}
  <2>1. OperandNotes(b, init, args, n) = Notes("uninit", Bad) \cup Notes("move_borrowed", Moved) \cup Notes("copy", Copied)
    BY DEF OperandNotes
  <2> HIDE DEF Bad, Moved, Copied
  <2>2. \A kind, about : Note(kind, about).kind = kind /\ Note(kind, about).about = about
    BY DEF Note
  <2>3. ASSUME NEW x
        PROVE  x \in UninitIn(OperandNotes(b, init, args, n)) <=> \E i \in Bad : x = args[i].local
    <3>1. x \in UninitIn(OperandNotes(b, init, args, n)) <=>
            \E e \in OperandNotes(b, init, args, n) : e.kind \in {"uninit", "borrow_uninit"} /\ x = e.about
      BY DEF UninitIn
    <3>2. \A e : e \in OperandNotes(b, init, args, n) /\ e.kind \in {"uninit", "borrow_uninit"}
                   <=> \E i \in Bad : e = Note("uninit", args[i].local)
      BY <2>1, <2>2
    <3> QED  BY <2>2, <3>1, <3>2
  <2> QED  BY <2>3
<1>3. \A i \in DOMAIN args : Gone(i) <=> args[i].local \notin init \/
         \E j \in DOMAIN args : j < i /\ Consumes(b, args[j]) /\ args[j].local = args[i].local
  BY <1>1
<1>4. \A x : x \in OperandLocals(args) <=> \E i \in DOMAIN args : args[i].kind # "const" /\ x = args[i].local
  BY DEF OperandLocals
<1>5. \A x : x \in TwiceIn(b, args) <=> \E i, j \in DOMAIN args :
         /\ i < j /\ Consumes(b, args[i]) /\ args[j].kind # "const"
         /\ args[i].local = x /\ args[j].local = x
  BY <1>4 DEF TwiceIn
<1> HIDE DEF Gone
<1>6. \A x : (\E i \in Bad : x = args[i].local) <=>
              x \in OperandLocals(args) /\ (x \notin init \/ x \in TwiceIn(b, args))
  BY <1>3, <1>4, <1>5
<1> HIDE DEF Bad
<1> QED  BY <1>2, <1>6

\* What check_operand takes out of the initialized locals is what is moved and not copyable.
LEMMA OperandsConsumed ==
  ASSUME NEW b, NEW init, NEW args, AreOperands(b, args), NEW l \in Locals(b)
  PROVE  l \in Left(b, init, args) <=>
           l \in init /\ ~(Move(l) \in {args[i] : i \in DOMAIN args} /\ ~Copyable(b, l))
<1>1. \A i \in DOMAIN args : Consumes(b, args[i]) /\ args[i].local = l <=> args[i] = Move(l) /\ ~Copyable(b, l)
  <2>1. \A i \in DOMAIN args : args[i].kind = "const" \/ \E k \in Locals(b) : args[i] \in {Copy(k), Move(k)}
    BY DEF AreOperands
  <2>2. \A k : /\ Copy(k).kind = "copy" /\ Copy(k).local = k
               /\ Move(k).kind = "move" /\ Move(k).local = k
    BY DEF Copy, Move
  <2> QED  BY <2>1, <2>2 DEF Consumes
<1> QED  BY <1>1 DEF Left

\* What one step of the walk makes of a point.
LEMMA PassedExactly ==
  ASSUME NEW b \in Bodies, StraightLine(b), SkippedMovesMatterNot(b),
         NEW c, c.at \in Points(b)
  PROVE  LET next == StepOf(b, c)
         IN  /\ next.at = IF AtTerm(b, c.at) THEN <<c.at[1] + 1, 0>> ELSE <<c.at[1], c.at[2] + 1>>
             /\ Follow(b, c.at) # {} =>
                  \A l \in Locals(b) : l \in next.init <=>
                    \/ l \in Writes(b, c.at)
                    \/ l \in c.init /\ ~(l \in MovedAt(b, c.at) /\ ~Copyable(b, l))
             /\ UninitIn(next.notes) = UninitIn(c.notes) \cup Reported(b, c.init, c.at)
<1> DEFINE pt == c.at
           ins == At(b, pt)
           next == StepOf(b, c)
           Init2 == \A l \in Locals(b) : l \in next.init <=>
                      \/ l \in Writes(b, pt)
                      \/ l \in c.init /\ ~(l \in MovedAt(b, pt) /\ ~Copyable(b, l))
           Notes2 == UninitIn(next.notes) = UninitIn(c.notes) \cup Reported(b, c.init, pt)
<1>1. pt[2] # 0 /\ AreOperands(b, Operands(ins))
  BY FollowStays, PointFacts
<1>2. \A l \in Locals(b) : l \in MovedAt(b, pt) <=> Move(l) \in {Operands(ins)[i] : i \in DOMAIN Operands(ins)}
  BY DEF MovedAt
<1>3. Writes(b, pt) = InstrDefs(ins) /\ AnalysedReads(b, pt) = InstrUses(ins) \cup TermUses(ins)
  BY DEF Writes, AnalysedReads
<1>4. OperandLocals(<<>>) = {} /\ \A init, n : OperandNotes(b, init, <<>>, n) = {} /\ Left(b, init, <<>>) = init
  BY DEF OperandLocals, OperandNotes, Left
<1>5. UninitIn({}) = {} /\ \A N : N \cup {} = N
  BY DEF UninitIn
<1>6. Operands(ins) = <<>> => MovedAt(b, pt) = {} /\ TwiceIn(b, Operands(ins)) = {}
  BY <1>4 DEF MovedAt, TwiceIn
<1>7. CASE AtTerm(b, pt)
  <2> DEFINE args == IF ins.op = "switch" THEN ins.args ELSE <<>>
  <2>1. next = BlockEnd(b, c)
    BY <1>1, <1>7 DEF StepOf
  <2>2. /\ next.at = <<pt[1] + 1, 0>> /\ next.init = Left(b, c.init, args)
        /\ next.notes = c.notes \cup OperandNotes(b, c.init, args, pt[1])
    BY <2>1 DEF BlockEnd
  <2>3. ins.op \in TerminatorOps
    BY <1>7, PointFacts
  <2>4. InstrDefs(ins) = {} /\ InstrUses(ins) = {}
    BY <2>3 DEF TerminatorOps, InstrDefs, InstrUses
  <2>5. CASE ins.op = "switch"
    <3>1. args = Operands(ins) /\ TermUses(ins) = OperandLocals(args)
      BY <2>5 DEF Operands, TermUses
    <3>2. Init2
      BY <1>1, <1>2, <1>3, <2>2, <2>4, <3>1, OperandsConsumed
    <3>3. Notes2
      <4>1. UninitIn(next.notes) = UninitIn(c.notes) \cup UninitIn(OperandNotes(b, c.init, args, pt[1]))
        <5> HIDE DEF args
        <5> QED  BY <2>2, UninitJoins
      <4>2. AreOperands(b, args)
        BY <1>1, <3>1
      <4>3. UninitIn(OperandNotes(b, c.init, args, pt[1])) = Reported(b, c.init, pt)
        <5> HIDE DEF args
        <5> QED  BY <1>3, <2>4, <3>1, <4>2, OperandsReported DEF Reported
      <4> QED  BY <4>1, <4>3, Zenon
    <3> QED  BY <1>7, <2>2, <3>2, <3>3
  <2>6. CASE ins.op # "switch"
    <3>1. args = <<>> /\ TermUses(ins) = {}
      BY <2>6 DEF TermUses
    <3>2. next.init = c.init /\ next.notes = c.notes
      BY <1>4, <1>5, <2>2, <3>1
    <3>3. Notes2
      <4>1. Reported(b, c.init, pt) = {}
        BY <1>3, <2>4, <3>1 DEF Reported
      <4> QED  BY <3>2, <4>1
    <3>4. Follow(b, pt) # {} => \A l \in MovedAt(b, pt) : Copyable(b, l)
      <4>1. CASE ins.op = "return"
        BY <4>1 DEF SkippedMovesMatterNot
      <4>2. CASE ins.op # "return"
        <5>1. Operands(ins) = <<>>
          BY <2>3, <2>6, <4>2 DEF TerminatorOps, Operands
        <5> QED  BY <1>6, <5>1
      <4> QED  BY <4>1, <4>2
    <3>5. Follow(b, pt) # {} => Init2
      BY <1>3, <2>4, <3>2, <3>4
    <3> QED  BY <1>7, <2>2, <3>3, <3>5
  <2> QED  BY <2>5, <2>6
<1>8. CASE ~AtTerm(b, pt)
  <2>1. ins.op \in InstructionOps /\ TermUses(ins) = {}
    BY <1>8, PointFacts DEF InstructionOps, TermUses
  <2>2. CASE ins.op \in {"assign", "call"}
    <3>1. next = Computing(b, c, ins)
      BY <1>1, <1>8, <2>2 DEF StepOf
    <3>2. /\ next.at = <<pt[1], pt[2] + 1>> /\ next.init = Left(b, c.init, ins.args) \cup InstrDefs(ins)
          /\ next.notes = c.notes \cup OperandNotes(b, c.init, ins.args, pt[1])
      BY <3>1 DEF Computing, After
    <3>3. ins.args = Operands(ins) /\ InstrUses(ins) = OperandLocals(ins.args)
      BY <2>2 DEF Operands, InstrUses
    <3>4. Init2
      BY <1>1, <1>2, <1>3, <3>2, <3>3, OperandsConsumed
    <3>5. Notes2
      <4>1. UninitIn(next.notes) = UninitIn(c.notes) \cup UninitIn(OperandNotes(b, c.init, ins.args, pt[1]))
        BY <3>2, UninitJoins
      <4>2. AreOperands(b, ins.args)
        BY <1>1, <3>3
      <4>3. UninitIn(OperandNotes(b, c.init, ins.args, pt[1])) = Reported(b, c.init, pt)
        BY <1>3, <2>1, <3>3, <4>2, OperandsReported DEF Reported
      <4> QED  BY <4>1, <4>3, Zenon
    <3> QED  BY <1>8, <3>2, <3>4, <3>5
  <2>3. CASE ins.op = "ref"
    <3>1. next = Borrowing(b, c, ins)
      BY <1>1, <1>8, <2>3 DEF StepOf
    <3>2. /\ next.at = <<pt[1], pt[2] + 1>> /\ next.init = c.init \cup {ins.dst}
          /\ next.notes = IF ins.of \in c.init THEN c.notes ELSE c.notes \cup {Note("borrow_uninit", ins.of)}
      BY <3>1 DEF Borrowing, After
    <3>3. Operands(ins) = <<>> /\ InstrUses(ins) = {ins.of} /\ InstrDefs(ins) = {ins.dst}
      BY <2>3, PointFacts DEF Operands, InstrUses, InstrDefs
    <3>4. Init2
      BY <1>3, <1>6, <3>2, <3>3
    <3>5. Reported(b, c.init, pt) = IF ins.of \in c.init THEN {} ELSE {ins.of}
      BY <1>3, <1>6, <2>1, <3>3 DEF Reported
    <3>6. Notes2
      <4>1. UninitIn(c.notes \cup {Note("borrow_uninit", ins.of)}) = UninitIn(c.notes) \cup {ins.of}
        BY UninitJoins, Zenon
      <4> QED  BY <3>2, <3>5, <4>1
    <3> QED  BY <1>8, <3>2, <3>4, <3>6
  <2>4. CASE ins.op \in {"zone_enter", "zone_exit", "assert"}
    <3>1. next \in {Entering(b, c, ins), Leaving(b, c, ins), Skipping(b, c)}
      BY <1>1, <1>8, <2>4 DEF StepOf
    <3>2. /\ next.at = <<pt[1], pt[2] + 1>> /\ next.init = c.init
          /\ next.notes = c.notes \/ next.notes = c.notes \cup {Note("zone_escape", ins.zone)}
      BY <3>1 DEF Entering, Leaving, Skipping, After
    <3>3. InstrUses(ins) = {} /\ InstrDefs(ins) = {}
      BY <2>4 DEF InstrUses, InstrDefs
    <3>4. Notes2
      <4>1. Reported(b, c.init, pt) = {}
        BY <1>3, <2>1, <3>3 DEF Reported
      <4>2. UninitIn(c.notes \cup {Note("zone_escape", ins.zone)}) = UninitIn(c.notes)
        BY UninitJoins, Zenon
      <4> QED  BY <3>2, <4>1, <4>2
    <3>5. Follow(b, pt) # {} => \A l \in MovedAt(b, pt) : Copyable(b, l)
      <4>1. CASE ins.op = "assert"
        BY <4>1 DEF SkippedMovesMatterNot
      <4>2. CASE ins.op # "assert"
        <5>1. Operands(ins) = <<>>
          BY <2>4, <4>2 DEF Operands
        <5> QED  BY <1>6, <5>1
      <4> QED  BY <4>1, <4>2
    <3>6. Follow(b, pt) # {} => Init2
      BY <1>3, <3>2, <3>3, <3>5
    <3> QED  BY <1>8, <3>2, <3>4, <3>6
  <2> QED  BY <2>1, <2>2, <2>3, <2>4 DEF InstructionOps
<1> QED  BY <1>7, <1>8

\* The points the walk has passed when it is at at.
Behind(b, at_) == {pt \in Points(b) : Earlier(pt, at_)}

LEMMA BehindGrows ==
  ASSUME NEW b \in Bodies, NEW pt \in Points(b)
  PROVE  /\ Behind(b, <<0, 0>>) = {}
         /\ Behind(b, <<pt[1], 1>>) = Behind(b, <<pt[1], 0>>)
         /\ Behind(b, IF AtTerm(b, pt) THEN <<pt[1] + 1, 0>> ELSE <<pt[1], pt[2] + 1>>)
              = Behind(b, pt) \cup {pt}
<1>1. \A q \in Points(b) : /\ q = <<q[1], q[2]>> /\ q[1] \in Nat /\ q[2] \in Nat
                           /\ 1 <= q[2] /\ q[2] <= Len(Code(b, q[1])) + 1 /\ Len(Code(b, q[1])) \in Nat
  BY FollowStays, BodyFacts DEF Blocks
<1>2. Behind(b, <<0, 0>>) = {}
  BY <1>1 DEF Behind, Earlier
<1>3. Behind(b, <<pt[1], 1>>) = Behind(b, <<pt[1], 0>>)
  BY <1>1 DEF Behind, Earlier
<1> DEFINE to == IF AtTerm(b, pt) THEN <<pt[1] + 1, 0>> ELSE <<pt[1], pt[2] + 1>>
<1>4. ASSUME NEW q \in Points(b) PROVE Earlier(q, to) <=> Earlier(q, pt) \/ q = pt
  <2>1. CASE AtTerm(b, pt)
    <3>1. pt[2] = Len(Code(b, pt[1])) + 1
      BY <2>1 DEF AtTerm
    <3> QED  BY <1>1, <2>1, <3>1 DEF Earlier
  <2>2. CASE ~AtTerm(b, pt)
    BY <1>1, <2>2 DEF Earlier
  <2> QED  BY <2>1, <2>2
<1> HIDE DEF to
<1>5. Behind(b, to) = Behind(b, pt) \cup {pt}
  BY <1>4 DEF Behind
<1> QED  BY <1>2, <1>3, <1>5 DEF to

\* Every analysed read is of a declared local.
LEMMA ReadsAreLocals ==
  ASSUME NEW b \in Bodies, NEW pt \in Points(b)
  PROVE  AnalysedReads(b, pt) \subseteq Locals(b)
<1>1. OperandLocals(Operands(At(b, pt))) \subseteq Locals(b)
  <2> DEFINE args == Operands(At(b, pt))
  <2>1. \A l : Copy(l).local = l /\ Move(l).local = l
    BY DEF Copy, Move
  <2>2. AreOperands(b, args)
    BY PointFacts
  <2> HIDE DEF args
  <2>3. \A i \in DOMAIN args : args[i].kind # "const" => args[i].local \in Locals(b)
    BY <2>1, <2>2 DEF AreOperands
  <2>4. OperandLocals(args) \subseteq Locals(b)
    BY <2>3 DEF OperandLocals
  <2> QED  BY <2>4 DEF args
<1>2. /\ At(b, pt).op \in {"assign", "call", "switch"} => At(b, pt).args = Operands(At(b, pt))
      /\ At(b, pt).op = "ref" => At(b, pt).of \in Locals(b)
  BY PointFacts DEF Operands
<1> QED  BY <1>1, <1>2 DEF AnalysedReads, InstrUses, TermUses

\* The point the walk is to pass next.
Here(c) == IF c.at[2] = 0 THEN <<c.at[1], 1>> ELSE c.at

BadAt(b, pt) ==
  {l \in AnalysedReads(b, pt) : MayBeUninit(b, l, pt) \/ l \in TwiceIn(b, Operands(At(b, pt)))}

\* The walk so far takes for initialized what holds a value, and has reported the bad reads
\* of the points it has passed.
WalkedExactly(b, c) ==
  /\ c.at[1] \in Blocks(b) =>
       /\ c.at = <<c.at[1], 0>> \/ c.at = Here(c)
       /\ Here(c) \in Reachable(b)
       /\ \A l \in Locals(b) : l \in c.init <=> ~MayBeUninit(b, l, Here(c))
  /\ UninitIn(c.notes) = UNION {BadAt(b, pt) : pt \in Behind(b, c.at)}

LEMMA BeginsExactly ==
  ASSUME NEW b \in Bodies, StraightLine(b)
  PROVE  WalkedExactly(b, Begin(b))
<1> DEFINE c == Begin(b)
<1>1. c.at = <<0, 0>> /\ c.init = b.args /\ c.notes = {}
  BY DEF Begin
<1>2. Here(c) = Entry
  BY <1>1 DEF Here, Entry
<1>3. Behind(b, c.at) = {}
  BY <1>1, EntryIsPoint, BehindGrows
<1>4. UninitIn(c.notes) = {}
  BY <1>1 DEF UninitIn
<1>5. \A l : l \in c.init <=> ~MayBeUninit(b, l, Here(c))
  BY <1>1, <1>2, UninitOnLine
<1>6. Entry \in Reachable(b)
  BY ReachableOnLine
<1>7. WalkedExactly(b, c)
  <2> HIDE DEF c
  <2> QED  BY <1>1, <1>2, <1>3, <1>4, <1>5, <1>6 DEF WalkedExactly
<1> QED  BY <1>7

LEMMA GoesOnExactly ==
  ASSUME NEW b \in Bodies, StraightLine(b), SkippedMovesMatterNot(b),
         NEW c, c.at[1] \in Blocks(b), WalkedExactly(b, c)
  PROVE  WalkedExactly(b, StepOf(b, c))
<1> DEFINE next == StepOf(b, c)
           pt == Here(c)
<1>1. /\ pt \in Reachable(b) /\ pt \in Points(b)
      /\ \A l \in Locals(b) : l \in c.init <=> ~MayBeUninit(b, l, pt)
      /\ UninitIn(c.notes) = UNION {BadAt(b, q) : q \in Behind(b, c.at)}
      /\ c.at = <<c.at[1], 0>> \/ c.at = pt
  BY ReachableOnLine DEF WalkedExactly
<1>2. c.at[1] \in Nat
  BY BodyFacts DEF Blocks
<1>3. CASE c.at = <<c.at[1], 0>>
  <2>1. c.at[2] = 0
    BY <1>3
  <2>2. next = BlockEntry(b, c)
    BY <2>1 DEF StepOf
  <2>3. next.at = <<c.at[1], 1>> /\ next.init = c.init /\ next.notes = c.notes \cup ClashNotes(b, c.at[1])
    BY <2>2 DEF BlockEntry
  <2>4. pt = <<c.at[1], 1>>
    BY <2>1 DEF Here
  <2>5. Here(next) = pt /\ next.at = Here(next)
    BY <2>3, <2>4 DEF Here
  <2>6. Behind(b, next.at) = Behind(b, c.at)
    <3>1. pt[1] = c.at[1]
      BY <2>4
    <3>2. Behind(b, <<pt[1], 1>>) = Behind(b, <<pt[1], 0>>)
      <4> HIDE DEF pt
      <4> QED  BY <1>1, BehindGrows
    <3>3. Behind(b, <<c.at[1], 1>>) = Behind(b, <<c.at[1], 0>>)
      BY <3>1, <3>2
    <3> QED  BY <1>3, <2>3, <3>3
  <2>7. UninitIn(next.notes) = UninitIn(c.notes)
    <3>1. UninitIn(c.notes \cup ClashNotes(b, c.at[1])) = UninitIn(c.notes) \cup UninitIn(ClashNotes(b, c.at[1]))
      BY UninitJoins
    <3>2. UninitIn(ClashNotes(b, c.at[1])) = {}
      BY UninitJoins
    <3> QED  BY <2>3, <3>1, <3>2
  <2>8. WalkedExactly(b, next)
    <3> HIDE DEF next, pt
    <3> QED  BY <1>1, <2>3, <2>5, <2>6, <2>7 DEF WalkedExactly
  <2> QED  BY <2>8
<1>4. CASE c.at = pt /\ c.at # <<c.at[1], 0>>
  <2>1. c.at \in Points(b)
    BY <1>1, <1>4
  <2>2. /\ next.at = IF AtTerm(b, pt) THEN <<pt[1] + 1, 0>> ELSE <<pt[1], pt[2] + 1>>
        /\ Follow(b, pt) # {} =>
             \A l \in Locals(b) : l \in next.init <=>
               \/ l \in Writes(b, pt)
               \/ l \in c.init /\ ~(l \in MovedAt(b, pt) /\ ~Copyable(b, l))
        /\ UninitIn(next.notes) = UninitIn(c.notes) \cup Reported(b, c.init, pt)
    <3> HIDE DEF pt, next
    <3> QED  BY <1>4, <2>1, PassedExactly DEF next
  <2>3. Reported(b, c.init, pt) = BadAt(b, pt)
    <3>1. AnalysedReads(b, pt) \subseteq Locals(b)
      BY <1>1, ReadsAreLocals
    <3> HIDE DEF pt
    <3> QED  BY <1>1, <3>1 DEF Reported, BadAt
  <2>4. Behind(b, next.at) = Behind(b, pt) \cup {pt}
    BY <1>1, <2>2, BehindGrows
  <2>5. UninitIn(next.notes) = UNION {BadAt(b, q) : q \in Behind(b, next.at)}
    <3> HIDE DEF pt, next
    <3> QED  BY <1>1, <1>4, <2>2, <2>3, <2>4
  <2>6. ASSUME next.at[1] \in Blocks(b)
        PROVE  /\ next.at = <<next.at[1], 0>> \/ next.at = Here(next)
               /\ Here(next) \in Follow(b, pt)
    <3>1. pt[1] \in Nat /\ pt[2] \in Nat /\ pt = <<pt[1], pt[2]>> /\ pt[2] + 1 # 0
      BY <1>1, FollowStays, BodyFacts DEF Blocks
    <3>2. CASE AtTerm(b, pt)
      <4>1. next.at = <<pt[1] + 1, 0>>
        BY <2>2, <3>2
      <4>2. Here(next) = <<pt[1] + 1, 1>> /\ pt[1] + 1 \in Blocks(b)
        BY <2>6, <4>1 DEF Here
      <4> QED  BY <1>1, <3>2, <4>1, <4>2, LineFollow
    <3>3. CASE ~AtTerm(b, pt)
      <4>1. next.at = <<pt[1], pt[2] + 1>>
        BY <2>2, <3>3
      <4>2. Here(next) = next.at
        BY <3>1, <4>1 DEF Here
      <4> QED  BY <1>1, <3>3, <4>1, <4>2, LineFollow
    <3> QED  BY <3>2, <3>3
  <2>7. ASSUME next.at[1] \in Blocks(b), NEW l \in Locals(b)
        PROVE  l \in next.init <=> ~MayBeUninit(b, l, Here(next))
    <3>1. Here(next) \in Follow(b, pt) /\ Follow(b, pt) # {}
      BY <2>6, <2>7
    <3>2. MayBeUninit(b, l, Here(next)) <=>
            /\ l \notin Writes(b, pt)
            /\ MayBeUninit(b, l, pt) \/ (l \in MovedAt(b, pt) /\ ~Copyable(b, l))
      BY <1>1, <3>1, UninitOnLine
    <3> QED  BY <1>1, <2>2, <3>1, <3>2
  <2>8. next.at[1] \in Blocks(b) => Here(next) \in Reachable(b)
    BY <1>1, <2>6, ReachableOnLine
  <2>9. WalkedExactly(b, next)
    <3> HIDE DEF next, pt
    <3> QED  BY <2>5, <2>6, <2>7, <2>8 DEF WalkedExactly
  <2> QED  BY <2>9
<1> QED  BY <1>1, <1>3, <1>4

\* The points a whole walk has passed are all there are.
LEMMA WalksExactly ==
  ASSUME NEW b \in Bodies, StraightLine(b), SkippedMovesMatterNot(b),
         NEW m \in Nat, NEW tr, Trace(b, m, tr)
  PROVE  WalkedExactly(b, tr[m])
<1> DEFINE T == {k \in Nat : k <= m => WalkedExactly(b, tr[k])}
<1>1. 0 \in T
  BY BeginsExactly DEF Trace
<1>2. ASSUME NEW k \in 1 .. m, k - 1 \in T PROVE k \in T
  <2>1. k - 1 \in 0 .. m - 1 /\ k - 1 + 1 = k
    OBVIOUS
  <2>2. tr[k - 1].at[1] \in Blocks(b) /\ tr[k] = StepOf(b, tr[k - 1])
    BY <2>1 DEF Trace
  <2>3. WalkedExactly(b, tr[k - 1])
    BY <1>2
  <2> QED  BY <2>2, <2>3, GoesOnExactly
<1>3. m \in T
  <2> HIDE DEF T
  <2>1. 0 .. m \subseteq T
    BY <1>1, <1>2, BoundedInduction
  <2> QED  BY <2>1
<1> QED  BY <1>3

LEMMA AllBehind ==
  ASSUME NEW b \in Bodies, NEW p, p[1] \in Nat, p[1] >= b.size
  PROVE  Behind(b, p) = Points(b)
<1>1. \A q \in Points(b) : q[1] \in Nat /\ q[1] < b.size
  BY FollowStays, BodyFacts DEF Blocks
<1>2. b.size \in Nat
  BY BodyFacts
<1> QED  BY <1>1, <1>2 DEF Behind, Earlier

\* In a body whose blocks follow one another in the order of their numbers, the checker
\* reports a local as unwritten or moved out if and only if an analysed read finds it so:
\* the one walk of check_all misses nothing and invents nothing there.
THEOREM StraightReads == Spec => []StraightLineReadsExact
<1>1. ForgeOK /\ WalkOK /\ HistoryOK => StraightLineReadsExact
  <2> SUFFICES ASSUME ForgeOK, WalkOK, HistoryOK, pc = "returned", StraightLine(mir),
                      SkippedMovesMatterNot(mir)
               PROVE  StraightLineReadsExact
    BY DEF StraightLineReadsExact
  <2> DEFINE MovedTwice(pt) ==
               LET args == Operands(At(mir, pt))
               IN  {l \in OperandLocals(args) : \E i, j \in DOMAIN args :
                      /\ i < j /\ Consumed(args[i]) /\ args[j].kind # "const"
                      /\ args[i].local = l /\ args[j].local = l}
             Bad(pt) == {l \in AnalysedReads(mir, pt) :
                           MayBeUninit(mir, l, pt) \/ l \in MovedTwice(pt)}
  <2>1. mir \in Bodies
    BY ForgeIsBody
  <2>2a. PICK m \in Nat : \E tr : Trace(mir, m, tr) /\ tr[m] = Now
    BY DEF HistoryOK
  <2>2. PICK tr : Trace(mir, m, tr) /\ tr[m] = Now
    BY <2>2a
  <2>3. WalkedExactly(mir, Now)
    BY <2>1, <2>2, WalksExactly
  <2>4. Now.at = at /\ Now.notes = OwnErrors
    BY DEF Now
  <2>5. UninitIn(OwnErrors) = UNION {BadAt(mir, pt) : pt \in Behind(mir, at)}
    BY <2>3, <2>4 DEF WalkedExactly
  <2>6. Behind(mir, at) = Points(mir)
    <3>1. mir.size \in Nat /\ at[1] = mir.size
      BY <2>1, BodyFacts DEF WalkOK
    <3> QED  BY <2>1, <3>1, AllBehind
  <2>7. \A pt : BadAt(mir, pt) = Bad(pt)
    <3>1. \A arg : Consumed(arg) <=> Consumes(mir, arg)
      BY DEF Consumed, Consumes
    <3>2. \A pt : MovedTwice(pt) = TwiceIn(mir, Operands(At(mir, pt)))
      BY <3>1 DEF TwiceIn
    <3> HIDE DEF MovedTwice
    <3> QED  BY <3>2 DEF BadAt
  <2>8. UninitIn(OwnErrors) = UNION {Bad(pt) : pt \in Points(mir)}
    <3> HIDE DEF Bad
    <3> QED  BY <2>5, <2>6, <2>7
  <2> QED  BY <2>8 DEF UninitIn, StraightLineReadsExact
<1>2. Init => TagsOK /\ HistoryOK
  BY DEF Init, TagsOK, HistoryOK
<1> QED  BY <1>1, <1>2, InitIInv, NextIInv, InitAnswer, NextAnswer, NextTags, NextHistory, PTL
         DEF Spec, AnswerOK, IInv

-----------------------------------------------------------------------------
(* Zones nest *)

LEMMA EarlierOrders ==
  ASSUME NEW b \in Bodies, NEW p \in Points(b), NEW q \in Points(b)
  PROVE  /\ ~Earlier(p, p)
         /\ Earlier(p, q) => ~Earlier(q, p)
         /\ \A r \in Points(b) : Earlier(p, q) /\ Earlier(q, r) => Earlier(p, r)
         /\ p = q \/ Earlier(p, q) \/ Earlier(q, p)
<1>1. \A r \in Points(b) : r = <<r[1], r[2]>> /\ r[1] \in Nat /\ r[2] \in Nat
  BY FollowStays DEF Blocks
<1> QED  BY <1>1 DEF Earlier

\* The entries among B whose zone no exit among B leaves.
OpenIn(b, entry, B) == {g \in Enters(b) \cap B : \A f \in Exits(b) \cap B : entry[f] # g}

InnerOf(H) == {h \in H : \A g \in H : g = h \/ Earlier(g, h)}

\* At every point the entry into the innermost zone, if there is one.
InnerAt(b, entry, pt) == InnerOf(OpenIn(b, entry, Behind(b, pt)))

LEMMA OneInner ==
  ASSUME NEW b \in Bodies, NEW H, H \subseteq Points(b), NEW h \in InnerOf(H), NEW k \in InnerOf(H)
  PROVE  h = k
  BY EarlierOrders DEF InnerOf

\* Every entry given by a nesting comes before its exit, is the innermost one when the exit
\* is reached, and is no longer open afterwards.
LEMMA OpenMoves ==
  ASSUME NEW b \in Bodies, NEW entry \in Nestings(b), NEW pt \in Points(b)
  PROVE  LET B == Behind(b, pt)
             H == OpenIn(b, entry, B)
         IN  /\ pt \in Enters(b) => OpenIn(b, entry, B \cup {pt}) = H \cup {pt}
             /\ pt \in Exits(b) => /\ entry[pt] \in InnerAt(b, entry, pt)
                                   /\ OpenIn(b, entry, B \cup {pt}) = H \ {entry[pt]}
             /\ pt \notin Enters(b) \cup Exits(b) => OpenIn(b, entry, B \cup {pt}) = H
<1> DEFINE B == Behind(b, pt)
           H == OpenIn(b, entry, B)
<1>1. /\ \A e \in Exits(b) :
           /\ entry[e] \in Enters(b) /\ Earlier(entry[e], e)
           /\ \A g \in Enters(b) \cap Between(b, entry[e], e) :
                \E f \in Exits(b) \cap Between(b, entry[e], e) : entry[f] = g
      /\ \A e, f \in Exits(b) : entry[e] = entry[f] => e = f
  BY DEF Nestings
<1>2. /\ Enters(b) \subseteq Points(b) /\ Exits(b) \subseteq Points(b)
      /\ \A q : q \in Enters(b) => q \notin Exits(b)
  BY DEF Enters, Exits
<1>3. \A q : q \in B <=> q \in Points(b) /\ Earlier(q, pt)
  BY DEF Behind
<1>4. /\ \A g : g \in OpenIn(b, entry, B \cup {pt}) <=>
           /\ g \in Enters(b) /\ (g \in B \/ g = pt)
           /\ \A f \in Exits(b) : f \in B => entry[f] # g
           /\ pt \in Exits(b) => entry[pt] # g
      /\ \A g : g \in H <=> g \in Enters(b) /\ g \in B /\ \A f \in Exits(b) : f \in B => entry[f] # g
  BY DEF OpenIn
<1> HIDE DEF B, H
<1>5. ASSUME pt \in Enters(b) PROVE OpenIn(b, entry, B \cup {pt}) = H \cup {pt}
  <2>1. \A f \in Exits(b) : f \in B => entry[f] # pt
    BY <1>1, <1>2, <1>3, EarlierOrders
  <2>2. \A g : g \in OpenIn(b, entry, B \cup {pt}) <=> g \in H \/ g = pt
    BY <1>2, <1>4, <1>5, <2>1
  <2> QED  BY <2>2
<1>6. ASSUME pt \notin Enters(b), pt \notin Exits(b) PROVE OpenIn(b, entry, B \cup {pt}) = H
  <2>1. \A g : g \in OpenIn(b, entry, B \cup {pt}) <=> g \in H
    BY <1>4, <1>6
  <2> QED  BY <2>1
<1>7. ASSUME pt \in Exits(b)
      PROVE  entry[pt] \in InnerOf(H) /\ OpenIn(b, entry, B \cup {pt}) = H \ {entry[pt]}
  <2>1. /\ entry[pt] \in Enters(b) /\ entry[pt] \in B
        /\ ~Earlier(pt, pt)
    BY <1>1, <1>2, <1>3, <1>7, EarlierOrders
  <2>2. \A f \in Exits(b) : f \in B => entry[f] # entry[pt]
    BY <1>1, <1>3, <1>7, <2>1
  <2>3. entry[pt] \in H
    BY <1>4, <2>1, <2>2
  <2>4. ASSUME NEW g \in H, g # entry[pt] PROVE Earlier(g, entry[pt])
    <3>1. g \in Enters(b) /\ g \in Points(b) /\ Earlier(g, pt) /\ entry[pt] \in Points(b)
      BY <1>2, <1>3, <1>4, <2>1
    <3>2. ASSUME Earlier(entry[pt], g) PROVE FALSE
      <4>1. g \in Enters(b) \cap Between(b, entry[pt], pt)
        BY <3>1, <3>2 DEF Between
      <4>2. PICK f \in Exits(b) \cap Between(b, entry[pt], pt) : entry[f] = g
        BY <1>1, <1>7, <4>1
      <4>3. f \in B
        BY <1>3, <4>2 DEF Between
      <4> QED  BY <1>4, <4>2, <4>3
    <3> QED  BY <2>4, <3>1, <3>2, EarlierOrders
  <2>5. entry[pt] \in InnerOf(H)
    BY <2>3, <2>4 DEF InnerOf
  <2>6. \A g : g \in OpenIn(b, entry, B \cup {pt}) <=> g \in H /\ g # entry[pt]
    BY <1>2, <1>4, <1>7
  <2> QED  BY <2>5, <2>6
<1> QED  BY <1>5, <1>6, <1>7 DEF InnerAt, H, B

-----------------------------------------------------------------------------
(* The walk's stack is that of the zones that are open *)

\* opened holds the points at which the zones of the stack were entered.
Stacked(b, zones, opened, H) ==
  /\ zones \in Seq(Zones)
  /\ opened \in [1 .. Len(zones) -> Enters(b)]
  /\ \A i \in 1 .. Len(zones) : zones[i] = At(b, opened[i]).zone
  /\ \A i, j \in 1 .. Len(zones) : i < j => Earlier(opened[i], opened[j])
  /\ H = {opened[i] : i \in 1 .. Len(zones)}

LEMMA StackPushes ==
  ASSUME NEW b \in Bodies, NEW zones, NEW opened, NEW H, Stacked(b, zones, opened, H),
         NEW pt \in Enters(b), H \subseteq Behind(b, pt)
  PROVE  \E more : Stacked(b, Append(zones, At(b, pt).zone), more, H \cup {pt})
<1> DEFINE n == Len(zones)
           deeper == Append(zones, At(b, pt).zone)
           more == [i \in 1 .. n + 1 |-> IF i = n + 1 THEN pt ELSE opened[i]]
<1>1. zones \in Seq(Zones) /\ n \in Nat /\ At(b, pt).zone \in Zones
  BY ZonesAssumption DEF Stacked
<1>2. /\ deeper \in Seq(Zones) /\ Len(deeper) = n + 1
      /\ \A i \in 1 .. n : deeper[i] = zones[i]
      /\ deeper[n + 1] = At(b, pt).zone
  BY <1>1
<1>3. /\ opened \in [1 .. n -> Enters(b)]
      /\ \A i \in 1 .. n : zones[i] = At(b, opened[i]).zone
      /\ \A i, j \in 1 .. n : i < j => Earlier(opened[i], opened[j])
      /\ H = {opened[i] : i \in 1 .. n}
  BY DEF Stacked
<1>4. \A i \in 1 .. n : Earlier(opened[i], pt)
  BY <1>3 DEF Behind
<1> HIDE DEF n, deeper
<1>5. /\ more \in [1 .. n + 1 -> Enters(b)]
      /\ \A i \in 1 .. n : more[i] = opened[i] /\ i \in 1 .. n + 1
      /\ more[n + 1] = pt /\ n + 1 \in 1 .. n + 1
      /\ \A i \in 1 .. n + 1 : i \in 1 .. n \/ i = n + 1
  BY <1>1, <1>3
<1> HIDE DEF more
<1>6. \A i \in 1 .. n + 1 : deeper[i] = At(b, more[i]).zone
  BY <1>2, <1>3, <1>5
<1>7. \A i, j \in 1 .. n + 1 : i < j => Earlier(more[i], more[j])
  <2> SUFFICES ASSUME NEW i \in 1 .. n + 1, NEW j \in 1 .. n + 1, i < j
               PROVE  Earlier(more[i], more[j])
    OBVIOUS
  <2>1. i \in 1 .. n
    BY <1>1
  <2> QED  BY <1>3, <1>4, <1>5, <2>1
<1>8. H \cup {pt} = {more[i] : i \in 1 .. n + 1}
  BY <1>3, <1>5
<1>9. Stacked(b, deeper, more, H \cup {pt})
  BY <1>2, <1>5, <1>6, <1>7, <1>8 DEF Stacked
<1> QED  BY <1>9 DEF deeper

LEMMA StackTop ==
  ASSUME NEW b \in Bodies, NEW zones, NEW opened, NEW H, Stacked(b, zones, opened, H)
  PROVE  /\ H \subseteq Points(b)
         /\ zones = <<>> => H = {}
         /\ zones # <<>> => /\ Len(zones) \in 1 .. Len(zones)
                            /\ opened[Len(zones)] \in InnerOf(H)
                            /\ zones[Len(zones)] = At(b, opened[Len(zones)]).zone
                            /\ zones[Len(zones)] \in Zones
<1> DEFINE n == Len(zones)
<1>1. zones \in Seq(Zones) /\ n \in Nat /\ (zones = <<>> <=> n = 0)
  BY DEF Stacked
<1>2. /\ opened \in [1 .. n -> Enters(b)]
      /\ \A i \in 1 .. n : zones[i] = At(b, opened[i]).zone /\ zones[i] \in Zones
      /\ \A i, j \in 1 .. n : i < j => Earlier(opened[i], opened[j])
      /\ H = {opened[i] : i \in 1 .. n}
  BY <1>1 DEF Stacked
<1> HIDE DEF n
<1>3. H \subseteq Points(b)
  BY <1>2 DEF Enters
<1>4. n = 0 => H = {}
  BY <1>2
<1>5. n # 0 => n \in 1 .. n /\ \A i \in 1 .. n : i = n \/ i < n
  BY <1>1
<1>6. n # 0 => opened[n] \in InnerOf(H)
  BY <1>2, <1>5 DEF InnerOf
<1> QED  BY <1>1, <1>2, <1>3, <1>4, <1>5, <1>6 DEF n

LEMMA StackPops ==
  ASSUME NEW b \in Bodies, NEW zones, NEW opened, NEW H, Stacked(b, zones, opened, H),
         NEW h \in InnerOf(H)
  PROVE  /\ zones # <<>> /\ zones[Len(zones)] = At(b, h).zone
         /\ \E fewer : Stacked(b, SubSeq(zones, 1, Len(zones) - 1), fewer, H \ {h})
<1> DEFINE n == Len(zones)
           outer == SubSeq(zones, 1, n - 1)
           fewer == [i \in 1 .. n - 1 |-> opened[i]]
<1>1. /\ zones # <<>> /\ H \subseteq Points(b)
      /\ n \in 1 .. n /\ opened[n] \in InnerOf(H) /\ zones[n] = At(b, opened[n]).zone
  <2>1. h \in H
    BY DEF InnerOf
  <2> QED  BY <2>1, StackTop
<1>2. h = opened[n]
  BY <1>1, OneInner
<1>3. zones \in Seq(Zones) /\ n \in Nat
  BY DEF Stacked
<1>4. outer \in Seq(Zones) /\ Len(outer) = n - 1 /\ \A i \in 1 .. n - 1 : outer[i] = zones[i]
  BY <1>1, <1>3
<1>5. /\ opened \in [1 .. n -> Enters(b)]
      /\ \A i \in 1 .. n : zones[i] = At(b, opened[i]).zone
      /\ \A i, j \in 1 .. n : i < j => Earlier(opened[i], opened[j])
      /\ H = {opened[i] : i \in 1 .. n}
  BY DEF Stacked
<1> HIDE DEF n, outer
<1>6. \A i \in 1 .. n - 1 : i \in 1 .. n /\ i < n
  BY <1>3
<1>7. /\ fewer \in [1 .. n - 1 -> Enters(b)]
      /\ \A i \in 1 .. n - 1 : fewer[i] = opened[i]
  BY <1>5, <1>6
<1> HIDE DEF fewer
<1>8. /\ \A i \in 1 .. n - 1 : outer[i] = At(b, fewer[i]).zone
      /\ \A i, j \in 1 .. n - 1 : i < j => Earlier(fewer[i], fewer[j])
  BY <1>4, <1>5, <1>6, <1>7
<1>9. H \ {h} = {fewer[i] : i \in 1 .. n - 1}
  <2>1. \A i \in 1 .. n : i = n \/ i \in 1 .. n - 1
    BY <1>3
  <2>2. \A i \in 1 .. n - 1 : opened[i] # h
    <3> SUFFICES ASSUME NEW i \in 1 .. n - 1 PROVE opened[i] # h
      OBVIOUS
    <3>1. Earlier(opened[i], opened[n]) /\ opened[i] \in Points(b)
      BY <1>1, <1>5, <1>6 DEF Enters
    <3> QED  BY <1>2, <3>1, EarlierOrders
  <2>3. \A g : g \in H <=> \E i \in 1 .. n : g = opened[i]
    BY <1>5
  <2>4. \A g : g \in H \ {h} <=> \E i \in 1 .. n - 1 : g = fewer[i]
    BY <1>2, <1>6, <1>7, <2>1, <2>2, <2>3
  <2> QED  BY <2>4
<1>10. Stacked(b, outer, fewer, H \ {h})
  BY <1>4, <1>7, <1>8, <1>9 DEF Stacked
<1> QED  BY <1>1, <1>2, <1>10 DEF outer, n


\* What one step of the walk makes of the zones.
LEMMA PassedZones ==
  ASSUME NEW b \in Bodies, NEW c, c.at \in Points(b)
  PROVE  LET next == StepOf(b, c)
             name == At(b, c.at).zone
         IN  /\ next.at = IF AtTerm(b, c.at) THEN <<c.at[1] + 1, 0>> ELSE <<c.at[1], c.at[2] + 1>>
             /\ c.notes \subseteq next.notes
             /\ c.at \notin Enters(b) \cup Exits(b) => next.zones = c.zones
             /\ c.at \in Enters(b) => next.zones = Append(c.zones, name)
             /\ c.at \in Exits(b) /\ c.zones # <<>> /\ c.zones[Len(c.zones)] = name =>
                  /\ next.zones = SubSeq(c.zones, 1, Len(c.zones) - 1)
                  /\ Escapes(b, c, name) => next.notes # {}
             /\ Writes(b, c.at) = {} => next.tags = c.tags
             /\ \A l \in Writes(b, c.at) : next.tags = TaggedIn(b, c.zones, c.tags, l)
<1> DEFINE pt == c.at
           ins == At(b, pt)
           next == StepOf(b, c)
<1>1. pt[2] # 0
  BY FollowStays
<1>2. Writes(b, pt) = InstrDefs(ins)
  BY DEF Writes
<1>3. pt \in Enters(b) <=> ins.op = "zone_enter"
  BY DEF Enters
<1>4. pt \in Exits(b) <=> ins.op = "zone_exit"
  BY DEF Exits
<1>5. CASE AtTerm(b, pt)
  <2>1. next = BlockEnd(b, c)
    BY <1>1, <1>5 DEF StepOf
  <2>2. /\ next.at = <<pt[1] + 1, 0>> /\ c.notes \subseteq next.notes
        /\ next.zones = c.zones /\ next.tags = c.tags
    BY <2>1 DEF BlockEnd
  <2>3. ins.op \in TerminatorOps
    BY <1>5, PointFacts
  <2>4. InstrDefs(ins) = {} /\ ins.op \notin {"zone_enter", "zone_exit"}
    BY <2>3 DEF TerminatorOps, InstrDefs
  <2> HIDE DEF next, ins
  <2> QED  BY <1>2, <1>3, <1>4, <1>5, <2>2, <2>4 DEF next, ins
<1>6. CASE ~AtTerm(b, pt)
  <2>1. ins.op \in InstructionOps
    BY <1>6, PointFacts
  <2>2. CASE ins.op \in {"assign", "call"}
    <3>1. next = Computing(b, c, ins)
      BY <1>1, <1>6, <2>2 DEF StepOf
    <3>2. /\ next.at = <<pt[1], pt[2] + 1>> /\ c.notes \subseteq next.notes /\ next.zones = c.zones
          /\ next.tags = IF ins.dst = NoLocal THEN c.tags ELSE TaggedIn(b, c.zones, c.tags, ins.dst)
      BY <3>1 DEF Computing, After
    <3>3. InstrDefs(ins) = {ins.dst} \ {NoLocal}
      BY <2>2 DEF InstrDefs
    <3>4. InstrDefs(ins) = {} => next.tags = c.tags
      BY <3>2, <3>3
    <3>5. \A l \in InstrDefs(ins) : next.tags = TaggedIn(b, c.zones, c.tags, l)
      BY <3>2, <3>3
    <3> HIDE DEF next, ins
    <3> QED  BY <1>2, <1>3, <1>4, <1>6, <2>2, <3>2, <3>4, <3>5 DEF next, ins
  <2>3. CASE ins.op = "ref"
    <3>1. next = Borrowing(b, c, ins)
      BY <1>1, <1>6, <2>3 DEF StepOf
    <3>2. /\ next.at = <<pt[1], pt[2] + 1>> /\ c.notes \subseteq next.notes /\ next.zones = c.zones
          /\ next.tags = TaggedIn(b, c.zones, c.tags, ins.dst)
      BY <3>1 DEF Borrowing, After
    <3>3. InstrDefs(ins) = {ins.dst}
      BY <2>3, PointFacts DEF InstrDefs
    <3> HIDE DEF next, ins
    <3> QED  BY <1>2, <1>3, <1>4, <1>6, <2>3, <3>2, <3>3 DEF next, ins
  <2>4. CASE ins.op \in {"zone_enter", "zone_exit", "assert"}
    <3>1. InstrDefs(ins) = {}
      BY <2>4 DEF InstrDefs
    <3>2. CASE ins.op = "zone_enter"
      <4>1. next = Entering(b, c, ins)
        BY <1>1, <1>6, <3>2 DEF StepOf
      <4>2. /\ next.at = <<pt[1], pt[2] + 1>> /\ next.notes = c.notes
            /\ next.zones = Append(c.zones, ins.zone) /\ next.tags = c.tags
        BY <4>1 DEF Entering, After
      <4> HIDE DEF next, ins
      <4> QED  BY <1>2, <1>3, <1>4, <1>6, <3>1, <3>2, <4>2 DEF next, ins
    <3>3. CASE ins.op = "zone_exit"
      <4>1. next = IF Innermost(c, ins) THEN Leaving(b, c, ins) ELSE Skipping(b, c)
        BY <1>1, <1>6, <3>3 DEF StepOf
      <4>2. /\ next.at = <<pt[1], pt[2] + 1>> /\ c.notes \subseteq next.notes /\ next.tags = c.tags
        BY <4>1 DEF Leaving, Skipping, After
      <4>3. c.zones # <<>> /\ c.zones[Len(c.zones)] = ins.zone =>
              /\ next.zones = SubSeq(c.zones, 1, Len(c.zones) - 1)
              /\ Escapes(b, c, ins.zone) => next.notes # {}
        <5> SUFFICES ASSUME Innermost(c, ins)
                     PROVE  /\ next.zones = SubSeq(c.zones, 1, Len(c.zones) - 1)
                            /\ Escapes(b, c, ins.zone) => next.notes # {}
          BY DEF Innermost
        <5>1. next = Leaving(b, c, ins)
          BY <4>1
        <5>2. /\ next.zones = SubSeq(c.zones, 1, Len(c.zones) - 1)
              /\ next.notes = IF Escapes(b, c, ins.zone) THEN c.notes \cup {Note("zone_escape", ins.zone)}
                                                         ELSE c.notes
          BY <5>1 DEF Leaving
        <5>3. \A N, x : N \cup {x} # {}
          OBVIOUS
        <5> HIDE DEF next
        <5> QED  BY <5>2, <5>3
      <4> HIDE DEF next, ins
      <4> QED  BY <1>2, <1>3, <1>4, <1>6, <3>1, <3>3, <4>2, <4>3 DEF next, ins
    <3>4. CASE ins.op = "assert"
      <4>1. next = Skipping(b, c)
        BY <1>1, <1>6, <3>4 DEF StepOf
      <4>2. /\ next.at = <<pt[1], pt[2] + 1>> /\ next.notes = c.notes
            /\ next.zones = c.zones /\ next.tags = c.tags
        BY <4>1 DEF Skipping, After
      <4> HIDE DEF next, ins
      <4> QED  BY <1>2, <1>3, <1>4, <1>6, <3>1, <3>4, <4>2 DEF next, ins
    <3> QED  BY <2>4, <3>2, <3>3, <3>4
  <2> QED  BY <2>1, <2>2, <2>3, <2>4 DEF InstructionOps
<1> QED  BY <1>5, <1>6

-----------------------------------------------------------------------------
(* What a zone has allocated does not outlive it *)

Nested(b, entry, c) ==
  \E opened : Stacked(b, c.zones, opened, OpenIn(b, entry, Behind(b, c.at)))

\* What has been written where zones are open is tagged with the innermost.
TaggedOK(b, entry, c) ==
  \A pt \in Behind(b, c.at) : \A l \in Writes(b, pt) :
    Allocatable(b, l) /\ OpenIn(b, entry, Behind(b, pt)) # {} =>
      \E h \in InnerAt(b, entry, pt) : l \in c.tags[At(b, h).zone]

\* No reference to what was written when its zone was the innermost reaches the exit.
ContainedAt(b, entry, e) ==
  \A pt \in Behind(b, e) : \A l \in Writes(b, pt) :
    Allocatable(b, l) /\ entry[e] \in InnerAt(b, entry, pt) =>
      \A w \in BorrowsOf(b) : w.local = l => ~Reaches(w.region, e[1])

WalkedZones(b, entry, c) ==
  /\ c.at[1] \in Blocks(b) => c.at = <<c.at[1], 0>> \/ c.at \in Points(b)
  /\ DOMAIN c.tags = Zones
  /\ Nested(b, entry, c)
  /\ TaggedOK(b, entry, c)
  /\ c.notes = {} => \A e \in Exits(b) \cap Behind(b, c.at) : ContainedAt(b, entry, e)

LEMMA BeginsNested ==
  ASSUME NEW b \in Bodies, NEW entry \in Nestings(b)
  PROVE  WalkedZones(b, entry, Begin(b))
<1> DEFINE c == Begin(b)
<1>1. /\ c.at = <<0, 0>> /\ c.zones = <<>> /\ c.tags = NoAllocations
  BY DEF Begin
<1>2. Behind(b, c.at) = {}
  BY <1>1, EntryIsPoint, BehindGrows
<1>3. DOMAIN c.tags = Zones
  BY <1>1 DEF NoAllocations
<1>4. Nested(b, entry, c)
  <2>1. OpenIn(b, entry, {}) = {}
    BY DEF OpenIn
  <2> DEFINE none == [i \in {} |-> 0]
  <2>2. Stacked(b, <<>>, none, {})
    <3>1. Len(<<>>) = 0 /\ <<>> \in Seq(Zones) /\ 1 .. 0 = {}
      OBVIOUS
    <3>2. none \in [{} -> Enters(b)] /\ {none[i] : i \in {}} = {}
      OBVIOUS
    <3> HIDE DEF none
    <3> QED  BY <3>1, <3>2 DEF Stacked
  <2> HIDE DEF none
  <2>3. Stacked(b, c.zones, none, OpenIn(b, entry, Behind(b, c.at)))
    BY <1>1, <1>2, <2>1, <2>2
  <2> QED  BY <2>3 DEF Nested
<1>5. WalkedZones(b, entry, c)
  <2> HIDE DEF c
  <2> QED  BY <1>1, <1>2, <1>3, <1>4 DEF WalkedZones, TaggedOK
<1> QED  BY <1>5

LEMMA EntersNested ==
  ASSUME NEW b \in Bodies, NEW entry \in Nestings(b),
         NEW c, c.at[1] \in Blocks(b), c.at = <<c.at[1], 0>>, WalkedZones(b, entry, c)
  PROVE  WalkedZones(b, entry, StepOf(b, c))
<1> DEFINE next == StepOf(b, c)
<1>1. next = BlockEntry(b, c)
  <2>1. c.at[2] = 0
    OBVIOUS
  <2> QED  BY <2>1 DEF StepOf
<1>2. /\ next.at = <<c.at[1], 1>> /\ next.zones = c.zones /\ next.tags = c.tags
      /\ c.notes \subseteq next.notes
  BY <1>1 DEF BlockEntry
<1>3. next.at \in Points(b)
  BY <1>2, BodyFacts, PointsAre
<1>4. Behind(b, next.at) = Behind(b, c.at)
  <2>1. \A p : p = <<c.at[1], 1>> /\ p \in Points(b) => Behind(b, <<c.at[1], 1>>) = Behind(b, <<c.at[1], 0>>)
    <3> TAKE p
    <3> HAVE p = <<c.at[1], 1>> /\ p \in Points(b)
    <3>1. p[1] = c.at[1]
      OBVIOUS
    <3>2. Behind(b, <<p[1], 1>>) = Behind(b, <<p[1], 0>>)
      BY BehindGrows
    <3> QED  BY <3>1, <3>2
  <2> QED  BY <1>2, <1>3, <2>1
<1>5. WalkedZones(b, entry, next)
  <2> HIDE DEF next
  <2>1. Nested(b, entry, next) /\ TaggedOK(b, entry, next)
    BY <1>2, <1>4 DEF WalkedZones, Nested, TaggedOK
  <2>2. next.notes = {} => c.notes = {}
    BY <1>2
  <2> QED  BY <1>2, <1>3, <1>4, <2>1, <2>2 DEF WalkedZones
<1> QED  BY <1>5


LEMMA PassesNested ==
  ASSUME NEW b \in Bodies, NEW entry \in Nestings(b),
         NEW c, c.at \in Points(b), WalkedZones(b, entry, c)
  PROVE  WalkedZones(b, entry, StepOf(b, c))
<1> DEFINE next == StepOf(b, c)
           pt == c.at
           name == At(b, pt).zone
           H == OpenIn(b, entry, Behind(b, pt))
           K == OpenIn(b, entry, Behind(b, next.at))
<1>1. /\ next.at = IF AtTerm(b, pt) THEN <<pt[1] + 1, 0>> ELSE <<pt[1], pt[2] + 1>>
      /\ c.notes \subseteq next.notes
      /\ pt \notin Enters(b) \cup Exits(b) => next.zones = c.zones
      /\ pt \in Enters(b) => next.zones = Append(c.zones, name)
      /\ pt \in Exits(b) /\ c.zones # <<>> /\ c.zones[Len(c.zones)] = name =>
           /\ next.zones = SubSeq(c.zones, 1, Len(c.zones) - 1)
           /\ Escapes(b, c, name) => next.notes # {}
      /\ Writes(b, pt) = {} => next.tags = c.tags
      /\ \A l \in Writes(b, pt) : next.tags = TaggedIn(b, c.zones, c.tags, l)
  BY PassedZones
<1>2. Behind(b, next.at) = Behind(b, pt) \cup {pt}
  <2> HIDE DEF next, pt
  <2> QED  BY <1>1, BehindGrows DEF pt
<1>3. /\ pt \in Enters(b) => K = H \cup {pt}
      /\ pt \in Exits(b) => entry[pt] \in InnerOf(H) /\ K = H \ {entry[pt]}
      /\ pt \notin Enters(b) \cup Exits(b) => K = H
  BY <1>2, OpenMoves DEF InnerAt
<1>4. PICK opened : Stacked(b, c.zones, opened, H)
  BY DEF WalkedZones, Nested
<1>5. pt \in Exits(b) => /\ entry[pt] \in Enters(b) /\ At(b, entry[pt]).zone = name
  BY DEF Nestings
<1>6. /\ DOMAIN c.tags = Zones /\ TaggedOK(b, entry, c)
      /\ c.notes = {} => \A e \in Exits(b) \cap Behind(b, pt) : ContainedAt(b, entry, e)
  BY DEF WalkedZones
<1> HIDE DEF next, H, K, name
<1>7. pt \in Exits(b) => /\ c.zones # <<>> /\ c.zones[Len(c.zones)] = name
                         /\ \E fewer : Stacked(b, SubSeq(c.zones, 1, Len(c.zones) - 1), fewer, K)
  <2> SUFFICES ASSUME pt \in Exits(b)
               PROVE  /\ c.zones # <<>> /\ c.zones[Len(c.zones)] = name
                      /\ \E fewer : Stacked(b, SubSeq(c.zones, 1, Len(c.zones) - 1), fewer, K)
    OBVIOUS
  <2>1. entry[pt] \in InnerOf(H) /\ K = H \ {entry[pt]}
    BY <1>3
  <2>2. /\ c.zones # <<>> /\ c.zones[Len(c.zones)] = At(b, entry[pt]).zone
        /\ \E fewer : Stacked(b, SubSeq(c.zones, 1, Len(c.zones) - 1), fewer, H \ {entry[pt]})
    BY <1>4, <2>1, StackPops
  <2> QED  BY <1>5, <2>1, <2>2
<1>8. \E now : Stacked(b, next.zones, now, K)
  <2>1. CASE pt \in Enters(b)
    <3>1. H \subseteq Behind(b, pt)
      BY DEF H, OpenIn
    <3>2. \E more : Stacked(b, Append(c.zones, name), more, H \cup {pt})
      BY <1>4, <2>1, <3>1, StackPushes DEF name
    <3> QED  BY <1>1, <1>3, <2>1, <3>2
  <2>2. CASE pt \in Exits(b)
    BY <1>1, <1>7, <2>2
  <2>3. CASE pt \notin Enters(b) \cup Exits(b)
    BY <1>1, <1>3, <1>4, <2>3
  <2> QED  BY <2>1, <2>2, <2>3
<1>9. /\ DOMAIN next.tags = Zones
      /\ \A z \in Zones : c.tags[z] \subseteq next.tags[z]
  <2>1. CASE Writes(b, pt) = {}
    BY <1>1, <1>6, <2>1
  <2>2. ASSUME NEW l \in Writes(b, pt)
        PROVE  DOMAIN next.tags = Zones /\ \A z \in Zones : c.tags[z] \subseteq next.tags[z]
    <3>1. next.tags = TaggedIn(b, c.zones, c.tags, l)
      BY <1>1
    <3> QED  BY <1>6, <3>1 DEF TaggedIn
  <2> QED  BY <2>1, <2>2
<1>10. TaggedOK(b, entry, next)
  <2> SUFFICES ASSUME NEW q \in Behind(b, next.at), NEW l \in Writes(b, q), Allocatable(b, l),
                      OpenIn(b, entry, Behind(b, q)) # {}
               PROVE  \E h \in InnerAt(b, entry, q) : l \in next.tags[At(b, h).zone]
    BY DEF TaggedOK
  <2>1. CASE q \in Behind(b, pt)
    <3>1. PICK h \in InnerAt(b, entry, q) : l \in c.tags[At(b, h).zone]
      BY <1>6, <2>1 DEF TaggedOK
    <3>2. At(b, h).zone \in Zones
      BY ZonesAssumption DEF InnerAt, InnerOf, OpenIn
    <3> QED  BY <1>9, <3>1, <3>2
  <2>2. CASE q = pt
    <3>1. H # {}
      BY <2>2 DEF H
    <3>2. /\ c.zones # <<>> /\ opened[Len(c.zones)] \in InnerOf(H)
          /\ c.zones[Len(c.zones)] = At(b, opened[Len(c.zones)]).zone
          /\ c.zones[Len(c.zones)] \in Zones
      BY <1>4, <3>1, StackTop
    <3>3. next.tags = [c.tags EXCEPT ![c.zones[Len(c.zones)]] = @ \cup {l}]
      BY <1>1, <2>2, <3>2 DEF TaggedIn
    <3>4. l \in next.tags[At(b, opened[Len(c.zones)]).zone]
      BY <1>6, <3>2, <3>3
    <3>5. opened[Len(c.zones)] \in InnerAt(b, entry, q)
      BY <2>2, <3>2 DEF InnerAt, H
    <3> QED  BY <3>4, <3>5
  <2> QED  BY <1>2, <2>1, <2>2
<1>11. ASSUME next.notes = {}, NEW e \in Exits(b) \cap Behind(b, next.at)
       PROVE  ContainedAt(b, entry, e)
  <2>1. c.notes = {}
    BY <1>1, <1>11
  <2>2. CASE e \in Behind(b, pt)
    BY <1>6, <2>1, <2>2
  <2>3. CASE e = pt
    <3> SUFFICES ASSUME NEW q \in Behind(b, pt), NEW l \in Writes(b, q), Allocatable(b, l),
                        entry[pt] \in InnerAt(b, entry, q),
                        NEW w \in BorrowsOf(b), w.local = l, Reaches(w.region, pt[1])
                 PROVE  FALSE
      BY <2>3 DEF ContainedAt
    <3>1. OpenIn(b, entry, Behind(b, q)) # {}
      BY DEF InnerAt, InnerOf
    <3>2. PICK h \in InnerAt(b, entry, q) : l \in c.tags[At(b, h).zone]
      BY <1>6, <3>1 DEF TaggedOK
    <3>3. h = entry[pt]
      <4>1. OpenIn(b, entry, Behind(b, q)) \subseteq Points(b)
        BY DEF OpenIn, Enters
      <4> QED  BY <4>1, OneInner DEF InnerAt
    <3>4. l \in c.tags[name]
      BY <1>5, <2>3, <3>2, <3>3
    <3>5. Escapes(b, c, name)
      BY <3>4 DEF Escapes
    <3> QED  BY <1>1, <1>7, <1>11, <2>3, <3>5
  <2> QED  BY <1>2, <2>2, <2>3
<1>12. next.at[1] \in Blocks(b) => next.at = <<next.at[1], 0>> \/ next.at \in Points(b)
  <2>1. CASE AtTerm(b, pt)
    <3>1. next.at = <<pt[1] + 1, 0>>
      BY <1>1, <2>1
    <3> QED  BY <3>1
  <2>2. CASE ~AtTerm(b, pt)
    <3>1. next.at \in Follow(b, pt)
      BY <1>1, <2>2 DEF Follow
    <3> QED  BY <3>1, FollowStays
  <2> QED  BY <2>1, <2>2
<1>13. WalkedZones(b, entry, next)
  BY <1>8, <1>9, <1>10, <1>11, <1>12 DEF WalkedZones, Nested, K
<1> QED  BY <1>13 DEF next

LEMMA WalksNested ==
  ASSUME NEW b \in Bodies, NEW entry \in Nestings(b), NEW m \in Nat, NEW tr, Trace(b, m, tr)
  PROVE  WalkedZones(b, entry, tr[m])
<1> DEFINE T == {k \in Nat : k <= m => WalkedZones(b, entry, tr[k])}
<1>1. 0 \in T
  BY BeginsNested DEF Trace
<1>2. ASSUME NEW k \in 1 .. m, k - 1 \in T PROVE k \in T
  <2>1. k - 1 \in 0 .. m - 1 /\ k - 1 + 1 = k
    OBVIOUS
  <2>2. tr[k - 1].at[1] \in Blocks(b) /\ tr[k] = StepOf(b, tr[k - 1])
    BY <2>1 DEF Trace
  <2>3. WalkedZones(b, entry, tr[k - 1])
    BY <1>2
  <2>4. tr[k - 1].at = <<tr[k - 1].at[1], 0>> \/ tr[k - 1].at \in Points(b)
    BY <2>2, <2>3 DEF WalkedZones
  <2> QED  BY <2>2, <2>3, <2>4, EntersNested, PassesNested
<1>3. m \in T
  <2> HIDE DEF T
  <2>1. 0 .. m \subseteq T
    BY <1>1, <1>2, BoundedInduction
  <2> QED  BY <2>1
<1> QED  BY <1>3


\* A reference is live only in blocks its borrow reaches.
LEMMA LiveIsReached ==
  ASSUME ForgeOK, AnalysisOK, WalkOK, HistoryOK, pc = "returned",
         NEW s \in RefSites(mir), NEW pt \in ReferenceLive(mir, s, AnalysedReads)
  PROVE  \E w \in BorrowsOf(mir) : w.local = At(mir, s).of /\ pt[1] \in w.region
<1>1. \E w \in InBlock(pt[1]) : w.site = s /\ w.local = At(mir, s).of /\ w.is_mut = At(mir, s).mut
  BY BorrowOf DEF IInv
<1>2. borrows = BorrowsOf(mir)
  BY DEF HistoryOK
<1> QED  BY <1>1, <1>2 DEF InBlock

\* What is written between an entry and its exit has an innermost zone there, one whose
\* exit is not later than the given one.
LEMMA InnerExit ==
  ASSUME NEW b \in Bodies, NEW entry \in Nestings(b), NEW e \in Exits(b),
         NEW pt \in Between(b, entry[e], e), Writes(b, pt) # {}
  PROVE  /\ OpenIn(b, entry, Behind(b, pt)) # {}
         /\ \A h \in InnerAt(b, entry, pt) : \E f \in Exits(b) :
              entry[f] = h /\ pt \in Behind(b, f) /\ (f = e \/ Earlier(f, e))
<1> DEFINE g == entry[e]
           H == OpenIn(b, entry, Behind(b, pt))
<1>1. /\ g \in Enters(b) /\ Earlier(g, e)
      /\ \A k \in Enters(b) \cap Between(b, g, e) :
           \E f \in Exits(b) \cap Between(b, g, e) : entry[f] = k
      /\ \A f \in Exits(b) : entry[f] = g => f = e
  BY DEF Nestings
<1>2. pt \in Points(b) /\ Earlier(g, pt) /\ Earlier(pt, e)
  BY DEF Between
<1>3. Enters(b) \subseteq Points(b) /\ Exits(b) \subseteq Points(b)
  BY DEF Enters, Exits
<1>4. pt \notin Exits(b)
  <2>1. InstrDefs(At(b, pt)) # {}
    BY DEF Writes
  <2> QED  BY <2>1 DEF Exits, InstrDefs
<1>5. g \in H
  <2>1. g \in Behind(b, pt)
    BY <1>1, <1>2, <1>3 DEF Behind
  <2>2. ASSUME NEW f \in Exits(b) \cap Behind(b, pt) PROVE entry[f] # g
    <3>1. Earlier(f, pt)
      BY DEF Behind
    <3>2. ~Earlier(e, pt)
      BY <1>2, <1>3, EarlierOrders
    <3> QED  BY <1>1, <3>1, <3>2
  <2> QED  BY <1>1, <2>1, <2>2 DEF OpenIn
<1>6. ASSUME NEW h \in InnerOf(H)
      PROVE  \E f \in Exits(b) : entry[f] = h /\ pt \in Behind(b, f) /\ (f = e \/ Earlier(f, e))
  <2>1. /\ h \in Enters(b) /\ h \in Points(b) /\ Earlier(h, pt)
        /\ \A f \in Exits(b) \cap Behind(b, pt) : entry[f] # h
    BY <1>3 DEF InnerOf, OpenIn, Behind
  <2>2. CASE h = g
    <3>1. pt \in Behind(b, e)
      BY <1>2 DEF Behind
    <3> QED  BY <2>2, <3>1
  <2>3. CASE h # g
    <3>1. Earlier(g, h)
      BY <1>5, <2>3 DEF InnerOf
    <3>2. Earlier(h, e)
      BY <1>2, <1>3, <2>1, EarlierOrders
    <3>3. h \in Enters(b) \cap Between(b, g, e)
      BY <2>1, <3>1, <3>2 DEF Between
    <3>4. PICK f \in Exits(b) \cap Between(b, g, e) : entry[f] = h
      BY <1>1, <3>3
    <3>5. f \in Points(b) /\ Earlier(f, e) /\ f \in Exits(b)
      BY DEF Between
    <3>6. ~Earlier(f, pt) /\ f # pt
      BY <1>4, <2>1, <3>4, <3>5 DEF Behind
    <3>7. pt \in Behind(b, f)
      BY <1>2, <3>5, <3>6, EarlierOrders DEF Behind
    <3> QED  BY <3>4, <3>5, <3>7
  <2> QED  BY <2>2, <2>3
<1> QED  BY <1>5, <1>6 DEF InnerAt

LEMMA FollowIsLater ==
  ASSUME NEW b \in Bodies, StraightLine(b), NEW e \in Exits(b), NEW q \in Follow(b, e)
  PROVE  q[1] \in Nat /\ q[1] >= e[1]
<1>1. e \in Points(b) /\ e[1] \in Nat
  BY FollowStays DEF Exits, Blocks
<1> QED  BY <1>1, LineFollow

\* In an accepted forge whose blocks follow one another no reference to what was allocated
\* while a zone was entered, in a zone inside it too, is live after the zone's exit.
THEOREM ZonesDoNotLeak == Spec => []AcceptedZonesDoNotLeak
<1>1. ForgeOK /\ AnalysisOK /\ WalkOK /\ HistoryOK => AcceptedZonesDoNotLeak
  <2> SUFFICES ASSUME ForgeOK, AnalysisOK, WalkOK, HistoryOK, Accepted, StraightLine(mir),
                      NEW entry \in Nestings(mir), NEW e \in Exits(mir), NEW s \in RefSites(mir),
                      Allocatable(mir, At(mir, s).of),
                      NEW pt \in Between(mir, entry[e], e), At(mir, s).of \in Writes(mir, pt),
                      NEW q \in Follow(mir, e), q \in ReferenceLive(mir, s, AnalysedReads)
               PROVE  FALSE
    BY DEF AcceptedZonesDoNotLeak
  <2> DEFINE l == At(mir, s).of
  <2>1. mir \in Bodies /\ pc = "returned" /\ OwnErrors = {}
    BY ForgeIsBody DEF Accepted
  <2>2a. PICK m \in Nat : \E tr : Trace(mir, m, tr) /\ tr[m] = Now
    BY <2>1 DEF HistoryOK
  <2>2. PICK tr : Trace(mir, m, tr) /\ tr[m] = Now
    BY <2>2a
  <2>3. WalkedZones(mir, entry, Now)
    BY <2>1, <2>2, WalksNested
  <2>4. Now.at = at /\ Now.notes = {} /\ Now.tags = zone_allocations
    BY <2>1 DEF Now
  <2>5. Behind(mir, at) = Points(mir)
    <3>1. mir.size \in Nat /\ at[1] = mir.size
      BY <2>1, BodyFacts DEF WalkOK
    <3> QED  BY <2>1, <3>1, AllBehind
  <2>6. pt \in Points(mir) /\ Exits(mir) \subseteq Points(mir)
    BY DEF Between, Exits
  <2>7. PICK h \in InnerAt(mir, entry, pt) : TRUE
    <3>1. OpenIn(mir, entry, Behind(mir, pt)) # {}
      BY <2>1, InnerExit
    <3> QED  BY <2>3, <2>4, <2>5, <2>6, <3>1 DEF WalkedZones, TaggedOK
  <2>8. PICK f \in Exits(mir) : entry[f] = h /\ pt \in Behind(mir, f) /\ (f = e \/ Earlier(f, e))
    BY <2>1, InnerExit
  <2>9. ContainedAt(mir, entry, f)
    BY <2>3, <2>4, <2>5, <2>6 DEF WalkedZones
  <2>10. PICK w \in BorrowsOf(mir) : w.local = l /\ q[1] \in w.region
    BY <2>1, LiveIsReached
  <2>11. ~Reaches(w.region, f[1])
    BY <2>7, <2>8, <2>9, <2>10 DEF ContainedAt
  <2>12. q[1] >= f[1]
    <3>1. q[1] \in Nat /\ q[1] >= e[1]
      BY <2>1, FollowIsLater
    <3>2. f[1] \in Nat /\ e[1] \in Nat
      BY <2>1, <2>6, FollowStays DEF Blocks
    <3>3. f[1] <= e[1]
      BY <2>8, <3>2 DEF Earlier
    <3> QED  BY <3>1, <3>2, <3>3
  <2> QED  BY <2>10, <2>11, <2>12 DEF Reaches
<1>2. Init => TagsOK /\ HistoryOK
  BY DEF Init, TagsOK, HistoryOK
<1> QED  BY <1>1, <1>2, InitIInv, NextIInv, InitAnswer, NextAnswer, NextTags, NextHistory, PTL
         DEF Spec, AnswerOK, IInv

=============================================================================
