---------------------------- MODULE MirSemantics ----------------------------
(***************************************************************************)
(* What the analyses of izel_borrow are about.  First the data-flow problem *)
(* LivenessAnalysis::compute solves: which locals a block reads before it  *)
(* writes them, which it writes, and the backward equations that tie every *)
(* block to its successors.  Then what executing a body can do, as         *)
(* reachability over program points, which uses none of the analyses' sets. *)
(*                                                                         *)
(* A point <<n, i>> is the moment before the i-th instruction of block n,  *)
(* or before its terminator when i is one past the last instruction.       *)
(***************************************************************************)
EXTENDS Mir, FiniteSets

CONSTANT Bodies          \* the forge bodies a run may be handed

ASSUME BodiesAssumption == \A b \in Bodies : IsBody(b)

\* get_rvalue_uses and get_operand_use: the locals an instruction reads.
\* Only assignments and calls count; an Assert reads nothing here.
InstrUses(ins) ==
  CASE ins.op \in {"assign", "call"} -> OperandLocals(ins.args)
    [] ins.op = "ref"                -> {ins.of}
    [] OTHER                         -> {}

InstrDefs(ins) ==
  IF ins.op \in {"assign", "ref", "call"} THEN {ins.dst} \ {NoLocal} ELSE {}

\* Of the terminators only SwitchInt reads; a returned operand does not count.
TermUses(term) == IF term.op = "switch" THEN OperandLocals(term.args) ELSE {}

\* get_block_uses_defs, first component: read at position i (the terminator
\* is the position after the last instruction) and not written before it.
Uses(b, n) ==
  LET code    == Code(b, n)
      end     == Len(code) + 1
      Reads(i) == IF i = end THEN TermUses(Term(b, n)) ELSE InstrUses(code[i])
  IN  {l \in Locals(b) : \E i \in 1 .. end :
          l \in Reads(i) /\ \A j \in 1 .. i - 1 : l \notin InstrDefs(code[j])}

\* get_block_uses_defs, second component.
Defs(b, n) == UNION {InstrDefs(Code(b, n)[i]) : i \in DOMAIN Code(b, n)}

\* Mutant: only what every successor needs is live.
LiveOutOnAllPaths(b, in, n) ==
  {l \in Locals(b) : \A s \in Succ(b, n) : l \in in[s]}

\* LiveOut[n] = U { LiveIn[s] | s in successors(n) }
NewLiveOut(b, in, n) == UNION {in[s] : s \in Succ(b, n)}

\* LiveIn[n] = Use[n] U (LiveOut[n] - Def[n])
NewLiveIn(b, outOfN, n) == Uses(b, n) \cup (outOfN \ Defs(b, n))

\* Both equations hold at block n.
Balanced(b, in, out, n) ==
  /\ out[n] = NewLiveOut(b, in, n)
  /\ in[n] = NewLiveIn(b, out[n], n)

\* in and out solve the equations of the whole body.
Solves(b, in, out) == \A n \in Blocks(b) : Balanced(b, in, out, n)

\* Both hash maps before anything is inserted.
NoLocals(b) == [n \in Blocks(b) |-> {}]

\* What "live" means, without equations: some path from n reads l before any
\* block on it writes l.  Readers[k] are the blocks from which such a path of
\* at most k edges starts; a shortest path repeats no block.
PathLive(b, l, n) ==
  LET Readers[k \in 0 .. b.size] ==
        IF k = 0
        THEN {m \in Blocks(b) : l \in Uses(b, m)}
        ELSE Readers[k - 1] \cup
             {m \in Blocks(b) : /\ l \notin Defs(b, m)
                                /\ Succ(b, m) \cap Readers[k - 1] # {}}
  IN  n \in Readers[b.size]

-----------------------------------------------------------------------------
(* Executions, as paths over points *)

Points(b) == UNION {{n} \X (1 .. Len(Code(b, n)) + 1) : n \in Blocks(b)}

Entry == <<0, 1>>

AtTerm(b, pt) == pt[2] = Len(Code(b, pt[1])) + 1

At(b, pt) == IF AtTerm(b, pt) THEN Term(b, pt[1]) ELSE Code(b, pt[1])[pt[2]]

Follow(b, pt) ==
  IF AtTerm(b, pt) THEN Succ(b, pt[1]) \X {1} ELSE {<<pt[1], pt[2] + 1>>}

Writes(b, pt) == InstrDefs(At(b, pt))

\* The reads the analyses look at: not those of a contract assertion or a return.
AnalysedReads(b, pt) == InstrUses(At(b, pt)) \cup TermUses(At(b, pt))

\* Points reached from start by steps that leave points satisfying Through.
Forward(b, start, Through(_)) ==
  LET Most == Cardinality(Points(b))
      Reach[k \in 0 .. Most] ==
        IF k = 0 THEN start
        ELSE LET known == Reach[k - 1]
             IN  known \cup UNION {Follow(b, p) : p \in {q \in known : Through(q)}}
  IN  Reach[Most]

\* From start on, everywhere l may still hold the value it has there.
Keeping(b, l, start) == Forward(b, start, LAMBDA p : l \notin Writes(b, p))

\* The value l holds at pt may be read later.
ReadLater(b, l, pt, Reads(_, _)) ==
  \E q \in Keeping(b, l, {pt}) : l \in Reads(b, q)

\* A value of this type is consumed by a move and must not be copied.
Copyable(b, l) == b.ty[l] \in {"prim", "ptr"}

\* What a zone can have allocated.
Allocatable(b, l) == b.ty[l] \in {"ptr", "mutptr", "adt"}

MovedAt(b, pt) ==
  {l \in Locals(b) : Move(l) \in {Operands(At(b, pt))[i] : i \in DOMAIN Operands(At(b, pt))}}

\* Where an execution can be: no step writes NoLocal.
Reachable(b) == Keeping(b, NoLocal, {Entry})

\* Some execution arrives at pt with l never written, or moved out since.
MayBeUninit(b, l, pt) ==
  \/ l \notin b.args /\ pt \in Keeping(b, l, {Entry})
  \/ \E q \in Reachable(b) :
       /\ l \in MovedAt(b, q) \ Writes(b, q)
       /\ ~Copyable(b, l)
       /\ pt \in Keeping(b, l, Follow(b, q))

\* The places where references are taken, and where the reference taken at
\* site is still in its local and will be read.
RefSites(b) == {pt \in Points(b) : At(b, pt).op = "ref"}

ReferenceLive(b, site, Reads(_, _)) ==
  {pt \in Keeping(b, At(b, site).dst, Follow(b, site)) :
     ReadLater(b, At(b, site).dst, pt, Reads)}

\* The order in which blocks and instructions are numbered.
Earlier(p, q) == p[1] < q[1] \/ (p[1] = q[1] /\ p[2] < q[2])
Between(b, p, q) == {r \in Points(b) : Earlier(p, r) /\ Earlier(r, q)}

\* The ways of giving every exit the entry into its zone so that zones nest; there is
\* one when zones were blocks of the source.
Enters(b) == {pt \in Points(b) : At(b, pt).op = "zone_enter"}
Exits(b)  == {pt \in Points(b) : At(b, pt).op = "zone_exit"}

Nestings(b) ==
  {entry \in [Exits(b) -> Enters(b)] :
     /\ \A e \in Exits(b) :
          /\ Earlier(entry[e], e) /\ At(b, entry[e]).zone = At(b, e).zone
          /\ \A g \in Enters(b) \cap Between(b, entry[e], e) :
               \E f \in Exits(b) \cap Between(b, entry[e], e) : entry[f] = g
     /\ \A e, f \in Exits(b) : entry[e] = entry[f] => e = f}

\* Every block leads to the block created after it and nowhere else.
StraightLine(b) ==
  \A n \in Blocks(b) : Succ(b, n) = IF n + 1 \in Blocks(b) THEN {n + 1} ELSE {}

=============================================================================
