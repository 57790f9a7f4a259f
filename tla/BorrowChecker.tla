---------------------------- MODULE BorrowChecker ----------------------------
(***************************************************************************)
(* BorrowChecker of izel_borrow: check runs the liveness analysis on one   *)
(* body, infers a region for every borrow and walks the blocks once, in    *)
(* index order.  The driver keeps one checker and hands it every forge of  *)
(* the program in turn.                                                    *)
(***************************************************************************)
EXTENDS MirSemantics

CONSTANTS
  Zones,         \* zone names
  Programs       \* each program is the sequence of its forges' bodies

ASSUME ProgramsAssumption ==
  \A p \in Programs : p \in Seq(Bodies) \ {<<>>}

ASSUME ZonesAssumption ==
  \A b \in Bodies : \A pt \in Enters(b) : At(b, pt).zone \in Zones

VARIABLES
  mir, live_in, live_out, entries, node, changed, phase,  \* LivenessAnalysis
  errors,             \* the checker's error list; each tagged with the forge
                      \* whose check pushed it (the tag is ours)
  borrows,            \* active_borrows: one record per Ref instruction
  initialized,        \* locals holding a value, as far as the walk knows
  active_zones,       \* zones entered and not exited, innermost last
  zone_allocations,   \* for each zone, the locals tagged as allocated in it
  pc,                 \* "compute", "infer", "walk" or "returned"
  at,                 \* the point the walk has reached; <<n, 0>> on entry to n
  program,            \* the forges the driver walks over
  forge,              \* the index of the forge being checked
  verdicts            \* history: for each finished check its body, what it added to
                      \* the list and what it returned

liveVars == <<mir, live_in, live_out, entries, node, changed, phase>>
walkVars == <<borrows, initialized, active_zones, zone_allocations, at>>
forgeVars == <<program, forge, verdicts>>
vars == <<liveVars, walkVars, errors, pc, forgeVars>>

Liveness == INSTANCE LivenessAnalysis

Error(kind, about) == [forge |-> forge, kind |-> kind, about |-> about]

NoAllocations == [z \in Zones |-> {}]

Init ==
  /\ program \in Programs
  /\ mir = program[1]
  /\ live_in = NoLocals(mir) /\ live_out = NoLocals(mir)
  /\ entries = {} /\ node = 0 /\ changed = TRUE /\ phase = "while"
  /\ errors = {}
  /\ borrows = {}
  /\ initialized = {}
  /\ active_zones = <<>>
  /\ zone_allocations = NoAllocations
  /\ pc = "compute"
  /\ at = <<0, 0>>
  /\ forge = 1
  /\ verdicts = <<>>

\* let liveness = LivenessAnalysis::compute(mir);
ComputeLiveness ==
  /\ pc = "compute"
  /\ Liveness!Next
  /\ pc' = IF phase' = "done" THEN "infer" ELSE pc
  /\ UNCHANGED <<walkVars, errors, forgeVars>>

\* Mutants: a region without the blocks the reference is live on entry to, or of the
\* creating block alone.
RegionOfExits(site) ==
  {site[1]} \cup {n \in Blocks(mir) : At(mir, site).dst \in live_out[n]}

RegionOfSite(site) == {site[1]}

\* The region of a borrow: the block that takes the reference, and every block
\* on whose entry or exit the local holding the reference is live.
Region(site) ==
  LET place == At(mir, site).dst
  IN  {site[1]} \cup {n \in Blocks(mir) : place \in live_in[n] \cup live_out[n]}

\* Mutant: what the last forge initialized stays initialized.
StillInitialized == initialized \cup mir.args

\* Parameters are initialized at start.
InitializedAtStart == mir.args

InferBorrowRegions ==
  /\ pc = "infer"
  /\ borrows' = {[site |-> s, local |-> At(mir, s).of, is_mut |-> At(mir, s).mut,
                  region |-> Region(s)] : s \in RefSites(mir)}
  /\ initialized' = InitializedAtStart
  /\ active_zones' = <<>>
  /\ zone_allocations' = NoAllocations
  /\ at' = <<0, 0>>
  /\ pc' = "walk"
  /\ UNCHANGED <<liveVars, errors, forgeVars>>

-----------------------------------------------------------------------------
(* check_all: one walk over the blocks *)

InBlock(n) == {w \in borrows : n \in w.region}

\* The clash test made on entry to every block.
ClashErrors(n) ==
  LET Borrowed  == {w.local : w \in borrows}
      Mut(l)    == {w \in InBlock(n) : w.local = l /\ w.is_mut}
      Shared(l) == {w \in InBlock(n) : w.local = l /\ ~w.is_mut}
  IN  {Error("mut_and_shared", l) :
         l \in {k \in Borrowed : Mut(k) # {} /\ Shared(k) # {}}}
      \cup {Error("mut_twice", l) : l \in {k \in Borrowed : Cardinality(Mut(k)) > 1}}

Walking == pc = "walk" /\ at[1] \in Blocks(mir)

EnterBlock ==
  /\ Walking /\ at[2] = 0
  /\ errors' = errors \cup ClashErrors(at[1])
  /\ at' = <<at[1], 1>>
  /\ UNCHANGED <<liveVars, borrows, initialized, active_zones, zone_allocations, pc, forgeVars>>

Consumed(arg) == arg.kind = "move" /\ ~Copyable(mir, arg.local)

\* check_operand on each operand in turn, constants apart; an earlier operand may
\* already have consumed the local of a later one.
OperandErrors(args, n) ==
  LET Gone(i) == \/ args[i].local \notin initialized
                 \/ \E j \in 1 .. i - 1 : Consumed(args[j]) /\ args[j].local = args[i].local
      Borrowed(l) == \E w \in InBlock(n) : w.local = l
      Errs(kind, I) == {Error(kind, args[i].local) : i \in I}
  IN  Errs("uninit", {i \in DOMAIN args : args[i].kind # "const" /\ Gone(i)})
      \cup Errs("move_borrowed",
                {i \in DOMAIN args : args[i].kind = "move" /\ Borrowed(args[i].local)})
      \cup Errs("copy", {i \in DOMAIN args :
                           args[i].kind = "copy" /\ ~Copyable(mir, args[i].local)})

\* Mutant: a move leaves its local initialized.
NothingConsumed(args) == initialized

\* What is initialized once the operands have been read.
AfterOperands(args) == initialized \ {args[i].local : i \in {j \in DOMAIN args : Consumed(args[j])}}

\* A pointer or ADT written inside a zone is tagged as allocated in the
\* innermost one.
Tagged(l) ==
  IF active_zones # <<>> /\ Allocatable(mir, l)
  THEN [zone_allocations EXCEPT ![active_zones[Len(active_zones)]] = @ \cup {l}]
  ELSE zone_allocations

\* The walk has reached an instruction of one of these kinds and passes it.
Passing(ops) ==
  /\ Walking /\ at[2] # 0 /\ ~AtTerm(mir, at)
  /\ At(mir, at).op \in ops
  /\ at' = <<at[1], at[2] + 1>>
  /\ UNCHANGED <<liveVars, borrows, pc, forgeVars>>

\* Assign(place, Use | Binary | Unary) and Call: check the operands, then the
\* destination is initialized.
CheckAssignOrCall ==
  /\ Passing({"assign", "call"})
  /\ LET ins == At(mir, at)
     IN  /\ errors' = errors \cup OperandErrors(ins.args, at[1])
         /\ initialized' = AfterOperands(ins.args) \cup InstrDefs(ins)
         /\ zone_allocations' = IF ins.dst = NoLocal THEN zone_allocations
                                                     ELSE Tagged(ins.dst)
  /\ UNCHANGED active_zones

CheckRef ==
  /\ Passing({"ref"})
  /\ LET ins == At(mir, at)
     IN  /\ errors' = IF ins.of \in initialized THEN errors
                      ELSE errors \cup {Error("borrow_uninit", ins.of)}
         /\ initialized' = initialized \cup {ins.dst}
         /\ zone_allocations' = Tagged(ins.dst)
  /\ UNCHANGED active_zones

EnterZone ==
  /\ Passing({"zone_enter"})
  /\ active_zones' = Append(active_zones, At(mir, at).zone)
  /\ UNCHANGED <<errors, initialized, zone_allocations>>

\* Mutant: the block of the exit itself does not count.
ReachesBeyond(region, n) == \E m \in region : m > n

Reaches(region, n) == \E m \in region : m >= n

\* A zone that is not the innermost one is left alone; otherwise a borrow of
\* one of its locals that reaches this block or a later-numbered one escapes.
ExitZone ==
  /\ Passing({"zone_exit"})
  /\ LET name     == At(mir, at).zone
         Escaping == {w \in borrows : /\ w.local \in zone_allocations[name]
                                      /\ Reaches(w.region, at[1])}
         innermost == /\ active_zones # <<>>
                      /\ active_zones[Len(active_zones)] = name
     IN  IF innermost
         THEN /\ errors' = IF Escaping = {} THEN errors
                           ELSE errors \cup {Error("zone_escape", name)}
              /\ active_zones' = SubSeq(active_zones, 1, Len(active_zones) - 1)
         ELSE UNCHANGED <<errors, active_zones>>
  /\ UNCHANGED <<initialized, zone_allocations>>

SkipInstruction ==
  /\ Passing({"assert"})
  /\ UNCHANGED <<errors, initialized, active_zones, zone_allocations>>

\* Of the terminators only SwitchInt has its operand checked.
CheckTerminator ==
  /\ Walking /\ at[2] # 0 /\ AtTerm(mir, at)
  /\ LET args == IF At(mir, at).op = "switch" THEN At(mir, at).args ELSE <<>>
     IN  /\ errors' = errors \cup OperandErrors(args, at[1])
         /\ initialized' = AfterOperands(args)
  /\ at' = <<at[1] + 1, 0>>
  /\ UNCHANGED <<liveVars, borrows, active_zones, zone_allocations, pc, forgeVars>>

\* The messages the current check has pushed, and all there are.
OwnErrors == {[kind |-> e.kind, about |-> e.about] : e \in {f \in errors : f.forge = forge}}

Messages == {[kind |-> e.kind, about |-> e.about] : e \in errors}

\* check returns the whole list, which is never emptied.
ReturnResult ==
  /\ pc = "walk" /\ at[1] \notin Blocks(mir)
  /\ pc' = "returned"
  /\ verdicts' = Append(verdicts, [mir |-> mir, added |-> OwnErrors, returned |-> Messages])
  /\ UNCHANGED <<liveVars, walkVars, errors, program, forge>>

\* The driver hands the next forge to the same checker: a fresh liveness
\* analysis, but self.errors is what it was.
CheckNextForge ==
  /\ pc = "returned"
  /\ forge < Len(program)
  /\ forge' = forge + 1
  /\ mir' = program[forge + 1]
  /\ live_in' = NoLocals(mir') /\ live_out' = NoLocals(mir')
  /\ entries' = {} /\ node' = 0 /\ changed' = TRUE /\ phase' = "while"
  /\ pc' = "compute"
  /\ UNCHANGED <<walkVars, errors, program, verdicts>>

Walk == \/ EnterBlock \/ CheckAssignOrCall \/ CheckRef \/ EnterZone \/ ExitZone
        \/ SkipInstruction \/ CheckTerminator \/ ReturnResult

Next == ComputeLiveness \/ InferBorrowRegions \/ Walk \/ CheckNextForge

Spec == Init /\ [][Next]_vars /\ WF_vars(Next)

-----------------------------------------------------------------------------
(* Safety *)

\* The check of the current forge has ended and pushed no error of its own.
Accepted == pc = "returned" /\ OwnErrors = {}

\* In an accepted forge no program point has two live references to one local
\* of which one is mutable, on any path, although regions are only blocks.
AcceptedReferencesAreExclusive ==
  Accepted =>
    \A s, t \in RefSites(mir) :
      s # t /\ At(mir, s).of = At(mir, t).of /\ At(mir, s).mut =>
        ReferenceLive(mir, s, AnalysedReads) \cap ReferenceLive(mir, t, AnalysedReads) = {}

\* In an accepted forge no local is moved out while a reference to it is live.
AcceptedMovesAreUnborrowed ==
  Accepted =>
    \A pt \in Points(mir) : \A s \in RefSites(mir) :
      At(mir, s).of \in MovedAt(mir, pt) \cap AnalysedReads(mir, pt) =>
        pt \notin ReferenceLive(mir, s, AnalysedReads)

\* The walk does not look at what is asserted or returned.  An asserted condition is of a
\* type that a move leaves alone, and nothing follows a return.
SkippedMovesMatterNot(b) ==
  \A pt \in Points(b) : At(b, pt).op \in {"assert", "return"} =>
    Follow(b, pt) = {} \/ \A l \in MovedAt(b, pt) : Copyable(b, l)

\* The single walk in block order is exact when that order is the order of
\* execution: a local is reported if and only if some analysed read finds it
\* unwritten or moved out, a second operand of the same instruction included.
StraightLineReadsExact ==
  pc = "returned" /\ StraightLine(mir) /\ SkippedMovesMatterNot(mir) =>
    LET MovedTwice(pt) ==
          LET args == Operands(At(mir, pt))
          IN  {l \in OperandLocals(args) : \E i, j \in DOMAIN args :
                 /\ i < j /\ Consumed(args[i]) /\ args[j].kind # "const"
                 /\ args[i].local = l /\ args[j].local = l}
        Bad(pt) == {l \in AnalysedReads(mir, pt) :
                      MayBeUninit(mir, l, pt) \/ l \in MovedTwice(pt)}
    IN  {e.about : e \in {f \in OwnErrors : f.kind \in {"uninit", "borrow_uninit"}}}
          = UNION {Bad(pt) : pt \in Points(mir)}

\* In an accepted straight-line forge no reference to a local that is allocated in a
\* zone, in a nested one included, is live after the zone's exit.
AcceptedZonesDoNotLeak ==
  Accepted /\ StraightLine(mir) =>
    \A entry \in Nestings(mir) : \A e \in Exits(mir) : \A s \in RefSites(mir) :
      LET l == At(mir, s).of
      IN  /\ Allocatable(mir, l)
          /\ \E pt \in Between(mir, entry[e], e) : l \in Writes(mir, pt)
          => Follow(mir, e) \cap ReferenceLive(mir, s, AnalysedReads) = {}

\* Of the state a checker keeps, only its list of errors lives from one forge to
\* the next: what a check adds to the list does not depend on the forges checked
\* before.  What it returns does; see ReportsAreAboutTheForge.
AdditionsAreRepeatable ==
  \A i, j \in DOMAIN verdicts :
    verdicts[i].mir = verdicts[j].mir => verdicts[i].added = verdicts[j].added

-----------------------------------------------------------------------------
(* Claims of the documentation and of the messages that the code does not meet *)

\* "Use-after-move in non-copy contexts MUST be rejected": no analysed read of
\* an accepted forge finds its local moved out or unwritten, on any path.
AcceptedReadsAreInitialized ==
  Accepted =>
    \A pt \in Points(mir) : \A l \in AnalysedReads(mir, pt) : ~MayBeUninit(mir, l, pt)

\* "Borrow Check Error in '{f.name}'": what is printed as an error in a forge was
\* found in that forge.
ReportsAreAboutTheForge ==
  \A i \in DOMAIN verdicts : verdicts[i].returned \subseteq verdicts[i].added

=============================================================================
