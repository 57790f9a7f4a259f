--------------------------- MODULE MCBorrowChecker ---------------------------
(***************************************************************************)
(* Bodies for model checking the borrow checker: a few blocks joined in    *)
(* the shapes that branches and loops give, filled with short instruction  *)
(* sequences over an owned value x and references r and s to it.           *)
(***************************************************************************)
EXTENDS BorrowChecker, FiniteSetsExt, TLC

MCTypes == [x |-> "adt", r |-> "mutptr", s |-> "ptr", c |-> "prim"]

\* The edges of a body of Len(edges) blocks, numbered from 0.
Shape(edges) == [n \in 0 .. Len(edges) - 1 |-> edges[n + 1]]

Chain == Shape(<<{1}, {2}, {}>>)

MCShapes ==
  { Chain,
    Shape(<<{1, 2}, {2}, {}>>),       \* given without else
    Shape(<<{1}, {1, 2}, {}>>),       \* a loop on the middle block
    Shape(<<{1}, {0, 2}, {}>>),       \* a loop back to the entry
    Shape(<<{2}, {}, {1}>>) }         \* execution order is not index order

\* Blocks with two successors branch on cond, those with none end with last.
Body(shape, code, args, cond, last) ==
  [size |-> Cardinality(DOMAIN shape), ty |-> MCTypes, args |-> args,
   block |-> [n \in DOMAIN shape |->
     [code |-> code[n], succ |-> shape[n],
      term |-> CASE shape[n] = {}              -> last
                 [] Cardinality(shape[n]) = 2  ->
                      SwitchInt(Copy(cond), Max(shape[n]), Min(shape[n]))
                 [] OTHER                      -> Goto(Max(shape[n]))]]]

Use(l) == Call(NoLocal, <<l>>)

\* Borrowing: references are taken, used and overwritten, values moved.
BorrowCode ==
  { <<>>,
    <<Assign("x", <<>>)>>,
    <<Ref("r", "x", TRUE)>>,
    <<Ref("s", "x", FALSE)>>,
    <<Use(Move("r"))>>,
    <<Use(Copy("s"))>>,
    <<Use(Move("x"))>>,
    <<Use(Copy("s")), Ref("r", "x", TRUE)>>,
    <<Call(NoLocal, <<Move("x"), Move("x")>>)>>,
    <<AssertOp(Copy("s")), Call("x", <<Move("r"), Move("x")>>)>> }

BorrowBodies ==
  {Body(shape, code, {"x", "c"}, cond, Return(<<Move("x")>>)) :
     shape \in MCShapes, code \in [0 .. 2 -> BorrowCode], cond \in {"c", "s"}}

\* Zones: x is allocated, s refers to it; brackets nest as zone blocks do.
ZoneCode ==
  { <<>>, <<ZoneEnter("a")>>, <<ZoneEnter("b")>>, <<ZoneExit("a")>>, <<ZoneExit("b")>>,
    <<Call("x", <<>>)>>,
    <<Ref("s", "x", FALSE)>>,
    <<Use(Copy("s"))>>,
    <<ZoneEnter("a"), Call("x", <<>>)>>,
    <<ZoneExit("a"), Use(Copy("s"))>> }

Brackets(code) ==
  SelectSeq(code[0] \o code[1] \o code[2] \o code[3],
            LAMBDA i : i.op \in {"zone_enter", "zone_exit"})

ZoneBodies ==
  {Body(Shape(<<{1}, {2}, {3}, {}>>), code, {"c"}, "c", Return(<<Move("s")>>)) :
     code \in {f \in [0 .. 3 -> ZoneCode] :
       Brackets(f) \in {<<ZoneEnter("a"), ZoneExit("a")>>,
                        <<ZoneEnter("a"), ZoneEnter("b"), ZoneExit("b"), ZoneExit("a")>>,
                        <<ZoneEnter("b"), ZoneEnter("a"), ZoneExit("a"), ZoneExit("b")>>,
                        <<ZoneEnter("a"), ZoneExit("a"), ZoneEnter("a"), ZoneExit("a")>>}}}

\* A handful of forges to hand to one checker in every order.
ForgeCode ==
  { [n \in 0 .. 2 |-> <<>>],
    0 :> <<Use(Move("x"))>> @@ 1 :> <<Use(Move("x"))>> @@ 2 :> <<>>,
    0 :> <<ZoneEnter("a")>> @@ 1 :> <<Call("x", <<>>), Ref("s", "x", FALSE)>>
      @@ 2 :> <<ZoneExit("a"), Use(Copy("s"))>>,
    0 :> <<Ref("s", "x", FALSE)>> @@ 1 :> <<Ref("r", "x", TRUE)>> @@ 2 :> <<Use(Copy("s"))>>,
    0 :> <<Use(Copy("s"))>> @@ 1 :> <<Ref("s", "x", FALSE)>> @@ 2 :> <<ZoneExit("a")>> }

ForgeBodies ==
  {Body(Chain, code, args, "c", Return(<<Move("x")>>)) : code \in ForgeCode, args \in {{}, {"x"}}}

\* Two forges for one checker.
ForgePairs == ForgeBodies \X ForgeBodies

SoundnessPrograms ==
  {<<b>> : b \in BorrowBodies \cup ZoneBodies} \cup ForgePairs

SoundnessBodies == BorrowBodies \cup ZoneBodies \cup ForgeBodies

-----------------------------------------------------------------------------
(* One forge for each disagreement *)

\* A loop whose body moves x: the second turn uses a moved value.
LoopMoveBodies ==
  {Body(Shape(<<{1}, {2, 3}, {1}, {}>>),
        Shape(<< <<Assign("x", <<>>)>>, <<>>, <<Use(Move("x"))>>, <<>> >>),
        {"c"}, "c", Return(<<>>))}

LoopMovePrograms == {<<b>> : b \in LoopMoveBodies}

=============================================================================
