------------------------------ MODULE MCTypes -------------------------------
(***************************************************************************)
(* Programs for TypeMeaning: families of forges that differ in a few       *)
(* choices, and one program with every form.                               *)
(***************************************************************************)
EXTENDS TypeMeaning

\* Types
N(name)      == [k |-> "name", name |-> name]
Int_         == N("i32")
Str_         == N("str")
Bool_        == N("bool")
NoType       == N("void")
Opt(w)       == [k |-> "optional", of |-> w]
Fn(ps, ret)  == [k |-> "fn", params |-> ps, ret |-> ret]

\* Expressions
Num(n)       == [k |-> "lit", lit |-> "int", v |-> n]
True         == [k |-> "lit", lit |-> "bool", v |-> TRUE]
Text         == [k |-> "lit", lit |-> "str", v |-> "text"]
NilLit       == [k |-> "lit", lit |-> "nil"]
X(name)      == [k |-> "ident", name |-> name]
Bin(op, l, r) == [k |-> "binary", op |-> op, l |-> l, r |-> r]
Neg(e)       == [k |-> "unary", op |-> "-", of |-> e]
Block(stmts, expr) == [stmts |-> stmts, expr |-> expr]
Just(e)      == Block(<<>>, <<e>>)
BlockE(b)    == [k |-> "block", body |-> b]
Given(c, t, e) == [k |-> "given", cond |-> c, then |-> t, else |-> e]
While(c, b)  == [k |-> "while", cond |-> c, body |-> b]
Call(f, args) == [k |-> "call", callee |-> X(f), args |-> args]
Dot(e, m, args) == [k |-> "call", callee |-> [k |-> "member", of |-> e, name |-> m], args |-> args]
Fun(ps, e)   == [k |-> "bind", params |-> ps, of |-> e]
Branch(e, arms) == [k |-> "branch", of |-> e, arms |-> arms]
Arm(pat, e)  == [pat |-> pat, body |-> e]
PName(x)     == [k |-> "ident", name |-> x]
PNum(n)      == [k |-> "lit", lit |-> "int", v |-> n]
Wild         == [k |-> "wildcard"]
Raw(e)       == [k |-> "raw", of |-> e]
Return(e)    == [k |-> "return", of |-> e]
Struct(name, fields) == [k |-> "struct", name |-> name, fields |-> fields]

\* Statements
Let(x, e)    == [k |-> "let", pat |-> PName(x), ty |-> <<>>, init |-> <<e>>]
LetAs(x, w, e) == [k |-> "let", pat |-> PName(x), ty |-> <<w>>, init |-> <<e>>]
Set(x, e)    == [k |-> "assign", target |-> X(x), of |-> e]
Do(e)        == [k |-> "expr", of |-> e]

\* Items
P(x, w)      == [name |-> x, ty |-> w]
Attr(name, args) == [name |-> name, args |-> args]
ForgeItem(name, params, ret, effects, body) ==
  [k |-> "forge", name |-> name, generics |-> <<>>, params |-> params, ret |-> ret, effects |-> effects,
   attrs |-> <<>>, requires |-> <<>>, ensures |-> <<>>, body |-> body, flow |-> FALSE]
Generic(f, gs) == [f EXCEPT !.generics = gs]
Bounded(f, effects) == [f EXCEPT !.attrs = << Attr("effect_boundary", [i \in DOMAIN effects |-> X(effects[i])]) >>]
Requires(f, e) == [f EXCEPT !.requires = <<e>>]
Ensures(f, e)  == [f EXCEPT !.ensures = <<e>>]
Bridge(items)  == [k |-> "bridge", abi |-> "C", items |-> items, attrs |-> <<>>]
Shape(name)    == [k |-> "shape", name |-> name, attrs |-> <<>>]
ImplFor(w, weave, items) == [k |-> "impl", target |-> w, weave |-> weave, items |-> items, attrs |-> <<>>]
WeaveItem(name, ms) == [k |-> "weave", name |-> name, methods |-> ms, attrs |-> <<>>]

Program(items) == [items |-> items, modules |-> [p \in {} |-> <<>>]]

-----------------------------------------------------------------------------
(* Effects: main calls callees in some way; some contain what they perform. *)

Outside == Bridge(<<ForgeItem("read", <<>>, Int_, {"io"}, <<>>), ForgeItem("send", <<P("x", Int_)>>, Int_, {"net"}, <<>>)>>)
EffectSets == {{}, {"pure"}, {"io"}, {"io", "net"}}

Calm == ForgeItem("calm", <<>>, Int_, {}, <<Just(Num(1))>>)
Reading == Given(Bin(">", X("x"), Num(0)), Block(<<Let("y", Call("read", <<>>))>>, <<>>), <<>>)
Helper(effects, contained) ==
  LET f == ForgeItem("help", <<P("x", Int_)>>, Int_, effects, <<Block(<<Do(Reading)>>, <<Num(1)>>)>>)
  IN IF contained = <<>> THEN f ELSE Bounded(f, contained)

Closure == Let("k", Fun(<<"y">>, Call("send", <<X("y")>>)))
Ways == <<
  Block(<<>>, <<Call("help", <<Num(1)>>)>>),
  Block(<<Do(Call("calm", <<>>))>>, <<Call("help", <<X("x")>>)>>),
  Block(<<Closure>>, <<Num(0)>>),
  Block(<<Closure>>, <<Call("k", <<Call("help", <<Num(1)>>)>>)>>),
  Block(<<Closure, Let("j", X("k"))>>, <<Call("j", <<Num(1)>>)>>),
  Block(<<Let("k", Fun(<<>>, BlockE(Block(<<Let("m", Fun(<<>>, Call("read", <<>>)))>>, <<Call("m", <<>>)>>))))>>, <<Call("k", <<>>)>>),
  Block(<<Do(While(Bin(">", X("x"), Num(0)), Block(<<Do(Call("help", <<X("x")>>)), Set("x", Num(0))>>, <<>>)))>>, <<Call("send", <<X("x")>>)>>),
  Block(<<>>, <<Branch(X("x"), <<Arm(PNum(0), Call("calm", <<>>)), Arm(Wild, Call("send", <<Num(2)>>))>>)>>),
  Block(<<Do(Return(Call("help", <<X("x")>>)))>>, <<>>),
  Block(<<Do(Raw(BlockE(Block(<<Do(Call("read", <<>>))>>, <<>>))))>>, <<Bin("+", Call("send", <<Num(1)>>), Num(1))>>),
  Block(<<Do(Given(Bin(">", X("x"), Num(0)), Block(<<Do(Call("main", <<Num(0)>>))>>, <<>>), <<>>))>>, <<Num(3)>>) >>

EffectPrograms ==
  {Program(<<Outside, Calm, Helper(h, b), ForgeItem("main", <<P("x", Int_)>>, Int_, m, <<Ways[w]>>)>>) :
     h \in {{}, {"io"}}, b \in {<<>>, <<"io">>}, m \in EffectSets, w \in DOMAIN Ways}

-----------------------------------------------------------------------------
(* Overloads, generics and inference: a body of some type for a declared one *)

Over1(w, e) == ForgeItem("h", <<P("a", w)>>, w, e, <<Block(<<>>, <<X("a")>>)>>)
OverIO(w)   == ForgeItem("h", <<P("a", w)>>, w, {"io"}, <<Block(<<Do(Call("read", <<>>))>>, <<X("a")>>)>>)
Overloads == << <<Over1(Int_, {})>>, <<Over1(Int_, {}), OverIO(Str_)>>, <<OverIO(Opt(Int_)), Over1(Int_, {})>>,
               <<Over1(Int_, {}), Over1(Int_, {})>>, <<OverIO(Int_), Over1(Opt(Int_), {})>>,
               <<Generic(OverIO(N("T")), <<"T">>), Over1(Int_, {})>>, <<Generic(Over1(N("T"), {}), <<"T">>)>> >>

Tails == <<
  Block(<<>>, <<Call("h", <<Num(1)>>)>>),
  Block(<<>>, <<Call("h", <<Text>>)>>),
  Block(<<>>, <<Call("h", <<X("x")>>)>>),
  Block(<<Let("i", Fun(<<"y">>, X("y"))), Let("a", Call("i", <<Text>>))>>, <<Call("i", <<X("x")>>)>>),
  Block(<<LetAs("a", Int_, X("x"))>>, <<Bin("+", X("a"), Num(1))>>),
  Block(<<LetAs("a", Opt(Int_), X("x"))>>, <<X("a")>>),
  Block(<<Let("a", Num(1))>>, <<BlockE(Block(<<Let("a", Text)>>, <<X("a")>>))>>),
  Block(<<Let("a", Num(1)), Do(BlockE(Block(<<Let("a", Text)>>, <<>>)))>>, <<X("a")>>),
  Block(<<Let("a", Num(1)), Set("a", Call("h", <<Num(2)>>))>>, <<X("a")>>),
  Block(<<>>, <<Given(Bin("==", X("x"), X("x")), Just(X("x")), <<Given(True, Just(X("x")), <<>>)>>)>>),
  Block(<<>>, <<Branch(X("x"), <<Arm(PName("b"), X("b"))>>)>>),
  Block(<<>>, <<Fun(<<"y">>, Given(True, Just(X("y")), <<Given(True, Just(Fun(<<>>, X("y"))), <<>>)>>))>>),
  Block(<<Do(Return(X("x")))>>, <<>>) >>

TypePrograms_ ==
  {Program(<<Outside>> \o Overloads[o] \o <<ForgeItem("main", <<P("x", p)>>, r, {"io"}, <<Tails[t]>>)>>) :
     o \in DOMAIN Overloads, p \in {Int_, Str_, Opt(Int_)}, r \in {Int_, Str_}, t \in DOMAIN Tails}

-----------------------------------------------------------------------------
(* Contracts: calls with constants, and constant tails *)

Consts == <<Num(0), Num(3), Neg(Num(3)), Bin("/", Neg(Num(3)), Num(2)), Bin("-", Num(1), Bin("*", Num(2), Num(2))),
            BlockE(Block(<<Let("a", Num(2))>>, <<Bin("+", X("a"), Num(1))>>)),
            Given(Bin("<", Num(1), Num(2)), Just(Neg(Num(1))), <<Given(True, Just(Num(5)), <<>>)>>),
            BlockE(Block(<<Let("a", Num(2)), Set("a", Bin("*", X("a"), Neg(X("a"))))>>, <<X("a")>>)),
            Bin("/", Num(1), Num(0)) >>
Conditions(x) == <<Bin(">", X(x), Num(0)), Bin("!=", X(x), Neg(Num(2))), Bin("==", Bin("/", X(x), Num(2)), Neg(Num(1))),
                   Bin("&&", Bin(">=", X(x), Num(0)), Bin("<", X(x), Num(4)))>>

ContractPrograms ==
  {Program(<<Requires(ForgeItem("g", <<P("a", Int_)>>, Int_, {}, <<Just(X("a"))>>), Conditions("a")[c]),
             ForgeItem("main", <<>>, Int_, {}, <<Just(Call("g", <<Consts[v]>>))>>)>>) :
     c \in 1 .. 4, v \in DOMAIN Consts}
  \cup
  {Program(<<Ensures(ForgeItem("main", <<>>, Int_, {}, <<Just(Consts[v])>>), Conditions("result")[c])>>) :
     c \in 1 .. 4, v \in DOMAIN Consts}

-----------------------------------------------------------------------------
(* Forms: each expression and each item, and what nests in what *)

Member(e, m)  == [k |-> "member", of |-> e, name |-> m]
Path(parts)   == [k |-> "path", parts |-> parts]
Witness_(arg) == [k |-> "witness", arg |-> arg]
ExprArg(e)    == [k |-> "expr", expr |-> e]
Zone(z, b)    == [k |-> "zone", name |-> z, body |-> b]
Each(x, e, b) == [k |-> "each", name |-> x, of |-> e, body |-> b]
Seek(b, x, c) == [k |-> "seek", body |-> b, var |-> x, catch |-> c]
Loop(b)       == [k |-> "loop", body |-> b]
Tide(e)       == [k |-> "tide", of |-> e]
Or(e, context) == [k |-> "cascade", of |-> e, context |-> context]
Unary(op, e)  == [k |-> "unary", op |-> op, of |-> e]
Some(p)       == [k |-> "variant", parts |-> <<p>>]
Positive      == ExprArg(Bin(">", X("x"), Num(0)))
CallOf(e, args) == [k |-> "call", callee |-> e, args |-> args]

Forms == <<
  Zone("z", Block(<<Let("a", CallOf(Path(<<"z", "allocator">>), <<>>)), Do(CallOf(Member(X("z"), "allocator"), <<>>))>>,
                  <<CallOf(Path(<<"zone", "allocator">>), <<>>)>>)),
  CallOf(Member(X("zone"), "allocator"), <<>>),
  Each("i", X("x"), Block(<<Let("a", Bin("+", X("i"), Num(1)))>>, <<>>)),
  Seek(Just(Call("read", <<>>)), <<"err">>, <<Just(Num(0))>>),
  Seek(Just(Text), <<>>, <<>>),
  Loop(Block(<<Do([k |-> "break"])>>, <<>>)),
  Tide(X("x")), Or(Call("read", <<>>), <<Num(1)>>), Or(X("x"), <<>>),
  Unary("!", Bin("==", X("x"), Text)), Unary("*", Unary("&", X("x"))), Unary("&~", X("x")), Unary("-", Text),
  Branch(X("o"), <<Arm(Some(PName("v")), X("v")), Arm(Wild, Num(0))>>),
  Witness_(Positive), Raw(Witness_(N("i32"))), Raw(Call("w", <<Raw(X("x"))>>)),
  Member(X("x"), "twice"), Dot(X("x"), "twice", <<>>), Dot(Struct("S", <<>>), "m", <<>>),
  Bin("+", X("x"), Struct("S", <<>>)), Bin("+", Struct("S", <<>>), Struct("S", <<>>)), Bin("&&", True, Num(1)),
  Path(<<"x">>), Path(<<"a", "b">>), X("nobody"), Call("nobody", <<X("x")>>), Call("asm", <<Text>>), Call("asm", <<>>),
  Raw(Call("asm", <<Text>>)), Return(Text),
  Fun(<<"y">>, Fun(<<"z">>, Call("y", <<X("y"), X("z")>>))), Call("w", <<Num(2)>>), NilLit,
  BlockE(Block(<<[Let("q", Num(1)) EXCEPT !.pat = Wild], LetAs("b", Bool_, Num(1)), Set("nobody", Num(1))>>, <<X("b")>>)) >>

NonZero(w) == [k |-> "path", parts |-> <<"NonZero">>, args |-> <<w>>]
Furniture ==
  <<Outside, Shape("S"), WeaveItem("Add", <<[name |-> "add", effects |-> {"io"}]>>),
    ImplFor(N("S"), <<"Add">>, <<ForgeItem("add", <<P("self", N("?")), P("o", N("Self"))>>, N("S"), {}, <<>>),
                                 [k |-> "alias", name |-> "Out", ty |-> Int_, attrs |-> <<>>]>>),
    ImplFor(Int_, <<>>, <<ForgeItem("twice", <<P("self", N("?"))>>, Int_, {}, <<Just(Bin("*", X("self"), Num(2)))>>)>>),
    [k |-> "ward", name |-> "inside", attrs |-> <<>>,
     items |-> <<ForgeItem("w", <<P("x", NonZero(Int_))>>, Opt(Int_), {}, <<Just(X("x"))>>)>>],
    [k |-> "echo", attrs |-> <<>>, body |-> Block(<<Let("a", Num(1)), Set("a", Bin("+", X("a"), Num(1)))>>, <<X("a")>>)],
    [k |-> "draw", path |-> "other", attrs |-> <<>>], [k |-> "draw", path |-> "nowhere", attrs |-> <<>>]>>

Others == [p \in {"other"} |-> <<[k |-> "draw", path |-> "other", attrs |-> <<>>], Calm>>]

\* Items the checker has something to say about.
Faulty ==
  <<[Shape("Q") EXCEPT !.attrs = <<Attr("packed", <<>>), Attr("packed", <<>>), Attr("align", <<Num(3)>>),
                                   Attr("derive", <<X("Debug"), X("Magic")>>)>>],
    ImplFor(N("S"), <<"Add">>, <<>>), ImplFor(Int_, <<"Far">>, <<>>),
    [k |-> "scroll", name |-> "Choice", attrs |-> <<Attr("error", <<>>)>>],
    [k |-> "static", name |-> "limit", ty |-> Int_, value |-> TRUE, attrs |-> <<Attr("test", <<>>)>>],
    [k |-> "dual", name |-> "Wire", attrs |-> <<>>, items |-> <<ForgeItem("encode", <<P("self", N("?"))>>, Str_, {}, <<Just(Text)>>)>>],
    [k |-> "echo", attrs |-> <<>>, body |-> Block(<<Do(Call("read", <<>>))>>, <<>>)],
    [Bridge(<<Calm>>) EXCEPT !.abi = "Fortran"],
    ImplFor(N("S"), <<"Add">>, <<ForgeItem("add", <<>>, Int_, {"net"}, <<Just(Raw(Num(1)))>>)>>),
    [ForgeItem("attributed", <<>>, NoType, {}, <<Block(<<Do(Tide(Num(1)))>>, <<>>)>>) EXCEPT
       !.attrs = <<Attr("inline", <<X("always")>>), Attr("inline", <<Num(1)>>), Attr("test", <<>>), Attr("bench", <<Num(1)>>),
                   Attr("effect_boundary", <<>>), Attr("error", <<>>)>>] >>

FaultyPrograms == {[items |-> <<Faulty[i], Faulty[j]>> \o Furniture, modules |-> Others] : i, j \in DOMAIN Faulty}

FormPrograms ==
  {[items |-> Furniture \o
      <<[ForgeItem("main", <<P("x", Int_), P("o", Opt(Int_))>>, r, {"io"}, <<IF tail THEN Just(Forms[i]) ELSE Block(<<Let("a", Forms[i])>>, <<>>)>>)
           EXCEPT !.flow = tail, !.attrs = IF tail THEN <<Attr("proof", <<>>)>> ELSE <<>>]>>,
    modules |-> Others] :
   i \in DOMAIN Forms, r \in {Int_, NoType, Fn(<<Int_>>, Int_)}, tail \in BOOLEAN}

-----------------------------------------------------------------------------
(* Closures over closures, with blocks for bodies *)

Inner == <<X("y"), Num(1), Fun(<<>>, X("y"))>>
BlockClosures ==
  {Program(<<ForgeItem("main", <<P("x", p)>>, r, {},
               <<Block(<<Let("k", Fun(<<"y">>, BlockE(Block(<<Let("z", Inner[i])>>, <<X("z")>>)))) >>,
                       <<IF i = 3 THEN [k |-> "call", callee |-> Call("k", <<X("x")>>), args |-> <<>>]
                         ELSE Call("k", <<X("x")>>)>>)>>)>>) :
     p \in {Int_, Str_}, r \in {Int_, Str_}, i \in 1 .. 3}

\* Effects where the checker does not look for them: main declares some and performs others.
Applying == ForgeItem("apply", <<P("f", Fn(<<Int_>>, Int_))>>, Int_, {}, <<Just(Call("f", <<Num(1)>>))>>)
Leaks == <<
  Block(<<Do(While(Bin(">", Call("send", <<X("x")>>), Num(0)), Block(<<>>, <<>>)))>>, <<Num(1)>>),
  Block(<<Let("s", Struct("S", <<Call("send", <<X("x")>>)>>))>>, <<Num(1)>>),
  Block(<<>>, <<Call("apply", <<X("send")>>)>>),
  Block(<<Let("calm", Fun(<<>>, Call("send", <<Num(1)>>)))>>, <<Call("calm", <<>>)>>) >>
LeakPrograms ==
  {Program(<<Outside, Shape("S"), Calm, Applying, ForgeItem("main", <<P("x", Int_)>>, Int_, m, <<Leaks[w]>>)>>) :
     m \in {{}, {"net"}}, w \in DOMAIN Leaks}

\* A forge that reads and then calls one that is pure.
MixedPrograms ==
  {Program(<<Outside, Calm, ForgeItem("main", <<>>, Int_, {"io"}, <<Block(<<Do(Call("read", <<>>))>>, <<Call("calm", <<>>)>>)>>)>>)}

\* What the documents say of effects and the checker does not do.
Unkept == LeakPrograms \cup MixedPrograms

MCPrograms == Unkept \cup EffectPrograms \cup TypePrograms_ \cup ContractPrograms \cup FormPrograms \cup FaultyPrograms

=============================================================================
