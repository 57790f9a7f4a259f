----------------------------- MODULE TypeMeaning -----------------------------
(***************************************************************************)
(* What a checked program does when it runs, and what the type checker's   *)
(* verdicts promise about it.                                              *)
(*                                                                         *)
(* Run is a reference interpreter, written from the language's reference   *)
(* and not from the checker: values know their types, a call takes the     *)
(* forge that admits the values, and a forge without a body performs the   *)
(* effects it declares.  A run that meets what has no meaning is stuck.    *)
(***************************************************************************)
EXTENDS TypeChecker

\* A value has its type's name, a number, and if it can be called what it runs:
\* forges, or a closure [params, of, cells].
Value(t, n)    == [t |-> t, n |-> n, code |-> <<>>]
Code(c)        == [t |-> "fn", n |-> 0, code |-> <<c>>]
VoidValue      == Value("void", 0)

\* A run: the cells of the names in scope; what was performed, what the forges called
\* declare (pure, if nothing) and what contracts were broken so far; the value last
\* computed; the value given back if one was.
Start(cells, fuel) ==
  [cells |-> cells, performed |-> {}, owed |-> {}, broken |-> {}, v |-> VoidValue, ret |-> <<>>, stuck |-> FALSE, fuel |-> fuel]
Over(st)     == st.stuck \/ st.ret /= <<>>
Yield(st, v) == [st EXCEPT !.v = v]
Stuck(st)    == [st EXCEPT !.stuck = TRUE]
Cell(st, name) == SelectLastInSeq(st.cells, LAMBDA c : c.name = name)
Bind(st, name, v) == [st EXCEPT !.cells = Append(@, [name |-> name, v |-> v])]

-----------------------------------------------------------------------------
(* The forges of the program *)

RECURSIVE ItemsWithin(_)
ItemsWithin(items) ==
  UNION {{items[i]} \cup IF "items" \in DOMAIN items[i] THEN ItemsWithin(items[i].items) ELSE {} : i \in DOMAIN items}
AllItems == ItemsWithin(program.items) \cup UNION {ItemsWithin(program.modules[p]) : p \in DOMAIN program.modules}
Impls == {i \in AllItems : i.k = "impl"}
Methods_ == UNION {ToSet(ForgesOf(i)) : i \in Impls}
Forges == {i \in AllItems : i.k = "forge"} \ Methods_
NamedForges(name) == {f \in Forges : f.name = name}

Effects(f) == f.effects \ {"pure"}
Contained(f) == LET args == EachArg(f.attrs, "effect_boundary") IN {EffectName(a)[1] : a \in ToSet(args)}

TypeName(w) == IF w.name \in DOMAIN WrittenPrims THEN WrittenPrims[w.name] ELSE w.name

RECURSIVE HasType(_, _, _)
HasType(v, w, generics) ==
  CASE w.k = "name" -> w.name \in generics \/ v.t = TypeName(w)
    [] w.k = "optional" -> v.t = "none" \/ HasType(v, w.of, generics)
    [] w.k = "fn" -> v.code /= <<>>
    [] OTHER -> FALSE

Admits(f, vs) ==
  /\ Len(f.params) = Len(vs)
  /\ \A i \in DOMAIN vs : f.params[i].name = "self" \/ HasType(vs[i], f.params[i].ty, ToSet(f.generics))

-----------------------------------------------------------------------------
(* Running *)

Literal_(e) == CASE e.lit = "int" -> Value("i32", e.v) [] e.lit = "bool" -> Value("bool", IF e.v THEN 1 ELSE 0)
                 [] e.lit = "float" -> Value("f64", 0) [] e.lit = "str" -> Value("str", 0) [] OTHER -> Value("none", 0)
Truth(b) == Value("bool", IF b THEN 1 ELSE 0)

Operate(st, op, l, r) ==
  LET ints == l.t = "i32" /\ r.t = "i32"
  IN CASE op \in Comparisons /\ l.t = r.t -> Yield(st, Truth(Compared(op, l.n, r.n)))
       [] op \in {"&&", "||"} /\ l.t = "bool" /\ r.t = "bool" ->
            Yield(st, Truth(l.n + r.n >= IF op = "&&" THEN 2 ELSE 1))
       [] ints /\ op = "+" -> Yield(st, Value("i32", l.n + r.n))
       [] ints /\ op = "-" -> Yield(st, Value("i32", l.n - r.n))
       [] ints /\ op = "*" -> Yield(st, Value("i32", l.n * r.n))
       [] ints /\ op = "/" /\ r.n /= 0 -> Yield(st, Value("i32", Truncated(l.n, r.n)))
       [] OTHER -> Stuck(st)

Default(f) ==
  IF f.ret.k = "name" /\ f.ret.name \in DOMAIN WrittenPrims THEN Value(WrittenPrims[f.ret.name], 0) ELSE VoidValue

Matches(pat, v) == pat.k \in {"ident", "wildcard"} \/ (pat.k = "lit" /\ Literal_(pat) = v)

RECURSIVE Run(_, _), RunBlock(_, _)

Cells(f, vs) == [i \in DOMAIN vs |-> [name |-> f.params[i].name, v |-> vs[i]]]
Failing(contracts, cells) == {c \in ToSet(contracts) : Run(c, Start(cells, 0)).v /= Truth(TRUE)}

BreaksOf(what, f, contracts, cells) == IF Failing(contracts, cells) = {} THEN {} ELSE {<<what, f.name>>}

\* What a run of something with cells of its own comes to, in v.
Outcome(in) == IF in.ret /= <<>> THEN in.ret[1] ELSE in.v

\* The body of a forge, its postconditions of what it gives back, and in v that.
Body(f, vs, fuel) ==
  Then(RunBlock(f.body[1], Start(Cells(f, vs), fuel)), LAMBDA in :
    IF in.stuck THEN in
    ELSE [in EXCEPT !.v = Outcome(in),
                    !.broken = @ \cup BreaksOf("ensures", f, f.ensures, Append(Cells(f, vs), [name |-> "result", v |-> Outcome(in)]))])

Enter(st, f, vs) ==
  Then([st EXCEPT !.owed = @ \cup IF Effects(f) \subseteq Contained(f) THEN {"pure"} ELSE Effects(f) \ Contained(f),
                  !.broken = @ \cup BreaksOf("requires", f, f.requires, Cells(f, vs))], LAMBDA s :
    IF f.body = <<>> THEN [s EXCEPT !.performed = @ \cup (Effects(f) \ Contained(f)), !.v = Default(f)]
    ELSE IF st.fuel = 0 THEN Stuck(s)
    ELSE Then(Body(f, vs, st.fuel - 1), LAMBDA in :
           [s EXCEPT !.performed = @ \cup (in.performed \ Contained(f)), !.broken = @ \cup in.broken,
                     !.stuck = in.stuck, !.v = in.v]))

\* Each forge that admits the values may be the one; there should be one.
Choose(st, forges, vs) ==
  Then({Enter(st, f, vs) : f \in {f \in forges : Admits(f, vs)}}, LAMBDA runs :
    IF runs = {} THEN Stuck(st)
    ELSE [(CHOOSE r \in runs : TRUE) EXCEPT !.performed = UNION {r.performed : r \in runs}, !.owed = UNION {r.owed : r \in runs},
                                            !.broken = UNION {r.broken : r \in runs}])

\* Closures see the cells there were when they were made.
Apply(st, c, vs) ==
  IF "forges" \in DOMAIN c THEN Choose(st, c.forges, vs)
  ELSE IF Len(c.params) /= Len(vs) \/ st.fuel = 0 THEN Stuck(st)
  ELSE Then(Run(c.of, [Start(c.cells \o [i \in DOMAIN vs |-> [name |-> c.params[i], v |-> vs[i]]], st.fuel - 1)
                         EXCEPT !.broken = st.broken]), LAMBDA in :
         [st EXCEPT !.performed = @ \cup in.performed, !.owed = @ \cup in.owed, !.broken = in.broken,
                    !.stuck = in.stuck, !.v = Outcome(in)])

RunAll(st, es) ==
  FoldLeft(LAMBDA acc, e : Then(Run(e, acc.st), LAMBDA s : [st |-> s, vs |-> Append(acc.vs, s.v)]),
           [st |-> st, vs |-> <<>>], es)

\* What a call runs: the methods of the value's type, a local's code, the forges of the name.
Callee(st, callee, vs) ==
  LET at == Cell(st, callee.name)
      Meant == {i \in Impls : HasType(vs[1], i.target, {})}
  IN CASE callee.k = "member" -> [forges |-> {f \in UNION {ToSet(ForgesOf(i)) : i \in Meant} : f.name = callee.name}]
       [] callee.k = "ident" ->
            IF at = 0 THEN [forges |-> NamedForges(callee.name)]
            ELSE IF st.cells[at].v.code = <<>> THEN [forges |-> {}] ELSE st.cells[at].v.code[1]
       [] OTHER -> [forges |-> {}]

RunCall(st, e) ==
  Then(RunAll(st, IF e.callee.k = "member" THEN <<e.callee.of>> \o e.args ELSE e.args), LAMBDA args :
    IF Over(args.st) THEN args.st ELSE Apply(args.st, Callee(args.st, e.callee, args.vs), args.vs))

\* What follows an operand.
Negated(of, op) ==
  CASE op = "-" /\ of.v.t = "i32" -> Yield(of, Value("i32", -of.v.n))
    [] op = "!" /\ of.v.t = "bool" -> Yield(of, Truth(of.v.n = 0))
    [] OTHER -> Stuck(of)

TakeArm(of, arms) ==
  LET fitting == {i \in DOMAIN arms : Matches(arms[i].pat, of.v)}
      Arm(arm) == Run(arm.body, IF arm.pat.k = "ident" THEN Bind(of, arm.pat.name, of.v) ELSE of)
  IN IF fitting = {} THEN Stuck(of)
     ELSE [Arm(arms[CHOOSE i \in fitting : \A j \in fitting : i <= j]) EXCEPT !.cells = SubSeq(@, 1, Len(of.cells))]

GivenThat(c, e) ==
  IF c.v = Truth(TRUE) THEN RunBlock(e.then, c)
  ELSE IF c.v /= Truth(FALSE) THEN Stuck(c)
  ELSE IF e.else = <<>> THEN Yield(c, VoidValue) ELSE Run(e.else[1], c)

WhileThat(c, e) ==
  IF c.v = Truth(TRUE) /\ c.fuel > 0
  THEN Then(RunBlock(e.body, c), LAMBDA b : Run(e, [b EXCEPT !.fuel = @ - 1]))
  ELSE IF c.v = Truth(FALSE) THEN Yield(c, VoidValue) ELSE Stuck(c)

\* The expressions that begin by computing another, in the field named.
First == [unary |-> "of", branch |-> "of", raw |-> "of", tide |-> "of", return |-> "of",
          given |-> "cond", while |-> "cond", binary |-> "l"]

AfterFirst(x, e) ==
  CASE e.k = "binary" -> Then(Run(e.r, x), LAMBDA r : IF Over(r) THEN r ELSE Operate(r, e.op, x.v, r.v))
    [] e.k = "unary" -> Negated(x, e.op)
    [] e.k = "given" -> GivenThat(x, e)
    [] e.k = "while" -> WhileThat(x, e)
    [] e.k = "branch" -> TakeArm(x, e.arms)
    [] e.k = "return" -> [x EXCEPT !.ret = <<x.v>>]
    [] OTHER -> x

Run(e, st) ==
  LET at == Cell(st, e.name)
  IN CASE Over(st) -> st
       [] e.k \in DOMAIN First -> Then(Run(e[First[e.k]], st), LAMBDA x : IF Over(x) THEN x ELSE AfterFirst(x, e))
       [] e.k = "lit" -> Yield(st, Literal_(e))
       [] e.k = "ident" -> IF at /= 0 THEN Yield(st, st.cells[at].v)
                           ELSE IF NamedForges(e.name) /= {} THEN Yield(st, Code([forges |-> NamedForges(e.name)]))
                           ELSE Stuck(st)
       [] e.k = "call" -> RunCall(st, e)
       [] e.k = "bind" -> Yield(st, Code([params |-> e.params, of |-> e.of, cells |-> st.cells]))
       [] e.k = "block" -> RunBlock(e.body, st)
       [] e.k = "struct" -> Yield(RunAll(st, e.fields).st, Value(e.name, 0))
       [] OTHER -> Stuck(st)

RunStmt(st, s) ==
  IF Over(st) THEN st
  ELSE Then(Run(IF s.k = "let" THEN s.init[1] ELSE s.of, st), LAMBDA x :
         LET at == Cell(x, s.target.name)
         IN CASE Over(x) -> x
              [] s.k = "let" /\ ~ Over(x) -> IF s.pat.k = "ident" THEN Bind(x, s.pat.name, x.v) ELSE x
              [] s.k = "assign" /\ ~ Over(x) -> IF at = 0 THEN Stuck(x) ELSE [x EXCEPT !.cells[at].v = x.v]
              [] OTHER -> x)

RunBlock(b, st) ==
  Then(FoldLeft(RunStmt, st, b.stmts), LAMBDA end :
    [(IF b.expr = <<>> THEN Yield(end, VoidValue) ELSE Run(b.expr[1], end)) EXCEPT !.cells = SubSeq(@, 1, Len(st.cells))])

-----------------------------------------------------------------------------
(* The runs of a forge: on a few values of each type it asks for *)

Depth == 6  \* of calls; the recursive forges of the programs stop before

ValuesOf(w, generics) ==
  CASE w.k = "name" /\ w.name \in generics -> {Value("i32", 1), Value("str", 0)}
    [] w.k = "name" /\ w.name = "i32" -> {Value("i32", 0), Value("i32", 1)}
    [] w.k = "name" /\ w.name = "bool" -> {Truth(TRUE), Truth(FALSE)}
    [] w.k = "name" -> {Value(TypeName(w), 0)}
    [] w.k = "optional" -> {Value("none", 0), Value("i32", 1)}
    [] w.k = "fn" -> {Code([forges |-> NamedForges(f.name)]) : f \in {f \in Forges : f.body = <<>> /\ Len(f.params) = Len(w.params)}}
    [] OTHER -> {}

Arguments(f) ==
  LET generics == ToSet(f.generics)
      all == UNION {ValuesOf(f.params[i].ty, generics) : i \in DOMAIN f.params}
  IN {vs \in [DOMAIN f.params -> all] : \A i \in DOMAIN vs : vs[i] \in ValuesOf(f.params[i].ty, generics)}

\* Their effects are those before the forge's own boundary.
RunsOf(f) == {Body(f, vs, Depth) : vs \in Arguments(f)}

Checked == pass = "done"
Bodied == {f \in Forges : f.body /= <<>> /\ \A p \in ToSet(f.params) : p.name /= "self"}
Reported(what) == {d \in ToSet(tc.diagnostics) : d[1] = what}
Accepted == Checked /\ tc.diagnostics = <<>>

Sound == {f \in Bodied : \A r \in RunsOf(f) : ~ r.stuck}
Performed(f) == UNION {r.performed : r \in RunsOf(f)}
Owed(f) == UNION {r.owed : r \in RunsOf(f)}
Broken == UNION {r.broken : r \in UNION {RunsOf(f) : f \in Bodied}}

-----------------------------------------------------------------------------
(* Properties *)

\* Checking an item leaves nothing behind for the next one to be checked with: every scope,
\* effect set, zone and raw block it opened is closed, on every path through
\* check_item, and what it is inside of is what it was.
ItemsLeaveNoTrace ==
  /\ Len(tc.env) = 1 /\ tc.level = 0 /\ tc.zones = 0
  /\ tc.current_effects = <<>> /\ tc.expected_ret = <<>> /\ tc.current_self = <<>>
  /\ tc.attributes = {} /\ ~ tc.raw /\ ~ tc.flow

\* The variables a type has at its surface.
RECURSIVE Mentions(_)
Mentions(ty) ==
  CASE ty.t = "var" -> {ty.id}
    [] ty.t = "fn" -> UNION {Mentions(x) : x \in ToSet(Append(ty.params, ty.ret))}
    [] OTHER -> IF "of" \in DOMAIN ty THEN Mentions(ty.of) ELSE {}

RECURSIVE EffectMentions(_)
EffectMentions(es) == CASE es.e = "var" -> {es.id} [] es.e = "row" -> EffectMentions(es.tail) [] OTHER -> {}

\* Those from which following f comes to an end.
RECURSIVE Grounded(_, _)
Grounded(f, S) ==
  LET more == {id \in DOMAIN f : f[id] \cap DOMAIN f \subseteq S} IN IF more = S THEN S ELSE Grounded(f, more)

\* No variable stands for a type, or for an effect row, that it is part of: prune, the
\* generalization and the unification of what they bind all end.
BindingsEnd ==
  /\ Grounded([id \in DOMAIN tc.subst |-> Mentions(tc.subst[id])], {}) = DOMAIN tc.subst
  /\ Grounded([id \in DOMAIN tc.esubst |-> EffectMentions(tc.esubst[id])], {}) = DOMAIN tc.esubst

\* What a forge is written with: the statements and expressions of its body.
RECURSIVE Within(_), WithinBlock(_)
Within(e) ==
  LET Of(names) == {e[n] : n \in names \cap DOMAIN e}
  IN {e} \cup UNION {Within(x) : x \in Of({"of", "l", "r", "cond", "callee"})}
         \cup UNION {UNION {Within(x) : x \in ToSet(es)} : es \in Of({"args", "fields", "else", "context"})}
         \cup UNION {WithinBlock(b) : b \in Of({"then"}) \cup IF e.k = "bind" THEN {} ELSE Of({"body"})}
         \cup UNION {UNION {WithinBlock(b) : b \in ToSet(bs)} : bs \in Of({"catch"})}
         \cup UNION {UNION {Within(arm.body) : arm \in ToSet(arms)} : arms \in Of({"arms"})}
WithinBlock(b) ==
  ToSet(b.stmts) \cup UNION {Within(IF s.k = "let" THEN s.init[1] ELSE s.of) : s \in ToSet(b.stmts)}
                 \cup UNION {Within(x) : x \in ToSet(b.expr)}

\* What the checker does not look into, or not where it should: the condition of a while,
\* the fields of a literal, what a parameter that is a forge performs, and the closure a
\* local stands for where a forge has its name.
Overlooked(f) ==
  \/ \E p \in ToSet(f.params) : p.ty.k = "fn"
  \/ \E x \in WithinBlock(f.body[1]) :
       \/ x.k = "while" /\ \E y \in Within(x.cond) : y.k = "call"
       \/ x.k = "struct" /\ x.fields /= <<>>
       \/ x.k = "let" /\ x.pat.k = "ident" /\ NamedForges(x.pat.name) /= {}

\* An accepted forge performs, in any run, only effects that it declares: for programs with
\* nothing the checker overlooks.
AcceptedEffectsAreDeclared ==
  Accepted /\ (\A f \in Bodied : ~ Overlooked(f)) => \A f \in Bodied : Performed(f) \subseteq Effects(f)

\* What the documents say of effects, without exception: calls propagate them to the
\* callers, and a program in which one is not declared is rejected.
EffectsPropagate == Accepted => \A f \in Bodied : Performed(f) \subseteq Effects(f)

\* An accepted forge that no run of which gets stuck comes to a value of its type where it
\* runs to the end of its body.  (Or to nil: an optional may stand where its value is wanted.)
GivesItsType(f, r) == f.ret = [k |-> "name", name |-> "void"] \/ r.v.t = "none" \/ HasType(r.v, f.ret, ToSet(f.generics))
AcceptedBodiesReturnTheirType ==
  Accepted => \A f \in Sound : \A r \in RunsOf(f) : r.ret = <<>> => GivesItsType(f, r)

\* What the documents say of inference, that it accepts no program with a type error: the
\* same of runs that give a value back early, and through closures whose types are
\* generalized, instantiated and unified on the way.
AcceptedReturnsAreTyped ==
  Accepted => \A f \in Sound : \A r \in RunsOf(f) : GivesItsType(f, r)

\* An effect report is about an effect that a call in the forge owes and the forge does not
\* declare: for forges that declare none, or that owe something to every call.  (Of the
\* forges whose runs mean something, with nothing the checker overlooks.)
EffectErrorsAreReal ==
  Checked => \A f \in {f \in Sound : ~ Overlooked(f)} :
    <<"effects", f.name>> \in Reported("effects") /\ (Effects(f) = {} \/ "pure" \notin Owed(f))
      => ~ Owed(f) \ {"pure"} \subseteq Effects(f)

\* What the documents say, that an effect missing from a declaration is the error: so of
\* forges that declare effects and call pure ones as well.
OnlyMissingEffectsAreErrors ==
  Checked => \A f \in Sound :
    <<"effects", f.name>> \in Reported("effects") => ~ Owed(f) \ {"pure"} \subseteq Effects(f)

\* The checker computes contracts at compile time, where it finds values for the names in
\* them, with an evaluator of its own.  A contract of a forge that it reports as broken is
\* broken by some run: the evaluator never makes a violation up.
ContractReportsAreReal ==
  Checked => \A f \in Bodied : \A what \in {"requires", "ensures"} :
    \A d \in Reported(what) : d[2] = f.name => <<what, f.name>> \in Broken

=============================================================================
