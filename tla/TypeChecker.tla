----------------------------- MODULE TypeChecker -----------------------------
(***************************************************************************)
(* The type and effect checker (izel_typeck): after the signatures, the    *)
(* bodies, one top-level item a step.                                      *)
(*                                                                         *)
(* Expressions are the records of Declarations and                         *)
(*   tide, member, call, struct, branch, return, next, break, loop, while, *)
(*   each, raw, bind, witness, path, cascade, seek, zone                   *)
(* with the operand in the field of, a name in name and a block in body.   *)
(***************************************************************************)
EXTENDS Declarations

CONSTANTS
  Programs  \* the modules to check: [items, modules], modules by their paths

VARIABLES
  program,  \* the one being checked
  tc,       \* the checker
  pass,     \* "collect", "check" or "done"
  next      \* the place of the next item

vars == <<program, tc, pass, next>>

-----------------------------------------------------------------------------
(* Choosing among overloads *)

MethodPrims == {"i32", "i64", "u8", "u16", "u32", "u64", "f32", "f64", "bool", "str"}

\* Only primitive types have methods.
method_target_name(s, ty) ==
  Then(prune(s, ty), LAMBDA p : IF p.t = "prim" /\ p.p \in MethodPrims THEN <<p.p>> ELSE <<>>)

Wraps == {"optional", "cascade", "witness"}

RECURSIVE type_compatible_for_overload(_, _, _)
type_compatible_for_overload(s, expected, actual) ==
  Then(prune(s, expected), LAMBDA x : Then(prune(s, actual), LAMBDA a :
    LET Both(k) == x.t = k /\ a.t = k
        Inside(y) == type_compatible_for_overload(s, x.of, y)
    IN IF {x.t, a.t} \cap {"var", "error"} /= {} THEN TRUE
       ELSE IF Both("fn") THEN /\ Len(x.params) = Len(a.params)
                               /\ \A i \in DOMAIN x.params : type_compatible_for_overload(s, x.params[i], a.params[i])
       ELSE IF (\E k \in Wraps : Both(k)) \/ Both("pointer") \/ Both("builtin")
         THEN (Both("pointer") => x.mut = a.mut) /\ (Both("builtin") => x.b = a.b) /\ Inside(a.of)
       ELSE IF Wrapped(x) THEN Inside(a)
       ELSE x.t = "param" \/ x = a))

RECURSIVE overload_match_score(_, _, _)
overload_match_score(s, expected, actual) ==
  Then(prune(s, expected), LAMBDA x : Then(prune(s, actual), LAMBDA a :
    LET Both(k) == x.t = k /\ a.t = k
    IN IF x = a THEN 4
       ELSE IF "var" \in {x.t, a.t} \/ x.t = "param" THEN 1
       ELSE IF (\E k \in Wraps : Both(k)) \/ (Both("pointer") /\ x.mut = a.mut)
         THEN overload_match_score(s, x.of, a.of)
       ELSE 0))

\* Each candidate is instantiated, the fitting ones are [scheme, ty, score].
Ranked(s, candidates, args) ==
  LET Fits(t, ty) == /\ ty.t = "fn" /\ Len(ty.params) = Len(args)
                     /\ \A i \in DOMAIN args : type_compatible_for_overload(t, ty.params[i], args[i])
      Score(t, ty) == FoldLeft(LAMBDA n, i : n + overload_match_score(t, ty.params[i], args[i]),
                               0, [i \in DOMAIN args |-> i])
      Candidate(acc, scheme) ==
        Then(instantiate(acc.tc, scheme), LAMBDA t : Then(prune(t, t.ty), LAMBDA ty :
          [tc |-> t, ranked |-> IF Fits(t, ty)
             THEN Append(acc.ranked, [scheme |-> scheme, ty |-> ty, score |-> Score(t, ty)]) ELSE acc.ranked]))
  IN FoldLeft(Candidate, [tc |-> s, ranked |-> <<>>], candidates)

Best(ranked) == {i \in DOMAIN ranked : \A j \in DOMAIN ranked : ranked[j].score <= ranked[i].score}

\* The best candidate; if two are equally good there is none, and a report.
select_overload_candidates(s, name, candidates, args) ==
  Then(Ranked(s, candidates, args), LAMBDA r :
    CASE r.ranked = <<>> -> [tc |-> r.tc, selected |-> <<>>]
      [] Cardinality(Best(r.ranked)) = 1 -> [tc |-> r.tc, selected |-> <<r.ranked[CHOOSE i \in Best(r.ranked) : TRUE]>>]
      [] OTHER -> [tc |-> Report(r.tc, <<"ambiguous", name>>), selected |-> <<>>])

Methods(s, ty, method) ==
  Then(method_target_name(s, ty), LAMBDA name :
    IF name /= <<>> /\ <<name[1], method>> \in DOMAIN s.methods THEN s.methods[<<name[1], method>>] ELSE <<>>)

-----------------------------------------------------------------------------
(* Predicates of witnesses name parameters, which stand for the arguments *)

RECURSIVE substitute_expr(_, _)
substitute_expr(e, mapping) ==
  CASE e.k = "ident" /\ e.name \in DOMAIN mapping -> mapping[e.name]
    [] e.k = "binary" -> [e EXCEPT !.l = substitute_expr(@, mapping), !.r = substitute_expr(@, mapping)]
    [] OTHER -> e

RECURSIVE substitute_type(_, _)
substitute_type(ty, mapping) ==
  CASE ty.t = "predicate" -> Predicate(substitute_expr(ty.expr, mapping))
    [] ty.t \in {"witness", "optional", "cascade", "pointer"} -> [ty EXCEPT !.of = substitute_type(@, mapping)]
    [] ty.t = "fn" -> [ty EXCEPT !.params = [i \in DOMAIN @ |-> substitute_type(@[i], mapping)],
                                 !.ret = substitute_type(@, mapping)]
    [] OTHER -> ty

-----------------------------------------------------------------------------
(* Effects of a call *)

apply_boundaries_for_callee(s, callee, effects) ==
  IF callee.k = "ident" /\ callee.name \in DOMAIN s.boundaries
  THEN apply_effect_boundary(s, effects, s.boundaries[callee.name]) ELSE effects

\* Mutant: a call adds the effects it contains as well.
PerformUnbounded(s, callee, effects) ==
  IF s.current_effects = <<>> THEN s ELSE accumulate_effects(s, Last(s.current_effects), effects)

Perform(s, callee, effects) ==
  IF s.current_effects = <<>> THEN s
  ELSE accumulate_effects(s, Last(s.current_effects), apply_boundaries_for_callee(s, callee, effects))

InEffects(s) == Then(new_effect_var(s), LAMBDA t : [t EXCEPT !.current_effects = Append(@, NewestEffectVar(t))])

\* Mutant: the effects of what was inside stay the current ones.
StayInEffects(s) == s

OutOfEffects(s) == [s EXCEPT !.current_effects = Front(@)]

-----------------------------------------------------------------------------
(* Expressions, statements and blocks *)

ArithmeticWeave == "+" :> <<"Add", "add">> @@ "-" :> <<"Sub", "sub">> @@ "*" :> <<"Mul", "mul">> @@ "/" :> <<"Div", "div">>

RECURSIVE infer_expr(_, _), infer_call(_, _), check_stmt(_, _), check_block_with_expected(_, _, _), bind_pattern(_, _, _)

\* Left to right, the types in tys.
InferAll(s, es) ==
  FoldLeft(LAMBDA acc, e : Then(infer_expr(acc.tc, e), LAMBDA t : [tc |-> t, tys |-> Append(acc.tys, t.ty)]),
           [tc |-> s, tys |-> <<>>], es)

\* Unified, and reported if that fails.
Fitting(s, expected, actual, report) ==
  Then(unify(s, expected, actual), LAMBDA u : IF u.ok THEN u ELSE Report(u, report))

Statement(acc, stmt) ==
  Then(check_stmt(acc.tc, stmt), LAMBDA t : [tc |-> t, returns |-> acc.returns \/ prune(t, t.ty) = Never])
Statements(s, b) == FoldLeft(Statement, [tc |-> s, returns |-> FALSE], b.stmts)

\* A block that may diverge fits any type; its own is void if it has no last expression.
Ending(state, b, expected) ==
  Then(IF b.expr = <<>> THEN Give(state.tc, Void) ELSE infer_expr(state.tc, b.expr[1]), LAMBDA s :
    IF expected = <<>> \/ state.returns \/ prune(s, s.ty) = Never THEN s
    ELSE LET pair == IF b.expr = <<>> THEN <<Void, expected[1]>> ELSE <<expected[1], s.ty>>
         IN Fitting(s, pair[1], pair[2], <<"block", "">>))

\* Mutant: a block's declarations outlive it.
check_block_in_scope(s, b, expected) == Ending(Statements(s, b), b, expected)

check_block_with_expected(s, b, expected) == pop_scope(Ending(Statements(push_scope(s), b), b, expected))

check_block(s, b) == check_block_with_expected(s, b, <<>>)

\* A block as an expression: its type is a new variable, which it has to fit.
BlockType(s, b) == Then(new_var(s), LAMBDA r : Give(check_block_with_expected(r, b, <<r.ty>>), r.ty))

\* The first implementation that fits binds the left operand; one that has no such method leaves it bound.
resolve_binary_op(s, lt, rt, weave, method) ==
  LET Try(acc, impl) ==
        IF acc.found THEN acc
        ELSE Then(unify(acc.tc, lt, impl.target), LAMBDA u :
               Then(SelectSeq(impl.forges, LAMBDA f : f.name = method), LAMBDA fs :
                 IF u.ok /\ fs /= <<>> THEN [tc |-> lower_ast_type(u, fs[1].ret), found |-> TRUE] ELSE [acc EXCEPT !.tc = u]))
      Tried(t) == FoldLeft(Try, [tc |-> t, found |-> FALSE], IF weave \in DOMAIN t.impls THEN t.impls[weave] ELSE <<>>)
      prims == prune(s, lt).t = "prim" /\ prune(s, rt).t = "prim"
  IN Then(IF prims THEN unify(s, lt, rt) ELSE Verdict(s, FALSE), LAMBDA same :
       IF same.ok THEN Give(same, lt)
       ELSE Then(Tried(same), LAMBDA tried :
              IF tried.found THEN tried.tc ELSE Give(Report(tried.tc, <<"operator", weave>>), Error)))

\* The type a let is written with, or a new variable.
LetType(s, stmt) ==
  Then(new_var(s), LAMBDA v :
    IF stmt.ty = <<>> THEN v
    ELSE Then(lower_ast_type(v, stmt.ty[1]), LAMBDA w : Give(unify(w, v.ty, w.ty), w.ty)))

\* What is quantified are the variables made since the let began.
Binding(s, stmt, ty) ==
  Then([s EXCEPT !.level = @ - 1], LAMBDA out :
    define_scheme(out, IF stmt.pat.k = "ident" THEN stmt.pat.name ELSE "_", generalize(out, prune(out, ty))))

Assignable(s, stmt) == stmt.target.k = "ident" /\ Known(s, stmt.target.name)

\* The type a statement's value has to fit is known before it for a let, after it for an assignment.
check_stmt(s, stmt) ==
  Then(IF stmt.k = "let" THEN LetType([s EXCEPT !.level = @ + 1], stmt) ELSE s, LAMBDA typed :
  Then(IF stmt.k = "let" /\ stmt.init = <<>> THEN typed
       ELSE infer_expr(typed, IF stmt.k = "let" THEN stmt.init[1] ELSE stmt.of), LAMBDA value :
  Then(IF stmt.k = "assign" /\ Assignable(value, stmt) THEN resolve_name(value, stmt.target.name, Error) ELSE typed,
       LAMBDA place :
    LET fits == Fitting(IF stmt.k = "assign" THEN place ELSE value, place.ty, value.ty, <<stmt.k, "">>)
    IN CASE stmt.k = "let" -> Give(Binding(IF stmt.init = <<>> THEN typed ELSE fits, stmt, typed.ty), Void)
         [] stmt.k = "assign" -> Give(IF Assignable(value, stmt) THEN fits ELSE Report(value, <<"target", "">>), Void)
         [] OTHER -> value)))

bind_pattern(s, pattern, ty0) ==
  Then(prune(s, ty0), LAMBDA ty :
    CASE pattern.k = "ident" -> define(s, pattern.name, ty)
      [] pattern.k = "variant" ->
           FoldLeft(LAMBDA t, p : bind_pattern(t, p, IF Wrapped(ty) THEN ty.of ELSE Error), s, pattern.parts)
      [] OTHER -> s)

\* The preconditions that are false of the arguments, if all of them are constants.
Broken_requires(e, scheme) ==
  Then([i \in DOMAIN e.args |-> eval_expr(e.args[i], NoContext)], LAMBDA values :
    IF e.callee.k = "ident" /\ scheme.requires /= <<>> /\ Unknown \notin ToSet(values)
    THEN SetToSeq(check_requires(scheme.params, scheme.requires, values)) ELSE <<>>)

\* The postconditions that are false of the body's value, if it is a constant.
Broken_ensures(f) ==
  IF f.body[1].expr = <<>> THEN <<>>
  ELSE Then(eval_expr(f.body[1].expr[1], NoContext), LAMBDA value :
         IF value = Unknown THEN <<>> ELSE SetToSeq(check_ensures(f.ensures, value)))

\* The arguments are inferred again, and whether they fit is not asked.
apply_selected_call(s, e, args, chosen) ==
  LET reported == Reports(s, OnceEach(Broken_requires(e, chosen.scheme), <<"requires", e.callee.name>>))
      places == DOMAIN chosen.scheme.params \cap DOMAIN args
      mapping == [n \in {chosen.scheme.params[i] : i \in places} |->
                    args[CHOOSE i \in places : chosen.scheme.params[i] = n]]
      Argument(t, i) ==
        Then(infer_expr(t, args[i]), LAMBDA a : unify(a, substitute_type(chosen.ty.params[i], mapping), a.ty))
  IN Give(FoldLeft(Argument, Perform(reported, e.callee, chosen.ty.effects),
                   [i \in DOMAIN args \cap DOMAIN chosen.ty.params |-> i]),
          substitute_type(chosen.ty.ret, mapping))

\* What the callee turns out to be; if not a forge, nothing is said.
ApplyAny(s, e, tys) ==
  Then(infer_expr(s, e.callee), LAMBDA callee : Then(prune(callee, callee.ty), LAMBDA ty :
    IF ty.t = "fn"
    THEN Give(FoldLeft(LAMBDA t, i : unify(t, ty.params[i], tys[i]), Perform(callee, e.callee, ty.effects),
                       [i \in DOMAIN tys \cap DOMAIN ty.params |-> i]), ty.ret)
    ELSE new_var(callee)))

\* An accessor of the allocator of a zone: zone.allocator(), zone::allocator() or name::allocator().
ZoneAllocator == Prim("zone_allocator")
Accessor(e) ==
  CASE e.args = <<>> /\ e.callee.k = "member" ->
         IF e.callee.name = "allocator" /\ e.callee.of.k = "ident" THEN <<e.callee.of.name>> ELSE <<>>
    [] e.args = <<>> /\ e.callee.k = "path" ->
         IF Len(e.callee.parts) = 2 /\ e.callee.parts[2] = "allocator" THEN <<e.callee.parts[1]>> ELSE <<>>
    [] OTHER -> <<>>

validate_inline_asm_call(s, args) ==
  Reports(s, OnceEach(SelectSeq(<<s.raw, args /= <<>>, args /= <<>> => args[1].k = "lit" /\ args[1].lit = "str">>,
                                LAMBDA fine : ~ fine), <<"asm", "">>))

\* The forges or methods that may be meant.
Candidates(s, e, tys) ==
  CASE e.callee.k = "ident"  -> IF e.callee.name \in DOMAIN s.overloads THEN s.overloads[e.callee.name]
                                ELSE resolve_scheme(s, e.callee.name)
    [] e.callee.k = "member" -> Methods(s, tys[1], e.callee.name)
    [] OTHER -> <<>>

infer_call(s, e) ==
  LET zone == Accessor(e)
      args == IF e.callee.k = "member" THEN <<e.callee.of>> \o e.args ELSE e.args
  IN IF e.callee = [k |-> "ident", name |-> "asm"] THEN Give(validate_inline_asm_call(s, e.args), Void)
     ELSE IF zone = <<"zone">> THEN
       IF s.zones > 0 THEN Give(s, ZoneAllocator) ELSE Give(Report(s, <<"zone", "">>), Error)
     ELSE IF zone /= <<>> /\ resolve_name(s, zone[1], Error).ty = ZoneAllocator THEN Give(s, ZoneAllocator)
     ELSE Then(InferAll(s, args), LAMBDA inferred :
            Then(select_overload_candidates(inferred.tc, e.callee.name, Candidates(inferred.tc, e, inferred.tys), inferred.tys),
                 LAMBDA c : IF c.selected = <<>> THEN ApplyAny(c.tc, e, inferred.tys)
                            ELSE apply_selected_call(c.tc, e, args, c.selected[1])))

Prims == [int |-> "i32", float |-> "f64", str |-> "str", bool |-> "bool", nil |-> "none"]

infer_unary(s, e) ==
  Then(IF e.op = "*" THEN new_var(s) ELSE s, LAMBDA v :
    CASE e.op \in {"-", "!", "*"} ->
           Give(unify(v, s.ty, CASE e.op = "-" -> Prim("i32") [] e.op = "!" -> Bool [] OTHER -> Pointer(v.ty, FALSE)), v.ty)
      [] e.op \in {"&", "&~"} -> Give(s, Pointer(s.ty, e.op = "&~"))
      [] OTHER -> s)

infer_binary(s, e) ==
  Then(infer_expr(s, e.l), LAMBDA l : Then(infer_expr(l, e.r), LAMBDA r :
    IF e.op \in DOMAIN ArithmeticWeave
    THEN resolve_binary_op(r, l.ty, r.ty, ArithmeticWeave[e.op][1], ArithmeticWeave[e.op][2])
    ELSE Give(unify(r, l.ty, r.ty), IF e.op \in Comparisons THEN Bool ELSE l.ty)))

infer_given(s, e) ==
  Then(infer_expr(s, e.cond), LAMBDA c : Then(new_var(unify(c, c.ty, Bool)), LAMBDA v :
    Then(check_block_with_expected(v, e.then, <<v.ty>>), LAMBDA then :
      Then(IF e.else = <<>> THEN Give(then, Void) ELSE infer_expr(then, e.else[1]), LAMBDA else :
        Give(unify(else, v.ty, else.ty), v.ty)))))

infer_branch(s, e) ==
  Then(new_var(s), LAMBDA v :
    LET Arm(t, arm) ==
          Then(infer_expr(bind_pattern(push_scope(t), arm.pat, s.ty), arm.body), LAMBDA a :
            pop_scope(unify(a, v.ty, a.ty)))
    IN Give(FoldLeft(Arm, v, e.arms), v.ty))

infer_bind(s, e) ==
  LET Bound(acc, p) == Then(new_var(acc.tc), LAMBDA v : [tc |-> define(v, p, v.ty), tys |-> Append(acc.tys, v.ty)])
  IN Then(FoldLeft(Bound, [tc |-> push_scope(s), tys |-> <<>>], e.params), LAMBDA ps :
       Then(infer_expr(InEffects(ps.tc), e.of), LAMBDA b :
         Give(pop_scope(OutOfEffects(b)), Forge(ps.tys, b.ty, Last(b.current_effects)))))

\* The catch block has what was raised in a scope of its own.
infer_seek(s, e) ==
  LET Scoped(t, block) == IF block = "body" THEN t
                          ELSE IF e.var = <<>> THEN push_scope(t) ELSE define(push_scope(t), e.var[1], Adt)
  IN Then(new_var(s), LAMBDA v :
       LET Block(t, block) ==
             Then(check_block_with_expected(Scoped(t, block), IF block = "body" THEN e.body ELSE e.catch[1], <<v.ty>>),
                  LAMBDA b : Give(IF block = "body" THEN b ELSE pop_scope(b), v.ty))
       IN FoldLeft(Block, v, IF e.catch = <<>> THEN <<"body">> ELSE <<"body", "catch">>))

\* In a scope that has the allocator; or in none but its own.
infer_zone(s, e) ==
  Then(IF e.k = "zone" THEN define([push_scope(s) EXCEPT !.zones = @ + 1], e.name, ZoneAllocator) ELSE s, LAMBDA in :
    Then(BlockType(in, e.body), LAMBDA b : IF e.k = "zone" THEN pop_scope([b EXCEPT !.zones = @ - 1]) ELSE b))

\* The item of an each, of any type, has a scope around the body's.
infer_loop(s, e) ==
  Then(IF e.k = "each" THEN Then(new_var(s), LAMBDA v : define(push_scope(v), e.name, v.ty)) ELSE s, LAMBDA in :
    Then(check_block(in, e.body), LAMBDA b : Give(IF e.k = "each" THEN pop_scope(b) ELSE b, Void)))

infer_witness(s, e) ==
  Then(lower_generic_arg(s, e.arg), LAMBDA p :
    Give(IF is_proof_mode(s) THEN p ELSE Report(p, <<"witness", "">>), Witness(p.ty)))

\* Those whose operand is inferred first.
infer_with_operand(s, e, of) ==
  CASE e.k = "unary" -> infer_unary(of, e)
    [] e.k = "tide" -> of
    [] e.k = "member" -> Then(Methods(of, of.ty, e.name), LAMBDA ms : IF ms = <<>> THEN new_var(of) ELSE instantiate(of, ms[1]))
    [] e.k = "branch" -> infer_branch(of, e)
    [] e.k = "return" -> Give(IF of.expected_ret = <<>> THEN of ELSE unify(of, of.ty, of.expected_ret[1]), Never)
    [] e.k = "raw" -> [of EXCEPT !.raw = s.raw, !.ty = IF e.of.k = "block" THEN @ ELSE Witness(@)]
    [] e.k = "each" -> infer_loop(of, e)
    [] e.k = "cascade" ->
         Then(new_var(of), LAMBDA v :
           IF e.context = <<>> THEN v
           ELSE Then(infer_expr(v, e.context[1]), LAMBDA c : Give(unify(c, c.ty, v.ty), v.ty)))

\* Of most unifications here the verdict is dropped.  Not looked into at all: the condition
\* of a while, and the fields of a struct literal, since no type has known fields.
infer_expr(s, e) ==
  CASE e.k = "lit" -> Give(s, Prim(Prims[e.lit]))
    [] e.k = "ident" -> resolve_name(s, e.name, Error)
    [] e.k = "binary" -> infer_binary(s, e)
    [] e.k \in {"unary", "tide", "member", "branch", "return", "raw", "each", "cascade"} ->
         Then(infer_expr(CASE e.k = "tide" /\ ~ s.flow -> Report(s, <<"tide", "">>)
                           [] e.k = "raw" -> [s EXCEPT !.raw = TRUE] [] OTHER -> s, e.of),
              LAMBDA of : infer_with_operand(s, e, of))
    [] e.k = "given" -> infer_given(s, e)
    [] e.k = "call" -> infer_call(s, e)
    [] e.k = "struct" -> Then(new_var(s), LAMBDA v : resolve_name(v, e.name, v.ty))
    [] e.k \in {"next", "break"} -> Give(s, Void)
    [] e.k \in {"loop", "while"} -> infer_loop(s, e)
    [] e.k = "bind" -> infer_bind(s, e)
    [] e.k = "witness" -> infer_witness(s, e)
    [] e.k = "path" -> IF Len(e.parts) = 1 THEN resolve_name(s, e.parts[1], Error) ELSE Give(s, Error)
    [] e.k = "seek" -> infer_seek(s, e)
    [] e.k \in {"zone", "block"} -> infer_zone(s, e)

-----------------------------------------------------------------------------
(* Items *)

\* The body's effects against the declared ones, of the signature made anew.
check_body(s0, f, ret) ==
  Then(check_block_with_expected(InEffects(s0), f.body[1], <<ret>>), LAMBDA b :
    Then(collect_forge_signature(OutOfEffects(b), f), LAMBDA sig :
      Then(unify_effects(sig, Last(b.current_effects), sig.ty.ty.effects), LAMBDA u :
        Reports(IF u.ok THEN u ELSE Report(u, <<"effects", f.name>>),
                OnceEach(Broken_ensures(f), <<"ensures", f.name>>)))))

check_forge(s, f) ==
  LET WithParam(t, p) == Then(ParamType(t, p), LAMBDA q : define(q, p.name, q.ty))
  IN Then(lower_ast_type(WithGenerics([s EXCEPT !.flow = f.flow], f.generics), f.ret), LAMBDA ret :
       Then(FoldLeft(WithParam, [ret EXCEPT !.expected_ret = <<ret.ty>>, !.attributes = {a.name : a \in ToSet(f.attrs)}],
                     f.params), LAMBDA params :
         Then(IF f.body = <<>> THEN params ELSE check_body(params, f, ret.ty), LAMBDA checked :
           pop_scope([checked EXCEPT !.attributes = s.attributes, !.expected_ret = s.expected_ret, !.flow = s.flow]))))

\* Each forge the weave asks for is there, with no effects the weave does not have.
check_impl(s, i) ==
  LET expected == IF i.weave /= <<>> /\ i.weave[1] \in DOMAIN s.weaves THEN s.weaves[i.weave[1]] ELSE <<>>
      Method(t, m) ==
        LET found == SelectSeq(ForgesOf(i), LAMBDA f : f.name = m.name)
        IN IF found = <<>> THEN Report(t, <<"missing", m.name>>)
           ELSE Then(unify_effects(t, effect_set_from_names(found[1].effects), effect_set_from_names(m.effects)), LAMBDA u :
                  IF u.ok THEN u ELSE Report(u, <<"introduces", m.name>>))
  IN FoldLeft(Method, s, expected)

verify_dual(s, d) ==
  IF {"encode", "decode"} \subseteq {f.name : f \in ToSet(ForgesOf(d))} THEN s ELSE Report(s, <<"dual", d.name>>)

\* An echo block is pure and computed; what it binds or assigns is known to what follows.
Refused(acc) == [acc EXCEPT !.tc = Report(@, <<"echo", "">>)]
EchoStatement(acc, stmt) ==
  LET name == IF stmt.k = "let" THEN stmt.pat ELSE stmt.target
  IN IF stmt.k = "let" /\ stmt.init = <<>> THEN Refused(acc)
     ELSE Then(eval_expr(IF stmt.k = "let" THEN stmt.init[1] ELSE stmt.of, acc.context), LAMBDA value :
            IF value = Unknown THEN Refused(acc)
            ELSE IF stmt.k = "expr" THEN acc
            ELSE IF name.k /= "ident" \/ (stmt.k = "assign" /\ name.name \notin DOMAIN acc.context) THEN Refused(acc)
            ELSE [acc EXCEPT !.context = With(@, name.name, value)])

check_echo(s, e) ==
  Then(check_block(InEffects(s), e.body), LAMBDA b :
    Then(FoldLeft(EchoStatement,
                  [tc |-> IF effect_set_is_pure(b, Last(b.current_effects)) THEN OutOfEffects(b)
                          ELSE Report(OutOfEffects(b), <<"echo", "">>),
                   context |-> NoContext], e.body.stmts), LAMBDA end :
      IF e.body.expr /= <<>> /\ eval_expr(e.body.expr[1], end.context) = Unknown THEN Refused(end).tc ELSE end.tc))

\* A drawn module's bodies are not checked.
RECURSIVE check_item(_, _)
check_item(s, item) ==
  LET All(t) == FoldLeft(check_item, t, item.items)
  IN CASE item.k = "forge" -> check_forge(s, item)
       [] item.k = "impl" ->
            Then(lower_ast_type(s, item.target), LAMBDA self :
              [All(check_impl([self EXCEPT !.current_self = <<self.ty>>], item)) EXCEPT !.current_self = s.current_self])
       [] item.k \in {"ward", "bridge"} -> All(s)
       [] item.k = "dual" -> verify_dual(All(s), item)
       [] item.k = "echo" -> check_echo(s, item)
       [] OTHER -> s

-----------------------------------------------------------------------------
(* check_project *)

with_builtins ==
  LET Builtin1(f, n) == With(f, n, Mono(Prim(n)))
      prims == FoldLeft(Builtin1, NoBindings, SetToSeq({"i32", "bool", "str", "void"}))
  IN [NewChecker EXCEPT !.env = <<With(With(prims, "int", Mono(Prim("i32"))), "ptr", Mono(Pointer(Void, FALSE)))>>]

Init ==
  /\ program \in Programs
  /\ tc = [with_builtins EXCEPT !.modules = program.modules]
  /\ pass = "collect" /\ next = 1

Advance(nextPass) ==
  IF next < Len(program.items) THEN next' = next + 1 /\ pass' = pass ELSE next' = 1 /\ pass' = nextPass

CollectSignature ==
  /\ pass = "collect"
  /\ tc' = collect_item_signature(tc, program.items[next])
  /\ Advance("check") /\ UNCHANGED program

CheckItem ==
  /\ pass = "check"
  /\ tc' = check_item(tc, program.items[next])
  /\ Advance("done") /\ UNCHANGED program

Next == CollectSignature \/ CheckItem
Spec == Init /\ [][Next]_vars /\ WF_vars(Next)

=============================================================================
