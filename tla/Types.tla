-------------------------------- MODULE Types --------------------------------
(***************************************************************************)
(* The type checker's terms and what it does with them (izel_typeck):      *)
(* inference variables and their levels, unification of types and of       *)
(* effect rows, schemes, and the lowering of written types.                *)
(*                                                                         *)
(* A checker is a record, and an operator that changes it returns the new  *)
(* one, with a type it computed in the field ty and a verdict in ok.       *)
(*                                                                         *)
(* Left out: anonymous shapes and effect parameters, which no program      *)
(* makes; the lifetimes of pointers, since every one the lowering makes is *)
(* the same; the bounds of generics, whose check (verify_bound) does       *)
(* nothing whatever it finds; and the types recorded for later phases.     *)
(***************************************************************************)
EXTENDS Integers, SequencesExt, FiniteSetsExt

\* Types.  A type built around another has it in the field of.
Prim(p)        == [t |-> "prim", p |-> p]
Adt            == [t |-> "adt"]  \* each shape, scroll and dual is Adt(DefId(0))
Optional(x)    == [t |-> "optional", of |-> x]
Cascade(x)     == [t |-> "cascade", of |-> x]
Pointer(x, m)  == [t |-> "pointer", of |-> x, mut |-> m]
Witness(x)     == [t |-> "witness", of |-> x]
Builtin(b, x)  == [t |-> "builtin", of |-> x, b |-> b]  \* NonZero, InBounds, Sorted
Assoc(x, n)    == [t |-> "assoc", of |-> x, name |-> n]
Forge(ps, r, e) == [t |-> "fn", params |-> ps, ret |-> r, effects |-> e]
Predicate(e)   == [t |-> "predicate", expr |-> e]
Param(n)       == [t |-> "param", name |-> n]
Var(id)        == [t |-> "var", id |-> id]
Error          == [t |-> "error"]

Void  == Prim("void")
Bool  == Prim("bool")
Never == Prim("never")
None  == Prim("none")

\* Effects: a fixed set, a variable, or a row of effects and a tail.
Concrete(s)    == [e |-> "concrete", s |-> s]
Row(s, tail)   == [e |-> "row", s |-> s, tail |-> tail]
EffectVar(id)  == [e |-> "var", id |-> id]
Pure           == Concrete({"pure"})

NoBindings == [id \in {} |-> Error]
NewChecker ==
  [subst |-> NoBindings, levels |-> <<>>,    \* what variables stand for; the level each was made at
   esubst |-> NoBindings, elevels |-> <<>>,  \* the same for effect variables
   level |-> 0,
   env |-> <<NoBindings>>,                   \* scopes, innermost last: name -> scheme
   overloads |-> NoBindings,                 \* name -> sequence of schemes
   methods |-> NoBindings,                   \* <<type's name, method>> -> sequence of schemes
   weaves |-> NoBindings, impls |-> NoBindings,
   boundaries |-> NoBindings,                \* forge's name -> effects it contains
   expected_ret |-> <<>>, current_effects |-> <<>>, current_self |-> <<>>,
   attributes |-> {}, raw |-> FALSE, flow |-> FALSE, zones |-> 0,
   modules |-> NoBindings, drawn |-> {},
   diagnostics |-> <<>>,
   ty |-> Error, ok |-> TRUE]

\* What follows a step of the checker, of what the step returns.
Then(step, Rest(_)) == Rest(step)

Report(tc, d)   == [tc EXCEPT !.diagnostics = Append(@, d)]
Give(tc, ty)    == [tc EXCEPT !.ty = ty]
Verdict(tc, ok) == [tc EXCEPT !.ok = ok]
With(f, k, v)   == (k :> v) @@ f
Added(f, k, v)  == IF k \in DOMAIN f THEN [f EXCEPT ![k] = Append(@, v)] ELSE With(f, k, <<v>>)

new_var(tc) ==
  [tc EXCEPT !.levels = Append(@, tc.level), !.ty = Var(Len(tc.levels) + 1)]

\* The variable is EffectVar(Len(elevels)).
new_effect_var(tc) == [tc EXCEPT !.elevels = Append(@, tc.level)]
NewestEffectVar(tc) == EffectVar(Len(tc.elevels))

RECURSIVE prune(_, _)
prune(tc, ty) ==
  IF ty.t = "var" /\ ty.id \in DOMAIN tc.subst THEN prune(tc, tc.subst[ty.id]) ELSE ty

RECURSIVE prune_effects(_, _)
prune_effects(tc, es) ==
  IF es.e = "var" /\ es.id \in DOMAIN tc.esubst THEN prune_effects(tc, tc.esubst[es.id]) ELSE es

-----------------------------------------------------------------------------
(* Scopes and schemes *)

push_scope(tc) == [tc EXCEPT !.env = Append(@, NoBindings)]
pop_scope(tc)  == [tc EXCEPT !.env = Front(@)]

Mono(ty) == [vars |-> {}, evars |-> {}, names |-> {}, ty |-> ty, params |-> <<>>, requires |-> <<>>]

define_scheme(tc, name, scheme) == [tc EXCEPT !.env[Len(tc.env)] = With(@, name, scheme)]
define(tc, name, ty) == define_scheme(tc, name, Mono(ty))

\* The scheme of the innermost scope that has the name, in a sequence, or none.
resolve_scheme(tc, name) ==
  LET i == SelectLastInSeq(tc.env, LAMBDA scope : name \in DOMAIN scope)
  IN IF i = 0 THEN <<>> ELSE <<tc.env[i][name]>>

\* find_gen_vars does not look under a witness.
RECURSIVE VarsIn(_, _)
VarsIn(tc, ty0) ==
  LET ty == prune(tc, ty0)
  IN CASE ty.t = "var" -> {ty.id}
       [] ty.t = "fn" -> VarsIn(tc, ty.ret) \cup UNION {VarsIn(tc, ty.params[i]) : i \in DOMAIN ty.params}
       [] ty.t \in {"optional", "cascade", "pointer", "builtin", "assoc"} -> VarsIn(tc, ty.of)
       [] OTHER -> {}

RECURSIVE NamesIn(_, _)
NamesIn(tc, ty0) ==
  LET ty == prune(tc, ty0)
  IN CASE ty.t = "param" -> {ty.name}
       [] ty.t = "fn" -> NamesIn(tc, ty.ret) \cup UNION {NamesIn(tc, ty.params[i]) : i \in DOMAIN ty.params}
       [] ty.t \in {"optional", "cascade", "pointer", "builtin", "assoc"} -> NamesIn(tc, ty.of)
       [] OTHER -> {}

RECURSIVE EffectVarsOf(_, _)
EffectVarsOf(tc, es0) ==
  LET es == prune_effects(tc, es0)
  IN CASE es.e = "var" -> {es.id}
       [] es.e = "row" -> EffectVarsOf(tc, es.tail)
       [] OTHER -> {}

RECURSIVE EffectVarsIn(_, _)
EffectVarsIn(tc, ty0) ==
  LET ty == prune(tc, ty0)
  IN CASE ty.t = "fn" -> EffectVarsOf(tc, ty.effects) \cup EffectVarsIn(tc, ty.ret)
                         \cup UNION {EffectVarsIn(tc, ty.params[i]) : i \in DOMAIN ty.params}
       [] ty.t \in {"optional", "cascade", "pointer", "builtin", "assoc"} -> EffectVarsIn(tc, ty.of)
       [] OTHER -> {}

generalize(tc, ty) ==
  [Mono(ty) EXCEPT !.vars  = {v \in VarsIn(tc, ty) : tc.levels[v] > tc.level},
                   !.evars = {v \in EffectVarsIn(tc, ty) : tc.elevels[v] > tc.level},
                   !.names = NamesIn(tc, ty)]

RECURSIVE substitute_effects(_, _, _)
substitute_effects(tc, es0, m) ==
  LET es == prune_effects(tc, es0)
  IN CASE es.e = "var" /\ es.id \in DOMAIN m -> m[es.id]
       [] es.e = "row" -> Row(es.s, substitute_effects(tc, es.tail, m))
       [] OTHER -> es

\* A variable that stands for a type is left as it is, whatever is quantified in that type.
RECURSIVE substitute_scheme(_, _, _, _, _)
substitute_scheme(tc, ty, m, em, nm) ==
  CASE ty.t = "var" /\ ty.id \in DOMAIN m -> m[ty.id]
    [] ty.t = "param" /\ ty.name \in DOMAIN nm -> nm[ty.name]
    [] ty.t = "fn" -> Forge([i \in DOMAIN ty.params |-> substitute_scheme(tc, ty.params[i], m, em, nm)],
                            substitute_scheme(tc, ty.ret, m, em, nm), substitute_effects(tc, ty.effects, em))
    [] ty.t \in {"optional", "cascade", "pointer", "builtin", "assoc"} ->
         [ty EXCEPT !.of = substitute_scheme(tc, @, m, em, nm)]
    [] OTHER -> ty

\* Fresh variables for the members of S, in some order, from the id n on.
Fresh(S, n, Make(_)) == LET s == SetToSeq(S) IN [x \in S |-> Make(n + SelectInSeq(s, LAMBDA y : y = x))]

instantiate(tc, scheme) ==
  LET n  == Len(tc.levels)  v == Cardinality(scheme.vars)
      m  == Fresh(scheme.vars, n, Var)
      nm == Fresh(scheme.names, n + v, Var)
      em == Fresh(scheme.evars, Len(tc.elevels), EffectVar)
  IN [tc EXCEPT !.levels  = @ \o [i \in 1 .. v + Cardinality(scheme.names) |-> tc.level],
                !.elevels = @ \o [i \in 1 .. Cardinality(scheme.evars) |-> tc.level],
                !.ty = substitute_scheme(tc, scheme.ty, m, em, nm)]

\* What the name has for a type, or the other type given.
resolve_name(tc, name, otherwise) ==
  Then(resolve_scheme(tc, name), LAMBDA found : IF found = <<>> THEN Give(tc, otherwise) ELSE instantiate(tc, found[1]))
Known(tc, name) == resolve_scheme(tc, name) /= <<>>

-----------------------------------------------------------------------------
(* Effect rows *)

RECURSIVE occurs_check_effects(_, _, _)
occurs_check_effects(tc, id, es0) ==
  LET es == prune_effects(tc, es0)
  IN \/ es.e = "var" /\ es.id = id
     \/ es.e = "row" /\ occurs_check_effects(tc, id, es.tail)

AdjustedEffects(tc, level, es) ==
  [id \in DOMAIN tc.elevels |->
     IF id \in EffectVarsOf(tc, es) /\ tc.elevels[id] > level THEN level ELSE tc.elevels[id]]

bind_effect_var(tc, id, es) ==
  IF es = EffectVar(id) THEN Verdict(tc, TRUE)
  ELSE IF occurs_check_effects(tc, id, es) THEN Verdict(tc, FALSE)
  ELSE Verdict([tc EXCEPT !.elevels = AdjustedEffects(tc, tc.elevels[id], es), !.esubst = With(@, id, es)], TRUE)

\* The first are the effects there are, the second the effects declared.
RECURSIVE unify_effects(_, _, _)
unify_effects(tc, es1, es2) ==
  LET a == prune_effects(tc, es1)  b == prune_effects(tc, es2)
      Against(row, set) ==
        IF "pure" \in set.s /\ row.s = {} THEN Verdict(tc, TRUE)
        ELSE IF ~ row.s \subseteq set.s THEN Verdict(tc, FALSE)
        ELSE unify_effects(tc, row.tail, Concrete(set.s \ row.s))
  IN IF a.e = "var" THEN bind_effect_var(tc, a.id, b)
     ELSE IF b.e = "var" THEN bind_effect_var(tc, b.id, a)
     ELSE IF a.e = "concrete" /\ b.e = "concrete" THEN
       Verdict(tc, \/ (a.s = {} \/ "pure" \in a.s) /\ (b.s = {} \/ "pure" \in b.s)
                   \/ a.s \ {"pure"} \subseteq b.s)
     ELSE IF a.e = "row" /\ b.e = "row" THEN
       IF a.s = b.s THEN unify_effects(tc, a.tail, b.tail) ELSE Verdict(tc, FALSE)
     ELSE IF a.e = "row" THEN Against(a, b) ELSE Against(b, a)

\* Mutant: what has an effect takes no further one.
add_first_effect(tc, es0, effect) ==
  LET es == prune_effects(tc, es0)
      s  == new_effect_var(tc)
  IN IF es.e = "var" THEN bind_effect_var(s, es.id, Row({effect}, NewestEffectVar(s))) ELSE tc

\* What is fixed already takes no further effect.
RECURSIVE add_single_effect(_, _, _)
add_single_effect(tc, es0, effect) ==
  LET es == prune_effects(tc, es0)
      s  == new_effect_var(tc)
  IN CASE es.e = "var" -> bind_effect_var(s, es.id, Row({effect}, NewestEffectVar(s)))
       [] es.e = "row" -> IF effect \in es.s THEN tc ELSE add_single_effect(tc, es.tail, effect)
       [] OTHER -> tc

RECURSIVE accumulate_effects(_, _, _)
accumulate_effects(tc, current0, new0) ==
  LET current == prune_effects(tc, current0)
      new     == prune_effects(tc, new0)
      Adding(s, effect) == add_single_effect(s, current, effect)
  IN CASE new.e = "var" -> unify_effects(tc, current, new)
       [] new.e = "concrete" -> FoldLeft(Adding, tc, SetToSeq(new.s))
       [] OTHER -> accumulate_effects(FoldLeft(Adding, tc, SetToSeq(new.s)), current, new.tail)

RECURSIVE effect_set_is_pure(_, _)
effect_set_is_pure(tc, es0) ==
  LET es == prune_effects(tc, es0)
  IN /\ es.e /= "var" => es.s \subseteq {"pure"}
     /\ es.e = "row" => effect_set_is_pure(tc, es.tail)

effect_set_from_names(names) == IF names = {} \/ "pure" \in names THEN Pure ELSE Concrete(names)

RECURSIVE apply_effect_boundary(_, _, _)
apply_effect_boundary(tc, es0, contained) ==
  LET es == prune_effects(tc, es0)
  IN CASE es.e = "concrete" -> LET left == es.s \ contained IN IF left = {} THEN Pure ELSE Concrete(left)
       [] es.e = "row" -> Row(es.s \ contained, apply_effect_boundary(tc, es.tail, contained))
       [] OTHER -> es

-----------------------------------------------------------------------------
(* Written types: [k |-> "name" | "path" | "optional" | ...] *)

WrittenPrims ==
  [int |-> "i32", i32 |-> "i32", i64 |-> "i64", u8 |-> "u8", u16 |-> "u16", u32 |-> "u32", u64 |-> "u64",
   usize |-> "u64", float |-> "f32", f32 |-> "f32", f64 |-> "f64", str |-> "str", bool |-> "bool",
   void |-> "void", never |-> "never"]

BuiltinWitnesses == {"NonZero", "InBounds", "Sorted"}

\* A name nobody declared, or not yet, is the error type, without a report.  A generic
\* argument is a type or an expression.
RECURSIVE lower_ast_type(_, _), lower_generic_arg(_, _)
lower_generic_arg(tc, a) == IF a.k = "expr" THEN Give(tc, Predicate(a.expr)) ELSE lower_ast_type(tc, a)

\* One after the other, the types in tys.
LowerEach(tc, ws, Lower(_, _)) ==
  FoldLeft(LAMBDA acc, w : Then(Lower(acc.tc, w), LAMBDA s : [tc |-> s, tys |-> Append(acc.tys, s.ty)]),
           [tc |-> tc, tys |-> <<>>], ws)

IsBuiltin(w) == w.k = "path" /\ Len(w.parts) = 1 /\ w.parts[1] \in BuiltinWitnesses

\* The name looked up for a type, or none.
Named(w) ==
  CASE w.k = "name" /\ w.name \notin DOMAIN WrittenPrims -> <<w.name>>
    [] w.k = "path" /\ ~ IsBuiltin(w) -> <<w.parts[1]>>
    [] w.k = "Self" -> <<"Self">>
    [] OTHER -> <<>>

\* A type with another one inside, from the checker that lowered that one.
Around(s, w) ==
  Give(s, CASE w.k = "optional" -> Optional(s.ty) [] w.k = "cascade" -> Cascade(s.ty)
            [] w.k = "pointer" -> Pointer(s.ty, w.mut) [] w.k = "witness" -> Witness(s.ty)
            [] OTHER -> Builtin(w.parts[1], s.ty))

lower_ast_type(tc, w) ==
  CASE w.k = "name" /\ w.name \in DOMAIN WrittenPrims -> Give(tc, Prim(WrittenPrims[w.name]))
    [] w.k = "Self" /\ tc.current_self /= <<>> -> Give(tc, tc.current_self[1])
    [] Named(w) /= <<>> /\ (w.k = "Self" => tc.current_self = <<>>) ->
         Then(resolve_name(tc, Named(w)[1], Error), LAMBDA s :
           IF w.k = "path" THEN Give(s, FoldLeft(Assoc, s.ty, Tail(w.parts))) ELSE s)
    [] IsBuiltin(w) -> Around(IF w.args = <<>> THEN new_var(tc) ELSE lower_generic_arg(tc, w.args[1]), w)
    [] w.k \in {"optional", "cascade", "pointer", "witness"} -> Around(lower_generic_arg(tc, w.of), w)
    [] w.k = "fn" ->
         Then(LowerEach(tc, w.params, lower_ast_type), LAMBDA ps :
           Then(lower_ast_type(ps.tc, w.ret), LAMBDA r :
             Give(r, Forge(ps.tys, r.ty, Concrete({})))))  \* what effects it is written with is dropped
    [] OTHER -> Give(tc, Error)

\* The alias an implementation for the type has under the name.
resolve_assoc_type(tc, ty) ==
  LET base == prune(tc, ty.of)
      Aliases == {i \in UNION {ToSet(tc.impls[w]) : w \in DOMAIN tc.impls} :
                    i.target = base /\ ty.name \in DOMAIN i.aliases}
  IN IF ty.t /= "assoc" \/ Aliases = {} THEN Give(tc, Error)
     ELSE lower_ast_type(tc, (CHOOSE i \in Aliases : TRUE).aliases[ty.name])

-----------------------------------------------------------------------------
(* Unification *)

\* The variables of ty are made no younger than var_level; not if ty has the variable.
RECURSIVE check_and_adjust(_, _, _, _)
check_and_adjust(tc, var_id, var_level, ty0) ==
  LET ty == prune(tc, ty0)
      Next(s, p) == IF s.ok THEN check_and_adjust(s, var_id, var_level, p) ELSE s
  IN CASE ty.t = "var" /\ ty.id = var_id -> Verdict(tc, FALSE)
       [] ty.t = "var" /\ ty.id /= var_id ->
            Verdict([tc EXCEPT !.levels[ty.id] = IF @ > var_level THEN var_level ELSE @], TRUE)
       [] ty.t = "fn" -> FoldLeft(Next, Verdict(tc, TRUE), Append(ty.params, ty.ret))
       [] "of" \in DOMAIN ty -> check_and_adjust(tc, var_id, var_level, ty.of)
       [] OTHER -> Verdict(tc, TRUE)

\* Mutant: a variable may stand for a type it is part of.
bind_unchecked(tc, id, ty) ==
  Verdict(IF ty = Var(id) THEN tc ELSE [tc EXCEPT !.subst = With(@, id, ty)], TRUE)

occurs_check_and_adjust_levels(tc, id, ty) ==
  Then(check_and_adjust(tc, id, tc.levels[id], ty),
       LAMBDA s : IF s.ok THEN [s EXCEPT !.subst = With(@, id, ty)] ELSE s)

is_proof_mode(tc) == tc.raw \/ "proof" \in tc.attributes

Wrapped(ty) == ty.t \in {"optional", "cascade"}

\* Whatever was bound before a mismatch was found stays bound.
RECURSIVE unify(_, _, _), unify_pruned(_, _, _)
unify_pruned(tc, a, b) ==
  LET Both(k) == a.t = k /\ b.t = k
      OneOf(k) == a.t = k \/ b.t = k
      Pairwise(s, i) == IF s.ok THEN unify(s, a.params[i], b.params[i]) ELSE s
      Forges(s) == Then(IF s.ok THEN unify(s, a.ret, b.ret) ELSE s,
                        LAMBDA r : IF r.ok THEN unify_effects(r, a.effects, b.effects) ELSE r)
      Inside(x, y) == unify(tc, x, y)
      Refused == Verdict(tc, FALSE)
  IN IF Both("var") /\ a = b THEN Verdict(tc, TRUE)
     ELSE IF a.t = "var" THEN occurs_check_and_adjust_levels(tc, a.id, b)
     ELSE IF b.t = "var" THEN occurs_check_and_adjust_levels(tc, b.id, a)
     ELSE IF a = Never \/ b = Never THEN Verdict(tc, TRUE)
     ELSE IF Both("prim") \/ Both("predicate") THEN Verdict(tc, a = b)
     ELSE IF Both("adt") THEN Verdict(tc, TRUE)
     ELSE IF (a = None /\ Wrapped(b)) \/ (Wrapped(a) /\ b = None) THEN Verdict(tc, TRUE)
     ELSE IF (Wrapped(a) /\ Wrapped(b)) \/ Both("witness") THEN Inside(a.of, b.of)
     ELSE IF Both("pointer") THEN IF a.mut = b.mut THEN Inside(a.of, b.of) ELSE Refused
     ELSE IF Both("builtin") THEN IF a.b = b.b THEN Inside(a.of, b.of) ELSE Refused
     ELSE IF Both("fn") THEN
       IF Len(a.params) = Len(b.params)
       THEN Forges(FoldLeft(Pairwise, Verdict(tc, TRUE), [i \in DOMAIN a.params |-> i])) ELSE Refused
     \* a value where an optional or a cascade is wanted, and the other way round
     ELSE IF Wrapped(b) THEN Inside(a, b.of)
     ELSE IF Wrapped(a) THEN Inside(a.of, b)
     \* a witness of a value is made in proofs only, and may be used as the value anywhere
     ELSE IF a.t = "witness" \/ (a.t = "builtin" /\ b.t \notin {"witness", "builtin"}) THEN
       IF is_proof_mode(tc) THEN Inside(a.of, b) ELSE Refused
     ELSE IF b.t \in {"witness", "builtin"} THEN Inside(a, b.of)
     ELSE Verdict(tc, OneOf("error"))

\* An associated type is looked up first, the first of the two before the second.
unify(tc, ty1, ty2) ==
  Then(<<prune(tc, ty1), prune(tc, ty2)>>, LAMBDA ab :
    LET Look(found, i) ==
          IF found.at > 0 THEN found
          ELSE Then(resolve_assoc_type(tc, ab[i]), LAMBDA r : IF r.ty = Error THEN found ELSE [tc |-> r, at |-> i])
    IN Then(FoldLeft(Look, [tc |-> tc, at |-> 0], <<1, 2>>), LAMBDA found :
         IF found.at = 0 THEN unify_pruned(tc, ab[1], ab[2])
         ELSE unify(found.tc, IF found.at = 1 THEN found.tc.ty ELSE ab[1], IF found.at = 1 THEN ab[2] ELSE found.tc.ty)))

=============================================================================
