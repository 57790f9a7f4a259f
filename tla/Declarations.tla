---------------------------- MODULE Declarations ----------------------------
(***************************************************************************)
(* What the type checker does before it looks at bodies.  First the        *)
(* evaluator of constant expressions (izel_parser, eval) and the static    *)
(* contract checks built on it (contracts of izel_typeck); then the first  *)
(* pass (izel_typeck, collect_item_signature): what the items declare goes *)
(* into the checker's tables, and attributes are validated.                *)
(*                                                                         *)
(* Expressions are records named by k, as the lowering builds them:        *)
(* lit (of lit, with v), ident, binary, unary, given, block, ...; a block  *)
(* is [stmts, expr] where expr is a sequence of at most one expression.    *)
(* Numbers have Bits bits (128 in the code).  Left out: floats, and the    *)
(* and, or, xor and complement of numbers.                                 *)
(*                                                                         *)
(* Items are records named by k.  A forge is                               *)
(*   [k, name, generics, params, ret, effects, attrs, requires, ensures,   *)
(*    body, flow]                                                          *)
(* with params a sequence of [name, ty] and body a sequence of at most one *)
(* block; an attribute is [name, args] with expressions for arguments.     *)
(* A report is <<what, about>>.                                            *)
(***************************************************************************)
EXTENDS Types

CONSTANT Bits  \* the width of a constant integer
ASSUME BitsAssumption == Bits \in Nat \ {0}

IntV(n)  == [c |-> "int", v |-> n]
BoolV(b) == [c |-> "bool", v |-> b]
StrV(s)  == [c |-> "str", v |-> s]
Nil      == [c |-> "nil"]
Unknown  == [c |-> "unknown"]
Panic    == [c |-> "panic"]  \* the compiler itself stops
Stops(v) == v \in {Unknown, Panic}

Least == -(2 ^ (Bits - 1))
Wrap(n) == ((n - Least) % 2 ^ Bits) + Least

Abs(n) == IF n < 0 THEN -n ELSE n
Truncated(l, r) == LET q == Abs(l) \div Abs(r) IN IF (l < 0) = (r < 0) THEN q ELSE -q

Comparisons == {"==", "!=", "<", ">", "<=", ">="}
Compared(op, l, r) ==
  CASE op = "==" -> l = r [] op = "!=" -> l /= r [] op = "<" -> l < r
    [] op = ">" -> l > r [] op = "<=" -> l <= r [] op = ">=" -> l >= r

\* Mutant: a quotient is rounded down.
OnIntsFloored(op, l, r) ==
  CASE op = "+" -> IntV(Wrap(l + r))
    [] op = "-" -> IntV(Wrap(l - r))
    [] op = "*" -> IntV(Wrap(l * r))
    [] op = "/" -> IF r = 0 THEN Unknown ELSE IntV(IF r < 0 THEN (-l) \div (-r) ELSE l \div r)
    [] op \in Comparisons -> BoolV(Compared(op, l, r))
    [] OTHER -> Unknown

\* Of the operators only division and its rest do not wrap.
OnInts(op, l, r) ==
  CASE op = "+" -> IntV(Wrap(l + r))
    [] op = "-" -> IntV(Wrap(l - r))
    [] op = "*" -> IntV(Wrap(l * r))
    [] op \in {"/", "%"} ->
         IF r = 0 THEN Unknown
         ELSE IF l = Least /\ r = -1 THEN Panic
         ELSE IntV(IF op = "/" THEN Truncated(l, r) ELSE l - r * Truncated(l, r))
    [] op \in {"<<", ">>"} ->
         IF r \notin 0 .. Bits - 1 THEN Unknown ELSE IntV(IF op = "<<" THEN Wrap(l * 2 ^ r) ELSE l \div 2 ^ r)
    [] op \in Comparisons -> BoolV(Compared(op, l, r))
    [] OTHER -> Unknown

OnBools(op, l, r) ==
  CASE op = "&&" -> BoolV(l /\ r) [] op = "||" -> BoolV(l \/ r)
    [] op = "==" -> BoolV(l = r) [] op = "!=" -> BoolV(l /= r) [] OTHER -> Unknown

OnStrings(op, l, r) ==
  CASE op = "+" -> StrV(<<l, r>>) [] op = "==" -> BoolV(l = r) [] op = "!=" -> BoolV(l /= r) [] OTHER -> Unknown

OnValues(op, l, r) ==
  CASE l.c = "int" /\ r.c = "int" -> OnInts(op, l.v, r.v)
    [] l.c = "bool" /\ r.c = "bool" -> OnBools(op, l.v, r.v)
    [] l.c = "str" /\ r.c = "str" -> OnStrings(op, l.v, r.v)
    [] l = Nil /\ r = Nil -> IF op = "==" THEN BoolV(TRUE) ELSE IF op = "!=" THEN BoolV(FALSE) ELSE Unknown
    [] OTHER -> IF Panic \in {l, r} THEN Panic ELSE Unknown

Literal(e) ==
  CASE e.lit = "int" -> IntV(e.v) [] e.lit = "bool" -> BoolV(e.v) [] e.lit = "str" -> StrV(e.v) [] OTHER -> Nil

RECURSIVE eval_expr(_, _)

\* A state is the names in scope and the value that ends the block early, Nil while none does.
Fails(state, value) == [state EXCEPT !.failed = IF value = Panic THEN Panic ELSE Unknown]
BoundConst(state, name, value) ==
  IF Stops(value) THEN Fails(state, value)
  ELSE [state EXCEPT !.scoped = [n \in DOMAIN @ \cup {name} |-> IF n = name THEN value ELSE @[n]]]

ConstStatement(state, s) ==
  LET value == eval_expr(IF s.k = "let" THEN s.init[1] ELSE s.of, state.scoped)
  IN IF Stops(state.failed) THEN state
     ELSE IF s.k = "let"
     THEN IF s.init = <<>> THEN Fails(state, Unknown)
          ELSE IF s.pat.k = "ident" THEN BoundConst(state, s.pat.name, value) ELSE Fails(state, value)
     ELSE IF s.k = "assign"
     THEN IF s.target.k = "ident" /\ s.target.name \in DOMAIN state.scoped
          THEN BoundConst(state, s.target.name, value) ELSE Fails(state, value)
     ELSE IF Stops(value) THEN Fails(state, value) ELSE state

\* A block works on a copy of the context: what it assigns is forgotten at its end.
eval_block(b, context) ==
  LET end == FoldLeft(ConstStatement, [scoped |-> context, failed |-> Nil], b.stmts)
  IN IF Stops(end.failed) THEN end.failed
     ELSE IF b.expr = <<>> THEN Nil ELSE eval_expr(b.expr[1], end.scoped)

eval_expr(e, context) ==
  LET negated == eval_expr(e.of, context)
      cond == eval_expr(e.cond, context)
  IN CASE e.k = "lit" -> Literal(e)
       [] e.k = "ident" -> IF e.name \in DOMAIN context THEN context[e.name] ELSE Unknown
       [] e.k = "block" -> eval_block(e.body, context)
       [] e.k = "given" ->
            IF cond = BoolV(TRUE) THEN eval_block(e.then, context)
            ELSE IF cond = BoolV(FALSE) THEN IF e.else = <<>> THEN Nil ELSE eval_expr(e.else[1], context)
            ELSE IF cond = Panic THEN Panic ELSE Unknown
       [] e.k = "binary" -> OnValues(e.op, eval_expr(e.l, context), eval_expr(e.r, context))
       [] e.k = "unary" ->
            CASE negated.c = "int" /\ e.op = "-" -> IntV(Wrap(-negated.v))
              [] negated.c = "bool" /\ e.op = "!" -> BoolV(~ negated.v)
              [] OTHER -> IF negated = Panic THEN Panic ELSE Unknown
       [] OTHER -> Unknown

NoContext == [n \in {} |-> Nil]

\* The preconditions, or the postconditions, that are false of the values; by their places.
check_requires(params, requires, args) ==
  LET context == [n \in {params[i] : i \in DOMAIN params \cap DOMAIN args} |->
                    args[CHOOSE i \in DOMAIN params \cap DOMAIN args : params[i] = n]]
  IN {i \in DOMAIN requires : eval_expr(requires[i], context) = BoolV(FALSE)}

check_ensures(ensures, value) ==
  {i \in DOMAIN ensures : eval_expr(ensures[i], [n \in {"result"} |-> value]) = BoolV(FALSE)}

-----------------------------------------------------------------------------
(* The first pass *)

Reports(tc, ds) == [tc EXCEPT !.diagnostics = @ \o ds]
AttributesNamed(attrs, name) == SelectSeq(attrs, LAMBDA a : a.name = name)
Has(attrs, name) == AttributesNamed(attrs, name) /= <<>>

\* The name an argument is, the last part of a path, or none.
NameOf(arg) ==
  CASE arg.k = "ident" -> <<arg.name>> [] arg.k = "path" -> <<Last(arg.parts)>> [] OTHER -> <<>>

\* The effect an argument names: here every part of a path belongs to the name.
EffectName(arg) ==
  CASE arg.k = "ident" -> <<arg.name>>
    [] arg.k = "path"  -> <<FoldLeft(LAMBDA name, part : name \o "::" \o part, Head(arg.parts), Tail(arg.parts))>>
    [] OTHER -> <<>>

\* For each attribute of the name, each of its arguments.
EachArg(attrs, name) == FlattenSeq([i \in DOMAIN AttributesNamed(attrs, name) |-> AttributesNamed(attrs, name)[i].args])
WithoutArgs(attrs, name) == SelectSeq(AttributesNamed(attrs, name), LAMBDA a : a.args = <<>>)
OnceEach(seq, report) == [i \in DOMAIN seq |-> report]

-----------------------------------------------------------------------------
(* Attributes *)

AttributeMacros == {"test", "bench", "inline", "deprecated"}
SupportedDerives ==
  {"Debug", "Display", "Clone", "Copy", "Eq", "PartialEq", "Ord", "PartialOrd", "Hash", "Default",
   "Serialize", "Deserialize", "Builder", "Error"}

\* Of everything but forges: no attribute macros; and no error attribute but on scrolls.
OtherAttributes(tc, item) ==
  LET macros == SelectSeq(item.attrs, LAMBDA a : a.name \in AttributeMacros)
  IN Reports(tc, OnceEach(macros, <<"macro", item.k>>)
                 \o IF item.k /= "scroll" /\ Has(item.attrs, "error") THEN << <<"error", item.k>> >> ELSE <<>>)

ForgeAttributes(tc, f) ==
  LET Of(a) ==
        CASE a.name \in {"test", "bench"} /\ a.args /= <<>> -> << <<"usage", f.name>> >>
          [] a.name = "inline" /\ Len(a.args) > 1 -> << <<"usage", f.name>> >>
          [] a.name = "inline" /\ Len(a.args) = 1 ->
               IF NameOf(a.args[1]) = <<>> \/ NameOf(a.args[1])[1] \notin {"always", "never"}
               THEN << <<"usage", f.name>> >> ELSE <<>>
          [] OTHER -> <<>>
  IN Reports(tc, (IF Has(f.attrs, "error") THEN << <<"error", f.name>> >> ELSE <<>>)
                 \o FlattenSeq([i \in DOMAIN f.attrs |-> Of(f.attrs[i])])
                 \o IF Has(f.attrs, "test") /\ Has(f.attrs, "bench") THEN << <<"both", f.name>> >> ELSE <<>>)

parse_effect_boundary_attr(tc, f) ==
  LET args == EachArg(f.attrs, "effect_boundary")
      names == SelectSeq([i \in DOMAIN args |-> EffectName(args[i])], LAMBDA n : n /= <<>>)
      wrong == SelectSeq(args, LAMBDA a : EffectName(a) = <<>>) \o WithoutArgs(f.attrs, "effect_boundary")
      s == Reports(tc, OnceEach(wrong, <<"boundary", f.name>>))
  IN IF names = <<>> THEN s
     ELSE [s EXCEPT !.boundaries = With(@, f.name, {names[i][1] : i \in DOMAIN names})]

PowersOfTwo == {2 ^ i : i \in 0 .. 30}

\* packed takes no argument, align one power of two, and each is given once.
extract_shape_layout(tc, s) ==
  LET Attribute(state, a) ==
        LET good == a.name = "align" /\ Len(a.args) = 1 /\ a.args[1].k = "lit"
                    /\ a.args[1].lit = "int" /\ a.args[1].v \in PowersOfTwo
            wrong == [state EXCEPT !.reports = Append(@, <<"layout", s.name>>)]
        IN CASE a.name = "packed" /\ a.args /= <<>> -> wrong
             [] a.name = "packed" /\ a.args = <<>> -> [(IF state.packed THEN wrong ELSE state) EXCEPT !.packed = TRUE]
             [] a.name = "align" -> IF ~ good \/ state.align THEN wrong ELSE [state EXCEPT !.align = TRUE]
             [] OTHER -> state
  IN Reports(tc, FoldLeft(Attribute, [packed |-> FALSE, align |-> FALSE, reports |-> <<>>], s.attrs).reports)

validate_shape_derives(tc, s) ==
  LET wrong == SelectSeq(EachArg(s.attrs, "derive"),
                         LAMBDA a : NameOf(a) = <<>> \/ NameOf(a)[1] \notin SupportedDerives)
  IN Reports(tc, OnceEach(wrong \o WithoutArgs(s.attrs, "derive"), <<"derive", s.name>>))

validate_bridge_declarations(tc, b) ==
  LET wrong == SelectSeq(b.items, LAMBDA i : \/ i.k \notin {"forge", "static"}
                                             \/ i.k = "forge" /\ i.body /= <<>>
                                             \/ i.k = "static" /\ i.value)
  IN Reports(tc, (IF b.abi \in {"C", "C++"} THEN <<>> ELSE << <<"abi", "bridge">> >>)
                 \o OnceEach(wrong, <<"bridge", "bridge">>))

-----------------------------------------------------------------------------
(* Signatures *)

WithGenerics(tc, names) == FoldLeft(LAMBDA s, n : define(s, n, Param(n)), push_scope(tc), names)

\* A parameter named self without a type of its own has the type implemented for.
ParamType(tc, p) ==
  Then(lower_ast_type(tc, p.ty), LAMBDA s :
    IF p.name = "self" /\ s.ty = Error /\ tc.current_self /= <<>> THEN Give(s, tc.current_self[1]) ELSE s)

\* The scheme, in ty.
collect_forge_signature(tc, f) ==
  Then(LowerEach(WithGenerics(tc, f.generics), f.params, ParamType), LAMBDA params :
    Then(lower_ast_type(params.tc, f.ret), LAMBDA ret :
      Give(pop_scope(ret),
           [generalize(ret, Forge(params.tys, ret.ty, effect_set_from_names(f.effects)))
              EXCEPT !.params = [i \in DOMAIN f.params |-> f.params[i].name], !.requires = f.requires])))

DeclareForge(tc, f) ==
  Then(collect_forge_signature(parse_effect_boundary_attr(ForgeAttributes(tc, f), f), f), LAMBDA c :
    define_scheme([c EXCEPT !.overloads = Added(@, f.name, c.ty)], f.name, c.ty))

DeclareMethod(tc, target, f) ==
  Then(collect_forge_signature(tc, f), LAMBDA c : [c EXCEPT !.methods = Added(@, <<target, f.name>>, c.ty)])

\* A second implementation, or one that is no business of this module, is written to the
\* standard error and left out of the tables; it is not a report.
Misplaced(tc, item, target) ==
  /\ item.weave /= <<>>
  /\ \/ item.weave[1] \in DOMAIN tc.impls /\ \E i \in ToSet(tc.impls[item.weave[1]]) : i.target = target
     \/ item.weave[1] \notin DOMAIN tc.weaves /\ prune(tc, target) /= Adt

ForgesOf(item) == SelectSeq(item.items, LAMBDA i : i.k = "forge")
AliasesOf(item) == LET as == SelectSeq(item.items, LAMBDA i : i.k = "alias")
                   IN [n \in {as[i].name : i \in DOMAIN as} |-> (CHOOSE a \in ToSet(as) : a.name = n).ty]

\* The name methods are found under; none for types without one.
TargetName(w) ==
  CASE w.k = "name" -> <<w.name>> [] w.k = "path" -> <<Last(w.parts)>> [] OTHER -> <<>>

\* A name for a shape, scroll, dual or alias: a scheme in the module's scope.
DeclareType(tc, name, ty) == define_scheme(tc, name, generalize(tc, ty))

SelfIs(tc, self) == [tc EXCEPT !.current_self = self]

\* An implementation, with its methods under the name of the type: a checker that lowered its target.
Implementing(tc, item) ==
  LET entry == [target |-> tc.ty, aliases |-> AliasesOf(item), forges |-> ForgesOf(item)]
      known == IF item.weave = <<>> THEN tc ELSE [tc EXCEPT !.impls = Added(@, item.weave[1], entry)]
      name == TargetName(item.target)
  IN IF name = <<>> THEN known
     ELSE FoldLeft(LAMBDA t, f : DeclareMethod(t, name[1], f), known, ForgesOf(item))

RECURSIVE collect_item_signature(_, _)
collect_item_signature(tc, item) ==
  LET All(t, items) == FoldLeft(collect_item_signature, t, items)
      Inside(t, self) == SelfIs(All(SelfIs(t, self), item.items), tc.current_self)
      s == OtherAttributes(tc, item)
  IN CASE item.k = "forge" -> DeclareForge(tc, item)
       [] item.k = "weave" -> define([s EXCEPT !.weaves = With(@, item.name, item.methods)], item.name, Void)
       [] item.k = "impl" ->
            Then(lower_ast_type(s, item.target), LAMBDA target :
              IF Misplaced(target, item, target.ty) THEN target
              ELSE Inside(Implementing(SelfIs(target, <<target.ty>>), item), <<target.ty>>))
       [] item.k = "ward" -> All(s, item.items)
       [] item.k \in {"static", "alias"} ->
            Then(lower_ast_type(s, item.ty), LAMBDA t : DeclareType(t, item.name, t.ty))
       [] item.k = "shape" -> DeclareType(validate_shape_derives(extract_shape_layout(s, item), item), item.name, Adt)
       [] item.k = "dual" -> Inside(DeclareType(s, item.name, Adt), <<Adt>>)
       [] item.k = "scroll" -> DeclareType(s, item.name, Adt)
       [] item.k = "echo" -> s
       [] item.k = "bridge" -> All(validate_bridge_declarations(s, item), item.items)
       \* a module's items join this one's, once
       [] item.k = "draw" ->
            IF item.path \in tc.drawn \/ item.path \notin DOMAIN tc.modules THEN tc
            ELSE All([tc EXCEPT !.drawn = @ \cup {item.path}], tc.modules[item.path])
       [] OTHER -> tc

=============================================================================
