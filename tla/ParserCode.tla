------------------------------ MODULE ParserCode ------------------------------
(***************************************************************************)
(* The recursive-descent parser of izel_parser, one definition per         *)
(* function.  A function is the sequence of the steps it takes on the      *)
(* token stream and on the list of children it is building; Parser.tla     *)
(* executes them on a stack of unfinished nodes.                           *)
(***************************************************************************)
EXTENDS Integers, Lexer

\* What a step may ask of the tokens ahead: that the current one has a kind of a
\* set, that the next ones that are not trivia have kinds of some sets in turn,
\* or that what has just been parsed is a node of a kind and the current token fits.
At(kinds)           == [ask |-> "current", kinds |-> <<kinds>>, node |-> "any"]
Peek(kindsInTurn)   == [ask |-> "ahead", kinds |-> kindsInTurn, node |-> "any"]
AfterA(node, kinds) == [ask |-> "current", kinds |-> <<kinds>>, node |-> node]

\* The steps.  "trivia" and "skip" move over white space and comments, keeping
\* them as children or not; "forget" drops the children collected so far.
Trivia           == <<[op |-> "trivia"]>>
Skip             == <<[op |-> "skip"]>>
Forget           == <<[op |-> "forget"]>>
Bump             == <<[op |-> "bump"]>>
Break            == <<[op |-> "break"]>>
Node(kind)       == <<[op |-> "node", kind |-> kind]>>
Lift             == <<[op |-> "lift"]>>
Condition(delta) == <<[op |-> "condition", delta |-> delta]>>
Operators        == <<[op |-> "operators"]>>
Call(fn)         == <<[op |-> "call", fn |-> fn, min |-> PrecNone]>>
CallMin(fn, min) == <<[op |-> "call", fn |-> fn, min |-> min]>>
Goto(fn)         == <<[op |-> "goto", fn |-> fn]>>
Wrap(fn)         == <<[op |-> "wrap", fn |-> fn]>>
Sub(code)        == <<[op |-> "sub", code |-> code]>>

Either(test, yes, no) == <<[op |-> "if", test |-> test, yes |-> yes, no |-> no]>>
When(test, yes)       == Either(test, yes, <<>>)

\* Loops run while the current token is one of the kinds ("while") or none of
\* them ("until"); both stop at the end.  A guarded loop discards a token after a
\* round that has consumed none.
Loop(kinds, until, body, guarded) ==
  <<[op |-> "loop", kinds |-> kinds, until |-> until, body |-> body, guarded |-> guarded]>>
Until(kind, body)   == Loop({kind}, TRUE, body, FALSE)
Guarded(kind, body) == Loop({kind}, TRUE, body, TRUE)
While(kinds, body)  == Loop(kinds, FALSE, body, FALSE)

Take(kind)  == When(At({kind}), Bump)
Name        == When(At(NamingIdents), Bump)
Block       == When(At({"OpenBrace"}), Call("parse_block"))
Comma       == When(At({"Comma"}), Bump \o Trivia)
Expr        == Call("parse_expr")

\* "{ item* }" with every round guarded; the items are declarations, fields or variants.
Braced(items) ==
  Bump \o Guarded("CloseBrace", items \o Trivia) \o Take("CloseBrace")

-----------------------------------------------------------------------------
(* Declarations *)

parse_source_file ==
  Guarded("Eof", Call("parse_decl") \o Trivia) \o Node("SourceFile")

Modifiers == {"Open", "Hidden", "Pkg", "Pure", "Sole", "Flow", "Comptime", "Extern"}

\* The path in the parentheses after a pkg stops at the first token that is not of a path.
PkgScope ==
  Bump \o Until("CloseParen", Either(At({"Ident", "DoubleColon"}), Bump, Break))
    \o Take("CloseParen")

AfterKeyword ==
  "Forge" :> "parse_forge_after_keyword" @@ "Shape" :> "parse_shape_after_keyword"
  @@ "Scroll" :> "parse_scroll_after_keyword" @@ "Ward" :> "parse_ward_after_keyword"
  @@ "Macro" :> "parse_macro_after_keyword" @@ "Dual" :> "parse_dual_after_keyword"
  @@ "Weave" :> "parse_weave_after_keyword" @@ "Impl" :> "parse_impl_after_keywords"
  @@ "Type" :> "parse_type_after_keyword" @@ "Draw" :> "parse_draw_after_keyword"
  @@ "Static" :> "parse_static_after_keyword" @@ "Echo" :> "parse_echo_after_keyword"
  @@ "Bridge" :> "parse_bridge_after_keyword"

\* A switch on the current kind: the branch a table has for it, or the default.
Switch(table, default) ==
  <<[op |-> "switch", table |-> table, default |-> default]>>

parse_decl ==
  Trivia
  \o When(At({"At", "Pound"}), Call("parse_attributes") \o Trivia)
  \o While(Modifiers,
           Either(At({"Pkg"}), Bump \o When(At({"OpenParen"}), PkgScope), Bump) \o Trivia)
  \o Switch([k \in DOMAIN AfterKeyword |-> Bump \o Goto(AfterKeyword[k])],
            Goto("parse_stmt_after_trivia"))

parse_type_after_keyword ==
  Trivia \o Name \o Trivia
  \o When(At({"Equal"}), Bump \o Trivia \o Call("parse_type"))
  \o Node("TypeAlias")

MacroParams(close) ==
  Bump \o Trivia
  \o Guarded(close, When(At({"DotDot"}), Bump \o Trivia) \o Bump \o Trivia \o Comma)
  \o Take(close)

parse_macro_after_keyword ==
  Trivia \o Name \o Trivia \o Take("Bang") \o Trivia
  \o Switch("OpenParen" :> MacroParams("CloseParen") @@ "OpenBracket" :> MacroParams("CloseBracket"),
            <<>>)
  \o Trivia \o Block \o Node("MacroDecl")

parse_echo_after_keyword == Trivia \o Block \o Node("EchoDecl")

\* The only list of declarations without a guarded loop.
parse_bridge_after_keyword ==
  Trivia \o Take("Str") \o Trivia
  \o When(At({"OpenBrace"}),
          Bump \o Until("CloseBrace", Call("parse_decl") \o Trivia) \o Take("CloseBrace"))
  \o Node("BridgeDecl")

parse_effects ==
  Loop({"Bang"}, FALSE, Sub(Bump \o Name \o Node("Effect")) \o Trivia, TRUE)

parse_forge_after_keyword ==
  Trivia \o Name \o Trivia
  \o When(At({"Lt"}), Call("parse_generic_params")) \o Trivia
  \o When(At({"OpenParen"}),
          Bump \o Trivia
          \o Guarded("CloseParen", Call("parse_param") \o Trivia \o Comma)
          \o Take("CloseParen"))
  \o Trivia
  \o When(At({"Arrow"}), Bump \o Trivia \o Call("parse_type"))
  \o Trivia \o parse_effects \o Trivia \o Block \o Node("ForgeDecl")

parse_shape_after_keyword ==
  Trivia
  \o When(At({"Impl"}), Bump \o Goto("parse_impl_after_keywords"))
  \o Name \o Trivia
  \o When(At({"Lt"}), Call("parse_generic_params")) \o Trivia
  \o When(At({"OpenBrace"}), Braced(Call("parse_field")))
  \o Node("ShapeDecl")

parse_impl_after_keywords ==
  Trivia \o Call("parse_type") \o Trivia
  \o When(At({"OpenBrace"}), Braced(Call("parse_decl")))
  \o Node("ImplBlock")

parse_scroll_after_keyword ==
  Trivia \o Name \o Trivia
  \o When(At({"OpenBrace"}), Braced(Call("parse_variant")))
  \o Node("ScrollDecl")

\* The payload of a variant is kept as tokens.
Payload(close) == Bump \o Until(close, Bump) \o Take(close)

parse_variant ==
  Trivia \o While({"Open", "Hidden", "Pkg"}, Bump \o Trivia)
  \o When(At(NamingIdents),
          Bump \o Trivia
          \o Switch("OpenBrace" :> Payload("CloseBrace") @@ "OpenParen" :> Payload("CloseParen"),
                    <<>>))
  \o Trivia \o Take("Comma") \o Node("Variant")

parse_ward_after_keyword ==
  Trivia \o Name \o Trivia
  \o When(At({"OpenBrace"}), Braced(Call("parse_decl")))
  \o Node("WardDecl")

DualDecls == {"Forge", "Shape", "Scroll", "Dual", "Weave", "Ward", "Impl", "Type", "Draw"}

\* Only a dual shape has fields.
DualBody(items) ==
  Trivia \o Name \o Trivia
  \o When(At({"Lt"}), Call("parse_generic_params")) \o Trivia
  \o When(At({"OpenBrace"}), Braced(items))
  \o Node("DualDecl")

parse_dual_after_keyword ==
  Trivia
  \o Either(At({"Shape"}),
            Bump \o DualBody(Either(At(DualDecls), Call("parse_decl"), Call("parse_field"))),
            DualBody(Call("parse_decl")))

parse_weave_after_keyword ==
  Trivia \o Call("parse_type") \o Trivia
  \o When(At({"Colon"}),
          Bump \o Trivia
          \o Until("OpenBrace",
                   Call("parse_type") \o Trivia
                   \o Either(At({"Plus"}), Bump \o Trivia, Break)))
  \o When(At({"For"}), Bump \o Goto("parse_impl_after_keywords"))
  \o When(At({"OpenBrace"}), Braced(Call("parse_decl")))
  \o Node("WeaveDecl")

parse_draw_after_keyword ==
  Trivia
  \o Until("Eof",
           Either(At(NamingIdents \cup {"Star"}), Bump, Break) \o Trivia
           \o Either(At({"DoubleColon", "Slash"}), Bump \o Trivia, Break))
  \o Take("Semicolon") \o Node("DrawDecl")

GenericParam ==
  Sub(Trivia
      \o When(At(NamingIdents),
              Bump \o Trivia \o When(At({"Colon"}), Bump \o Trivia \o Name))
      \o Node("GenericParam"))

Generics(item, close) ==
  Bump \o Guarded(close, item \o Trivia \o Take("Comma") \o Trivia) \o Take(close)

parse_generic_params ==
  Trivia
  \o Switch("Lt" :> Generics(GenericParam, "Gt")
            @@ "OpenBracket" :> Generics(GenericParam, "CloseBracket"), <<>>)
  \o Node("GenericParams")

GenericArg == Sub(CallMin("parse_expr", PrecComparison) \o Node("GenericArg"))

parse_generic_args ==
  Trivia
  \o Switch("Lt" :> Generics(GenericArg, "Gt")
            @@ "OpenBracket" :> Generics(GenericArg, "CloseBracket"), <<>>)
  \o Node("GenericArgs")

parse_field ==
  Trivia \o While({"Open", "Hidden", "Pkg"}, Bump \o Trivia)
  \o When(At(NamingIdents), Bump \o Trivia)
  \o When(At({"Colon"}), Bump \o Trivia)
  \o Trivia \o Call("parse_type") \o Trivia \o Take("Comma") \o Node("Field")

\* Anything but a name is taken as it is, so that the list of parameters moves on.
parse_param ==
  Trivia \o While({"Tilde", "Ampersand"}, Bump \o Trivia)
  \o When(At({"DotDot"}), Bump \o Trivia)
  \o Either(At(NamingIdents \cup {"SelfKw"}),
            Bump \o Trivia
            \o When(At({"Colon"}), Bump \o Trivia \o Call("parse_type") \o Trivia)
            \o When(At({"Equal"}), Bump \o Trivia \o Expr),
            Either(At({"Eof"}), <<>>, Bump))
  \o Node("ParamPart")

parse_static_after_keyword ==
  Trivia \o Take("Tilde") \o Trivia \o Name \o Trivia
  \o When(At({"Colon"}), Bump \o Trivia \o Call("parse_type"))
  \o Trivia
  \o When(At({"Equal"}), Bump \o Trivia \o Expr)
  \o Node("StaticDecl")

parse_attributes ==
  Loop({"At", "Pound"}, FALSE, Call("parse_attribute") \o Trivia, TRUE) \o Node("Attributes")

AttributeArgs ==
  Bump \o Until("CloseParen", Expr \o Trivia \o Comma) \o Take("CloseParen")

parse_attribute ==
  Trivia
  \o Switch("At" :> (Bump \o Trivia \o Name \o Trivia \o When(At({"OpenParen"}), AttributeArgs))
            @@ "Pound" :>
                 (Bump \o Trivia
                  \o When(At({"OpenBracket"}),
                          Bump \o Trivia \o Name \o Trivia
                          \o When(At({"OpenParen"}), AttributeArgs \o Trivia)
                          \o Take("CloseBracket"))),
            <<>>)
  \o Node("Attribute")

-----------------------------------------------------------------------------
(* Types and patterns *)

\* Whatever precedes a raw block and the trivia around any other type is not kept.
parse_type ==
  Trivia
  \o Switch("Question" :> (Bump \o Call("parse_type") \o Node("OptionalType"))
            @@ "Star" :> (Bump \o Take("Tilde") \o Call("parse_type") \o Node("PointerType"))
            @@ "Raw" :> (Forget \o Goto("parse_raw_expr")),
            Forget \o CallMin("parse_expr", PrecCall) \o Skip
            \o When(At({"Bang"}), Wrap("parse_postfix_bang"))
            \o When(AfterA("Ident", {"Lt"}), Call("parse_generic_args") \o Node("Type"))
            \o Lift)

\* A list of patterns; nothing makes it move on when a pattern takes no token.
Patterns(item, close) ==
  Bump \o Trivia \o Until(close, item \o Trivia \o Comma) \o Take(close)

parse_pattern ==
  LET sub  == Call("parse_pattern")
      rest == Either(At({"DotDot"}), Bump \o Trivia \o Name, sub)
      path == While({"DoubleColon"}, Bump \o Trivia \o Name \o Trivia)
              \o When(At({"OpenBrace"}), Patterns(sub, "CloseBrace"))
      literal == {"Int", "Str", "InterpolatedStr", "True", "False", "Nil"}
  IN Trivia
     \o Switch("Tilde" :> (Bump \o Trivia \o Name)
               @@ "OpenParen" :> Patterns(sub, "CloseParen")
               @@ "OpenBracket" :> Patterns(rest, "CloseBracket")
               @@ [k \in literal |-> Bump],
               When(At(NamingIdents),
                    Bump \o Trivia
                    \o Switch("DoubleColon" :> path @@ "OpenBrace" :> path
                              @@ "OpenParen" :> Patterns(sub, "CloseParen"), <<>>)))
     \o Trivia \o When(At({"Pipe"}), Bump \o sub) \o Node("Pattern")

-----------------------------------------------------------------------------
(* Statements *)

Semicolon == Trivia \o Take("Semicolon")

parse_stmt == Trivia \o Goto("parse_stmt_after_trivia")

\* A block in a statement's place drops what was collected before it.
parse_stmt_after_trivia ==
  LET binding ==
        Bump \o Trivia \o Call("parse_pattern") \o Trivia
        \o When(At({"Colon"}), Bump \o Trivia \o Call("parse_type")) \o Trivia
        \o When(At({"Equal"}), Bump \o Expr)
        \o Semicolon \o Node("LetStmt")
  IN Switch("Let" :> binding @@ "Tilde" :> binding
            @@ "Give" :> (Bump \o Trivia \o Expr \o Semicolon \o Node("GiveStmt"))
            @@ "OpenBrace" :> (Forget \o Call("parse_block") \o Node("Block")),
            When(Peek(<<{"Ident"}, {"Equal"}>>),
                 Bump \o Trivia \o Bump \o Trivia \o Expr \o Semicolon \o Node("AssignStmt"))
            \o Expr \o Semicolon \o Node("ExprStmt"))

parse_block ==
  Trivia
  \o When(At({"OpenBrace"}),
          Bump \o Trivia \o Guarded("CloseBrace", Call("parse_stmt") \o Trivia)
          \o Take("CloseBrace"))
  \o Node("Block")

-----------------------------------------------------------------------------
(* Expressions *)

parse_expr == Call("parse_primary") \o Operators

MacroArgs(close) ==
  Bump \o Trivia
  \o Until(close, Sub(Trivia \o Expr \o Node("Arg")) \o Trivia \o Comma)
  \o Take(close) \o Node("MacroCall")

parse_primary ==
  LET literal == {"Int", "Float", "Str", "InterpolatedStr", "True", "False", "Nil"}
      name    == Bump
                 \o When(Peek(<<{"Bang"}, {"OpenParen", "OpenBracket"}>>),
                         Trivia \o Bump \o Trivia
                         \o Switch("OpenParen" :> MacroArgs("CloseParen"),
                                   MacroArgs("CloseBracket")))
                 \o Node("Ident")
      prefix  == Bump \o CallMin("parse_expr", PrecUnary) \o Node("UnaryExpr")
      keyword == "Given" :> "parse_given_expr" @@ "Branch" :> "parse_branch_expr"
                 @@ "Loop" :> "parse_loop_expr" @@ "While" :> "parse_while_expr"
                 @@ "Each" :> "parse_each_expr" @@ "Zone" :> "parse_zone_expr"
                 @@ "Bind" :> "parse_bind_expr" @@ "Seek" :> "parse_seek_expr"
  IN Trivia
     \o Switch([k \in literal |-> Bump \o Node("Literal")]
               @@ [k \in {"Ident", "SelfKw", "SelfType"} |-> name]
               @@ "OpenParen" :> (Bump \o Expr \o Trivia \o Take("CloseParen") \o Node("ParenExpr"))
               @@ [k \in {"Minus", "Not", "Tilde", "Star", "Tide", "Ampersand", "AmpersandTilde"}
                     |-> prefix]
               @@ [k \in DOMAIN keyword |-> Bump \o Goto(keyword[k])]
               @@ "Raw" :> (Forget \o Goto("parse_raw_expr")),
               Bump \o Node("Error"))

parse_raw_expr ==
  Bump \o Trivia \o Either(At({"OpenBrace"}), Call("parse_block"), Expr) \o Node("RawExpr")

\* The condition of a given or a while is followed by a block: a brace ends it.
Guard == Trivia \o Condition(1) \o Expr \o Condition(-1) \o Trivia \o Block

parse_given_expr ==
  Guard \o Trivia
  \o When(At({"Else"}),
          Bump \o Trivia
          \o Switch("Given" :> Sub(Bump \o Goto("parse_given_expr"))
                    @@ "OpenBrace" :> Call("parse_block"), <<>>))
  \o Node("GivenExpr")

parse_while_expr == Guard \o Node("WhileExpr")

parse_branch_expr ==
  Trivia \o CallMin("parse_expr", PrecCall) \o Trivia
  \o When(At({"OpenBrace"}),
          Braced(Call("parse_pattern") \o Trivia
                 \o When(At({"Given"}), Bump \o Trivia \o Expr \o Trivia)
                 \o When(At({"FatArrow"}), Bump \o Trivia \o Expr)
                 \o Trivia \o Take("Comma")))
  \o Node("BranchExpr")

parse_loop_expr == Trivia \o Block \o Node("LoopExpr")

parse_each_expr ==
  Trivia \o CallMin("parse_expr", PrecCall) \o Trivia
  \o When(At({"In"}), Bump \o Trivia \o CallMin("parse_expr", PrecCall))
  \o Trivia \o Block \o Node("EachExpr")

parse_bind_expr ==
  Trivia
  \o When(At({"Bar"}), Bump \o Until("Bar", Bump) \o Take("Bar"))
  \o Trivia \o Expr \o Node("BindExpr")

parse_zone_expr == Trivia \o Name \o Trivia \o Block \o Node("ZoneExpr")

parse_seek_expr ==
  Trivia \o Call("parse_block") \o Trivia
  \o When(At({"Catch"}), Bump \o Trivia \o Name \o Trivia \o Call("parse_block"))
  \o Node("SeekExpr")

-----------------------------------------------------------------------------
(* What follows an operand; the operand is the first child. *)

\* Mutant: the right operand takes operators of the same rank too.
parse_binary_to_the_right(prec) ==
  Trivia \o Bump \o CallMin("parse_expr", prec - 1) \o Node("BinaryExpr")

parse_binary(prec) ==
  Trivia \o Bump \o CallMin("parse_expr", prec) \o Node("BinaryExpr")

parse_call ==
  Trivia \o Bump
  \o Until("CloseParen",
           Sub(Trivia
               \o When(Peek(<<NamingIdents, {"Colon"}>>), Bump \o Trivia \o Bump \o Trivia)
               \o Expr \o Node("Arg"))
           \o Trivia \o Comma)
  \o Take("CloseParen") \o Node("CallExpr")

parse_path_or_turbofish ==
  Trivia \o Bump \o Trivia
  \o Switch("Lt" :> Call("parse_generic_args") @@ "Ident" :> Bump, <<>>)
  \o Node("PathExpr")

parse_struct_literal_expr ==
  Trivia \o Bump
  \o Until("CloseBrace",
           Expr \o Trivia
           \o When(At({"Colon"}), Bump \o Trivia \o Expr)
           \o Trivia \o Take("Comma") \o Trivia)
  \o Take("CloseBrace") \o Node("StructLiteral")

parse_member_access == Trivia \o Bump \o Trivia \o Take("Ident") \o Node("MemberExpr")

\* "value! or context": the trivia before an or is only taken with it.
parse_postfix_bang ==
  Trivia \o Bump
  \o When(Peek(<<{"Or"}>>), Trivia \o Bump \o Expr)
  \o Node("CascadeExpr")

parse_optional_chaining ==
  Trivia \o Bump \o Trivia
  \o When(At({"Dot"}), Bump \o Trivia \o Take("Ident"))
  \o Node("MemberExpr")

-----------------------------------------------------------------------------
CodeOf ==
  "parse_source_file" :> parse_source_file @@ "parse_decl" :> parse_decl
  @@ "parse_type_after_keyword" :> parse_type_after_keyword
  @@ "parse_macro_after_keyword" :> parse_macro_after_keyword
  @@ "parse_echo_after_keyword" :> parse_echo_after_keyword
  @@ "parse_bridge_after_keyword" :> parse_bridge_after_keyword
  @@ "parse_forge_after_keyword" :> parse_forge_after_keyword
  @@ "parse_shape_after_keyword" :> parse_shape_after_keyword
  @@ "parse_impl_after_keywords" :> parse_impl_after_keywords
  @@ "parse_scroll_after_keyword" :> parse_scroll_after_keyword
  @@ "parse_ward_after_keyword" :> parse_ward_after_keyword
  @@ "parse_dual_after_keyword" :> parse_dual_after_keyword
  @@ "parse_weave_after_keyword" :> parse_weave_after_keyword
  @@ "parse_draw_after_keyword" :> parse_draw_after_keyword
  @@ "parse_static_after_keyword" :> parse_static_after_keyword
  @@ "parse_variant" :> parse_variant @@ "parse_field" :> parse_field
  @@ "parse_param" :> parse_param @@ "parse_type" :> parse_type
  @@ "parse_generic_params" :> parse_generic_params @@ "parse_generic_args" :> parse_generic_args
  @@ "parse_attributes" :> parse_attributes @@ "parse_attribute" :> parse_attribute
  @@ "parse_pattern" :> parse_pattern @@ "parse_stmt" :> parse_stmt
  @@ "parse_stmt_after_trivia" :> parse_stmt_after_trivia @@ "parse_block" :> parse_block
  @@ "parse_expr" :> parse_expr @@ "parse_primary" :> parse_primary
  @@ "parse_raw_expr" :> parse_raw_expr @@ "parse_given_expr" :> parse_given_expr
  @@ "parse_while_expr" :> parse_while_expr @@ "parse_branch_expr" :> parse_branch_expr
  @@ "parse_loop_expr" :> parse_loop_expr @@ "parse_each_expr" :> parse_each_expr
  @@ "parse_bind_expr" :> parse_bind_expr @@ "parse_zone_expr" :> parse_zone_expr
  @@ "parse_seek_expr" :> parse_seek_expr @@ "parse_call" :> parse_call
  @@ "parse_path_or_turbofish" :> parse_path_or_turbofish
  @@ "parse_struct_literal_expr" :> parse_struct_literal_expr
  @@ "parse_member_access" :> parse_member_access
  @@ "parse_postfix_bang" :> parse_postfix_bang
  @@ "parse_optional_chaining" :> parse_optional_chaining

=============================================================================
