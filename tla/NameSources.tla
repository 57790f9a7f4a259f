----------------------------- MODULE NameSources -----------------------------
(***************************************************************************)
(* Sources for NameMeaning: one file with every nesting of scopes around   *)
(* declarations and uses of two names, files that draw each other, and     *)
(* sets of documents in every order.  The trees have the parser's shapes.  *)
(***************************************************************************)
EXTENDS Integers, SequencesExt, TLC

Tok(tok, name)   == [kind |-> "token", tok |-> tok, name |-> name, at |-> <<>>]
Node_(kind, kids) == [kind |-> kind, kids |-> kids]
Kw(tok)          == Tok(tok, "")
Name(x)          == Tok("Ident", x)
Use(x)           == Node_("Ident", <<Name(x)>>)

RECURSIVE Numbered(_, _)
Numbered(e, path) ==
  IF e.kind = "token" THEN [e EXCEPT !.at = path]
  ELSE [e EXCEPT !.kids = [i \in DOMAIN @ |-> Numbered(@[i], Append(path, i))]]

SourceFile(items) == Numbered(Node_("SourceFile", items), <<>>)

\* let x = y, ~x = y, and y as a statement.
Let(x, y)     == Node_("LetStmt", <<Kw("Let"), Node_("Pattern", <<Name(x)>>), Kw("Equal"), Use(y)>>)
Set(x, y)     == Node_("LetStmt", <<Kw("Tilde"), Node_("Pattern", <<Name(x)>>), Kw("Equal"), Use(y)>>)
Say(y)        == Node_("ExprStmt", <<Use(y)>>)
BlockOf(stmts) == Node_("Block", <<Kw("OpenBrace")>> \o stmts \o <<Kw("CloseBrace")>>)
ForgeOf(f, x, stmts) ==
  Node_("ForgeDecl", <<Kw("Forge"), Name(f), Kw("OpenParen"),
                       Node_("ParamPart", <<Name(x), Kw("Colon"), Node_("Type", <<Name("y")>>)>>),
                       Kw("CloseParen"), BlockOf(stmts)>>)
WardOf(w, items) == Node_("WardDecl", <<Kw("Ward"), Name(w), Kw("OpenBrace")>> \o items)
ShapeOf(x, y)    ==
  Node_("ShapeDecl", <<Kw("Shape"), Name(x), Kw("OpenBrace"), Node_("Field", <<Use(y)>>)>>)
Method(m, stmts) == Node_("ForgeDecl", <<Kw("Forge"), Name(m), Kw("OpenParen"), Kw("CloseParen"), BlockOf(stmts)>>)
ImplOf(x, items) == Node_("ImplBlock", <<Kw("Impl"), Name(x), Kw("OpenBrace")>> \o items)

RECURSIVE Joined(_)
Joined(path) == <<Name(Head(path))>> \o IF Len(path) = 1 THEN <<>> ELSE <<Kw("Slash")>> \o Joined(Tail(path))
Draw(path) == Node_("DrawDecl", <<Kw("Draw")>> \o Joined(path))

-----------------------------------------------------------------------------
Stmts == <<Let("x", "y"), Let("y", "x"), Set("x", "x"), Say("x"), Say("y")>>
Items == <<ForgeOf("f", "x", <<Say("x"), Say("f")>>), ShapeOf("x", "y"), WardOf("w", <<ShapeOf("y", "x")>>)>>

\* Modules that export x and z or y, one drawing another; main draws them in some order.
Draws(names) == [i \in DOMAIN names |-> Draw(<<names[i]>>)]

Heads == <<Draws(<<"a", "b">>), <<Draw(<<"b">>), ShapeOf("y", "x"), Draw(<<"a">>)>>,
           <<Draw(<<"std", "io">>), Draw(<<"a">>)>>, Draws(<<"a", "a", "c">>), Draws(<<"d", "a">>),
           <<WardOf("w", <<Draw(<<"a">>), ShapeOf("y", "x")>>)>> >>
Drawn == <<<<>>, Draws(<<"c">>), Draws(<<"b">>)>>

\* A program is a choice of parts, and lives in a directory of its own.
ForgeIds    == {"forge"} \X {2, 3} \X (1 .. 5) \X (1 .. 5) \X {3, 5}
WardIds     == {"ward"} \X (1 .. 3) \X (1 .. 3) \X {1, 3} \X {1, 3, 5}
ProjectIds  == {"project"} \X (1 .. 6) \X (1 .. 3) \X {1, 2} \X (1 .. 2)

Contents(id, name) ==
  CASE id[1] = "forge" ->
         <<ForgeOf("x", "y", <<Stmts[id[2]], BlockOf(<<Stmts[id[3]], Stmts[id[4]]>>), Stmts[id[5]]>>)>>
    [] id[1] = "ward" ->
         <<Items[id[2]], WardOf("w", <<Items[id[3]], ForgeOf("f", "x", <<Stmts[id[5]], Say("w")>>)>>), Items[id[4]]>>
    [] name = "main" -> Heads[id[2]] \o <<ForgeOf("g", "p", <<Let("x", "x"), Say("z"), Say("y")>>)>>
    [] name = "a"    -> Drawn[id[3]] \o <<Items[id[4]]>>
    [] name = "b"    -> Drawn[id[5]] \o <<ShapeOf("x", "y")>>
    [] name = "c"    -> <<ShapeOf("x", "x"), ImplOf("x", <<Method("m", <<Let("x", "z"), Say("x")>>)>>), ShapeOf("z", "x")>>

NamesIn(id) == IF id[1] = "project" THEN {"main", "a", "b", "c"} ELSE {"main"}

AllIds == ForgeIds \cup WardIds \cup ProjectIds
IdOf   == [d \in {ToString(id) : id \in AllIds} |-> CHOOSE id \in AllIds : ToString(id) = d]

Written ==
  [f \in UNION {{<<ToString(id), n>> : n \in NamesIn(id)} : id \in AllIds} |->
     SourceFile(Contents(IdOf[f[1]], f[2]))]
  @@ <<"std", "io">> :> SourceFile(<<ShapeOf("x", "x"), ShapeOf("z", "x")>>)

RECURSIVE PartsOf(_)
PartsOf(e) == {e} \cup IF e.kind = "token" THEN {} ELSE UNION {PartsOf(e.kids[i]) : i \in DOMAIN e.kids}

WrittenParts == [f \in DOMAIN Written |-> PartsOf(Written[f])]

\* TLC evaluates a definition of the module once, and the one a constant stands for
\* wherever the constant is read.
MCFiles == LET files == Written IN files
MCParts == LET parts == WrittenParts IN parts

MCAlphabetical == <<"a", "b", "c", "main">>

=============================================================================
