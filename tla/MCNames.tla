------------------------------- MODULE MCNames -------------------------------
(***************************************************************************)
(* NameMeaning on the sources of NameSources: the compiler on every main   *)
(* file, and the server on the documents of a project in some orders, the  *)
(* other files being on the disk.                                          *)
(***************************************************************************)
EXTENDS NameSources, NameMeaning

MCMains == {f \in OnDisk : Last(f) = "main"}

Orders(main) ==
  {<<"main">>} \cup IF <<main[1], "a">> \in OnDisk
                   THEN SetToSeqs({"main", "a", "b"}) \cup SetToSeqs({"main", "a", "b", "c"}) ELSE {}
MCOpened ==
  UNION {{[i \in DOMAIN order |-> <<main[1], order[i]>>] : order \in Orders(main)} : main \in MCMains}

\* A document that draws itself.
SelfDrawing == <<"self", "a">> :> SourceFile(<<ShapeOf("x", "x"), Draw(<<"a">>)>>)
SelfParts   == [f \in DOMAIN SelfDrawing |-> PartsOf(SelfDrawing[f])]
SelfOpened  == {<<f>> : f \in DOMAIN SelfDrawing}

=============================================================================
