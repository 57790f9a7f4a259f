------------------------------ MODULE MCPackages ------------------------------
(***************************************************************************)
(* The package manager with two processes.  The command lines hold every   *)
(* kind of command that differs in what it does here; the projects are an  *)
(* empty directory, one with a manifest of several tables and a path for   *)
(* its binary, and one of cargo's, where runs are dry.                     *)
(***************************************************************************)
EXTENDS Packages

Word(t) == [t |-> t, at |-> FALSE, p |-> t, v |-> ""]
Pinned  == [t |-> "json@2", at |-> TRUE, p |-> "json", v |-> "2"]

Line2(a, b)    == <<Word(a), Word(b)>>
Line3(a, b, c) == <<Word(a), Word(b), Word(c)>>

Edits  == {<<Word("add"), Pinned>>, Line3("add", "log", "--dev"), Line2("remove", "json")}
News   == {Line2("new", "app"), Line3("new", "app", "--lib"), Line3("new", "app", "--workspace")}
Reads  == {<<Word("build")>>, Line3("run", "--", "word"), Line2("izelc", "deps")}
Others == {<<Word("lint")>>, Line2("doc", "--open")}

\* The second terminal is for what changes files.
MCCommandLines ==
  (1 :> Edits \cup News \cup Reads \cup Others) @@
  (2 :> {<<Word("add"), Pinned>>, Line2("remove", "log"), Line3("new", "app", "--lib")})

Project ==
  <<Header("package"), Entry("name", "app"), Comment, Header("dependencies"), Entry("json", "1"), Entry("log", "1"), Blank,
    Header("dev-dependencies"), Entry("json", "0"), Header(Bins), Entry("path", Flat)>>
MCProjects ==
  {[dry |-> FALSE, files |-> [path \in {} |-> <<>>]],
   [dry |-> FALSE, files |-> [path \in {Manifest, Flat} |-> IF path = Manifest THEN Project ELSE <<Own>>]],
   [dry |-> TRUE, files |-> [path \in {Workspace} |-> <<>>]]}

=============================================================================
