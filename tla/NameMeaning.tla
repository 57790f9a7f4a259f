----------------------------- MODULE NameMeaning -----------------------------
(***************************************************************************)
(* What a name stands for, by the text alone: the latest declaration       *)
(* before it in the innermost scope around it that has one, else what a    *)
(* module drawn there before it exports, else the same one scope further   *)
(* out.  The walk of Resolver is judged by this.                           *)
(***************************************************************************)
EXTENDS LspAnalysis

\* For modules that are loaded at the top of a file, and files that do not draw themselves,
\* each other in a circle, or a name they declare.

ScopeKinds == {"ForgeDecl", "WardDecl", "Block"}
Nothing    == [file |-> <<>>, at |-> <<0>>]

RECURSIVE NodeAt(_, _)
NodeAt(tree, path) == IF path = <<>> THEN tree ELSE NodeAt(tree.kids[Head(path)], Tail(path))

RECURSIVE PathsBelow(_, _)
PathsBelow(e, path) ==
  {path} \cup IF e.kind = "token" THEN {}
              ELSE UNION {PathsBelow(e.kids[i], Append(path, i)) : i \in DOMAIN e.kids}

Before(p, q) ==
  \E n \in 0 .. Len(p) :
    /\ n < Len(q) /\ SubSeq(p, 1, n) = SubSeq(q, 1, n)
    /\ n = Len(p) \/ p[n + 1] < q[n + 1]

KindIn(tree, p) == NodeAt(tree, p).kind

\* The scopes around a place, as paths; the file itself is one.
Around(tree, p) ==
  {<<>>} \cup {q \in {SubSeq(p, 1, n) : n \in 1 .. Len(p) - 1} : KindIn(tree, q) \in ScopeKinds}
Innermost(paths) == CHOOSE p \in paths : \A q \in paths : Len(q) <= Len(p)

\* A declaring word stands under its own node, or in the pattern of a let.  The name of
\* a method is its type's and declares nothing where the impl stands.
NamedKinds == DOMAIN DeclKeyword \cup {"ForgeDecl", "WardDecl", "ParamPart"}
InLet(tree, p) == /\ Len(p) > 2
                  /\ KindIn(tree, Front(p)) = "Pattern" /\ KindIn(tree, Front(Front(p))) = "LetStmt"
HasTilde(node) == \E i \in DOMAIN node.kids : IsToken(node.kids[i], "Tilde")
IsMethod(tree, p) == Len(p) > 2 /\ KindIn(tree, Front(Front(p))) = "ImplBlock"
IsNamed(tree, p) ==
  /\ KindIn(tree, Front(p)) \in NamedKinds /\ ~IsMethod(tree, p)
  /\ Last(p) = SelectInSeq(NodeAt(tree, Front(p)).kids, IsIdent)

\* What the walk leaves alone: draws, types of parameters and the name of an impl.
IsSkipped(tree, p) == \/ KindIn(tree, Front(p)) \in {"DrawDecl", "ImplBlock"}
                      \/ \E n \in 1 .. Len(p) - 1 : KindIn(tree, SubSeq(p, 1, n)) = "ParamPart"

Role(tree, p) ==
  IF InLet(tree, p) THEN IF HasTilde(NodeAt(tree, Front(Front(p)))) THEN "sets" ELSE "declares"
  ELSE IF IsNamed(tree, p) THEN "declares"
  ELSE IF IsSkipped(tree, p) THEN "stays" ELSE "uses"

\* The names of forges and wards belong outside.
Word(tree, p) ==
  [at     |-> p,
   name   |-> NodeAt(tree, p).name,
   role   |-> Role(tree, p),
   around |-> Around(tree, p),
   scope  |-> Innermost(Around(tree,
                IF KindIn(tree, Front(p)) \in {"ForgeDecl", "WardDecl"} THEN Front(p) ELSE p))]

Drawing_(tree, p) ==
  LET names == SelectSeq(NodeAt(tree, p).kids, IsIdent)
  IN [at    |-> p,
      path  |-> [i \in DOMAIN names |-> names[i].name],
      first |-> Append(p, SelectInSeq(NodeAt(tree, p).kids, IsIdent)),
      scope |-> Innermost(Around(tree, p))]

TextOf(tree) ==
  LET paths == PathsBelow(tree, <<>>)
  IN [words |-> {Word(tree, p) : p \in {q \in paths : IsIdent(NodeAt(tree, q))}},
      draws |-> {Drawing_(tree, p) : p \in {q \in paths : KindIn(tree, q) = "DrawDecl"}},
      end   |-> <<Len(tree.kids) + 1>>]

Text == [f \in DOMAIN Files |-> TextOf(Files[f])]

-----------------------------------------------------------------------------
\* The document or file a path leads to from another file.
IsDocument(name) == name \in ModuleNames(documents)
FileDrawn(f, path) ==
  IF Len(path) = 1 /\ IsDocument(path[1]) THEN documents[IndexOf(documents, path[1])]
  ELSE IF path[1] = "std" /\ Len(path) > 1 THEN path ELSE Directory(f) \o path

RECURSIVE Meaning(_, _), LocalMeaning(_, _, _, _), Declares(_, _), Provided(_, _, _), Export(_, _)

\* A ~ declares only a name that means nothing yet.
Declares(f, w) == \/ w.role = "declares"
                  \/ w.role = "sets" /\ Meaning(f, w) = Nothing

\* What a draw brings in under a name: its first segment, and the exports of the file.
Provided(f, d, name) ==
  LET file == FileDrawn(f, d.path)
  IN IF d.path[1] = name THEN [file |-> f, at |-> d.first]
     ELSE IF file \in OnDisk THEN Export(file, name) ELSE Nothing

DeclaredIn(f, scope, p, name) ==
  {w \in Text[f].words : w.name = name /\ w.scope = scope /\ Before(w.at, p) /\ Declares(f, w)}

ProvidedIn(f, scope, p, name) ==
  {d \in {<<d.at, Provided(f, d, name)>> : d \in {e \in Text[f].draws : e.scope = scope /\ Before(e.at, p)}} :
     d[2] /= Nothing}

\* The latest declaration, a document, or what the first of the draws provides.
FirstChoice(f, scope, name, declared, provided) ==
  IF declared /= {} THEN [file |-> f, at |-> (CHOOSE w \in declared : \A v \in declared : v = w \/ Before(v.at, w.at)).at]
  ELSE IF scope = <<>> /\ f \in Range(documents) /\ IsDocument(name)
       THEN [file |-> documents[IndexOf(documents, name)], at |-> <<>>]
  ELSE IF provided /= {} THEN (CHOOSE d \in provided : \A e \in provided : e = d \/ Before(d[1], e[1]))[2]
  ELSE Nothing

\* The meaning a scope of file f gives a name at place p.
LocalMeaning(f, scope, p, name) ==
  FirstChoice(f, scope, name, DeclaredIn(f, scope, p, name), ProvidedIn(f, scope, p, name))

InnermostOf(found) ==
  IF found = {} THEN Nothing ELSE (CHOOSE m \in found : \A n \in found : Len(n[1]) <= Len(m[1]))[2]

Meaning(f, w) ==
  InnermostOf({m \in {<<s, LocalMeaning(f, s, w.at, w.name)>> : s \in w.around} : m[2] /= Nothing})

Export(f, name) == LocalMeaning(f, <<>>, Text[f].end, name)

\* What a word stands for, given its meaning; Nothing where it stands for itself alone.
StandsFor(f, w, meaning) ==
  IF w.role = "declares" \/ (w.role = "sets" /\ meaning = Nothing) THEN [file |-> f, at |-> w.at]
  ELSE IF w.role = "stays" THEN Nothing ELSE meaning
Stands(f, w) == StandsFor(f, w, Meaning(f, w))

-----------------------------------------------------------------------------
Done == work = <<>>

\* What the walk says an identifier of a source stands for.
Walked(s, p) ==
  IF <<s, p>> \in DOMAIN defIds
  THEN LET declared == origin[defIds[<<s, p>>] + 1] IN [file |-> declared.file, at |-> declared.at]
  ELSE Nothing

\* Every use gets the declaration the text around it gives it, and no other: the
\* scopes pushed and popped by the walk (resolve_block, resolve_forge_decl,
\* resolve_ward_decl), the order of definitions, loads and merges, and the order in
\* which documents are walked come to the meaning by text.
NamesMeanWhatTheTextSays ==
  Done => \A s \in DOMAIN sources : \A w \in Text[sources[s]].words :
            Walked(s, w.at) = Stands(sources[s], w)

\* So it is at least for the documents of the language server: load_module finds them
\* in the root scope and does not load from the disk what is open.
DocumentsAreWalkedOnce ==
  \A i, j \in DOMAIN origin :
    origin[i] = origin[j] /\ origin[i].file \in Range(documents) => i = j

\* The occurrences the server finds, with what each stands for.
Meanings ==
  {<<o, Stands(documents[o.doc], CHOOSE w \in Text[documents[o.doc]].words : w.at = o.at)>> :
     o \in AllOccurrences}

RenamesKeep(all, meanings) ==
  \A q \in meanings :
    q[1].resolvedDef /= NoId => rename(all, q[1]) = {o[1] : o \in {r \in meanings : r[2] = q[2]}}

\* rename on a name that was found touches what stands for the same declaration, in
\* every document, and nothing else, although it only compares ids.
RenameKeepsMeaning == Done => RenamesKeep(AllOccurrences, Meanings)

Is(o, place) == documents[o.doc] = place.file /\ o.at = place.at
LeadHome(all, meanings) ==
  \A q \in meanings, d \in Definitions(all) : Is(d, q[2]) => find_definitions(all, q[1]) = {d}

\* Where a keyword announces the declaration, going to the definition of a name ends
\* at that declaration alone.
DefinitionIsTheDeclaration == Done => LeadHome(AllOccurrences, Meanings)

\* The walk ends, however many files draw one and however often (load_module,
\* merge_scope).  Not so for a file that draws itself or a name it declares as something
\* else, which waits for its own lock, nor for files that draw each other in a circle, which
\* load each other for ever: no file of the run is one of these.
EveryWalkEnds == <>[]Done

\* A walk never waits for a lock it holds: a file that draws itself, the shortest cyclic
\* import, is reported (load_module, merge_scope).  Not so of this resolver: the scope such
\* a draw finds is the one it is merged into.
NoWalkWaitsForItself == ~stuck

=============================================================================
