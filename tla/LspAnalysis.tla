----------------------------- MODULE LspAnalysis -----------------------------
(***************************************************************************)
(* The language server's view of names (izel_lsp): the resolver walks all  *)
(* documents, each in a scope of its own that knows every module, in an    *)
(* order in which what is drawn comes first; definitions and references    *)
(* are then looked up among the identifiers of all documents.              *)
(***************************************************************************)
EXTENDS Resolver

CONSTANTS
  Mains,         \* the files the compiler is given
  Opened,        \* the documents the server is given, in the order a map of them happens to have
  Alphabetical   \* the names a module can have, in their order as strings

VARIABLE documents  \* the documents analyzed, as files, in the order of the map they come from

\* A name already taken gets the number of documents that took it before.
module_name_for_uri(docs, i) ==
  LET taken == Quantify(1 .. i - 1, LAMBDA j : Last(docs[j]) = Last(docs[i]))
  IN IF taken = 0 THEN Last(docs[i]) ELSE Last(docs[i]) \o "_" \o ToString(taken)

ModuleNames(docs) == {module_name_for_uri(docs, i) : i \in DOMAIN docs}
Sorted(names)     == Chosen(Alphabetical, {i \in DOMAIN Alphabetical : Alphabetical[i] \in names})

ASSUME AnalysisAssumption ==
  /\ Mains \subseteq OnDisk /\ Opened \subseteq Seq(OnDisk)
  /\ Alphabetical \in Seq(Range(Alphabetical))
  /\ \A docs \in Opened : ModuleNames(docs) \subseteq Range(Alphabetical)

-----------------------------------------------------------------------------
\* With two documents of one name, the later one.
IndexOf(docs, name) == Max({i \in DOMAIN docs : module_name_for_uri(docs, i) = name})

lex_tokens ==
  [file \in OnDisk |->
     LET leaves[e \in Parts[file]] ==
           IF IsNode(e) THEN FlattenSeq([i \in DOMAIN e.kids |-> leaves[e.kids[i]]]) ELSE <<e>>
     IN leaves[Files[file]]]

\* The documents whose name follows a draw.
draw_dependencies(file, names) ==
  LET leaves == lex_tokens[file]
  IN {leaves[i].name : i \in {j \in 2 .. Len(leaves) :
        leaves[j].tok = "Ident" /\ leaves[j - 1].tok = "Draw" /\ leaves[j].name \in names}}

\* Rounds over what is pending, in alphabetical order, each name as soon as all it
\* draws is done; what is left when a round adds nothing comes last.
Ordered(docs) ==
  LET names == ModuleNames(docs)
      all   == Sorted(names)
      draws == UNION {{n} \X draw_dependencies(docs[IndexOf(docs, n)], names) : n \in names}
      Ready(done, n) == \A d \in draws : d[1] = n => d[2] \in Range(done) \cup {n}
      after[k \in 0 .. Len(all) * Len(all)] ==
        IF k = 0 THEN <<>>
        ELSE LET done == after[k - 1]
                 name == all[((k - 1) % Len(all)) + 1]
             IN IF name \notin Range(done) /\ Ready(done, name) THEN Append(done, name) ELSE done
      first == after[Len(all) * Len(all)]
  IN first \o Sorted(names \ Range(first))

\* Every scope, the root included, knows every module, its own among them.
ModuleTable(docs) ==
  LET names == Sorted(ModuleNames(docs))
  IN [n \in Range(names) |-> LET k == SelectInSeq(names, LAMBDA m : m = n) IN Symbol(k - 1, k + 1)]

AnalysisStart(docs) ==
  LET names == Sorted(ModuleNames(docs))
      order == Ordered(docs)
      table == ModuleTable(docs)
      Made(n) == [symbols |-> table, parent |-> NoParent, of |-> IndexOf(docs, n)]
  IN /\ documents = docs
     /\ scopes = <<[symbols |-> table, parent |-> NoParent, of |-> NoSource]>>
                 \o [k \in DOMAIN names |-> Made(names[k])]
     /\ origin = [k \in DOMAIN names |-> [file |-> docs[IndexOf(docs, names[k])], at |-> <<>>, name |-> names[k]]]
     /\ work = [k \in DOMAIN order |->
                  [do |-> "document", node |-> Files[docs[IndexOf(docs, order[k])]],
                   scope |-> table[order[k]].scope, source |-> IndexOf(docs, order[k])]]
     /\ sources = docs
     /\ current = RootScope /\ base = <<>>
     /\ defIds = <<>> /\ loaded = <<>>
     /\ stuck = FALSE

BeginDocument ==
  /\ Task("document")
  /\ current' = This.scope
  /\ base' = Directory(sources[Source])
  /\ Then(VisitFrom(Node.kids, [current |-> This.scope, base |-> Directory(sources[Source])], Source))
  /\ UNCHANGED <<scopes, defIds, origin, sources, loaded, stuck, documents>>

Analyze == BeginDocument \/ (Walk /\ UNCHANGED documents)

\* The compiler on one file, or the server on documents.
Init == \/ \E main \in Mains : ResolverStart(main) /\ documents = <<>>
        \/ \E docs \in Opened : AnalysisStart(docs)
Next == Analyze
Spec == Init /\ [][Next]_<<vars, documents>> /\ WF_<<vars, documents>>(Next)

-----------------------------------------------------------------------------
(* Identifiers, definitions and references *)

DeclKinds == {"Forge", "Shape", "Scroll", "Weave", "Type", "Impl", "For", "Ward", "Let", "Macro", "Alias"}

\* An identifier is a definition if the token before it says so.
SymbolOccurrences(d) ==
  LET leaves == lex_tokens[documents[d]]
      idents == SelectSeq([i \in DOMAIN leaves |-> i], LAMBDA i : leaves[i].tok = "Ident")
      Occurrence(i) ==
        [doc          |-> d,
         at           |-> leaves[i].at,
         name         |-> leaves[i].name,
         resolvedDef  |-> IF <<d, leaves[i].at>> \in DOMAIN defIds THEN defIds[<<d, leaves[i].at>>] ELSE NoId,
         isDefinition |-> i > 1 /\ leaves[i - 1].tok \in DeclKinds]
  IN [k \in DOMAIN idents |-> Occurrence(idents[k])]

AllOccurrences == UNION {Range(SymbolOccurrences(d)) : d \in DOMAIN documents}

\* Mutant: in the document of the query only.
ByIdHere(all, query) == {o \in all : query.resolvedDef /= NoId /\ o.resolvedDef = query.resolvedDef /\ o.doc = query.doc}

ById(all, query)   == {o \in all : query.resolvedDef /= NoId /\ o.resolvedDef = query.resolvedDef}
ByName(all, query) == {o \in all : o.name = query.name}

Definitions(occurrences) == {o \in occurrences : o.isDefinition}
FirstOf(occurrences) ==
  LET doc == Min({o.doc : o \in occurrences})
  IN {SelectSeq(SymbolOccurrences(doc), LAMBDA o : o \in occurrences)[1]}

\* Mutant: by name first.
find_definitions_by_name(all, query) ==
  IF Definitions(ByName(all, query)) /= {} THEN Definitions(ByName(all, query))
  ELSE IF Definitions(ById(all, query)) /= {} THEN Definitions(ById(all, query))
  ELSE FirstOf(ByName(all, query))

\* By id if that finds anything, else by name wherever the name occurs.
find_definitions(all, query) ==
  IF Definitions(ById(all, query)) /= {} THEN Definitions(ById(all, query))
  ELSE IF Definitions(ByName(all, query)) /= {} THEN Definitions(ByName(all, query))
  ELSE FirstOf(ByName(all, query))

find_references(all, query, withDeclaration) ==
  LET Wanted(occurrences) == IF withDeclaration THEN occurrences
                             ELSE occurrences \ Definitions(occurrences)
  IN IF Wanted(ById(all, query)) /= {} THEN Wanted(ById(all, query)) ELSE Wanted(ByName(all, query))

\* rename changes every reference, the declaration included.
rename(all, query) == find_references(all, query, TRUE)

=============================================================================
