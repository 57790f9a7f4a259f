------------------------------- MODULE Resolver -------------------------------
(***************************************************************************)
(* izel_resolve: one walk over the tree of a file gives every declaration  *)
(* an id and every use the id of the symbol it finds in the scopes around  *)
(* it; a draw loads, walks and merges another file on the way.  The walk   *)
(* is a stack of tasks; the scopes are shared objects that outlive it.     *)
(*                                                                         *)
(* A tree is made of nodes [kind, kids] and tokens [kind = "token", tok,   *)
(* name, at].  A place is a source id and a position.                      *)
(*                                                                         *)
(* What no code keeps and the properties speak of: the field here of a     *)
(* task, the scope and the directory it was put on the stack for; of, the  *)
(* source a scope was made in; origin.                                     *)
(***************************************************************************)
EXTENDS Integers, FiniteSetsExt, SequencesExt, TLC

CONSTANTS
  Files,  \* the files there are: path |-> tree, a path being directories and a name
  Parts   \* what the tree of each file is made of: path |-> its nodes and tokens

\* The lexer gives no position to two tokens of a file.
ASSUME FilesAssumption ==
  /\ DOMAIN Parts = DOMAIN Files
  /\ \A f \in DOMAIN Files :
       /\ Files[f] \in Parts[f] /\ Files[f].kind /= "token"
       /\ \A e \in Parts[f] : e.kind /= "token" => e.kids \in Seq(Parts[f])
       /\ \A d, e \in Parts[f] : d.kind = "token" /\ e.kind = "token" /\ d.at = e.at => d = e

VARIABLES
  scopes,   \* every scope made so far: [symbols, parent, of]
  current,  \* current_scope
  base,     \* base_path, a sequence of directories; relative to the working directory
  work,     \* the tasks left, the next one first
  defIds,   \* def_ids: what the declarations and uses walked over stand for
  origin,   \* for each id given out, the file, the position and the name it was given for
  sources,  \* next_source_id, as the files given an id so far
  loaded,   \* loaded_csts: the module's name |-> its file
  stuck     \* a lock is waited for that will not be released

vars == <<scopes, current, base, work, defIds, origin, sources, loaded, stuck>>

OnDisk    == DOMAIN Files
RootScope == 1
NoParent  == 0
NoId      == -1
NoScope   == 0
NoSource  == 0

Symbol(id, moduleScope) == [id |-> id, scope |-> moduleScope]
EmptyScope(parent, source) == [symbols |-> <<>>, parent |-> parent, of |-> source]
Unknown == Symbol(NoId, NoScope)

IsNode(e)       == e.kind /= "token"
IsToken(e, tok) == e.kind = "token" /\ e.tok = tok
IsIdent(e)      == IsToken(e, "Ident")

\* The source being walked: loads put the end of the file they interrupt on the stack.
Source == Head(work).source

\* The elements at the places, in their order.
Chosen(seq, places) ==
  LET upto[i \in 0 .. Len(seq)] ==
        IF i = 0 THEN <<>> ELSE IF i \in places THEN Append(upto[i - 1], seq[i]) ELSE upto[i - 1]
  IN upto[Len(seq)]
Idents(kids) == {i \in DOMAIN kids : IsIdent(kids[i])}

-----------------------------------------------------------------------------
(* Scopes *)

\* The symbol of a name in a scope, or in the scopes around it.
resolve_local(s, name) ==
  IF name \in DOMAIN scopes[s].symbols THEN scopes[s].symbols[name] ELSE Unknown

resolve(s, name) ==
  LET sought[t \in 0 .. Len(scopes)] ==
        IF t = NoParent THEN Unknown
        ELSE IF name \in DOMAIN scopes[t].symbols THEN scopes[t].symbols[name] ELSE sought[scopes[t].parent]
  IN sought[s]

Found(symbol)    == symbol.id /= NoId
IsModule(symbol) == symbol.scope /= NoScope

\* What the first table does not have is taken from the second.
Over(first, second) ==
  [x \in DOMAIN first \cup DOMAIN second |-> IF x \in DOMAIN first THEN first[x] ELSE second[x]]

\* A definition replaces the symbol of that name.
With(table, key, value) == [x \in {key} \cup DOMAIN table |-> IF x = key THEN value ELSE table[x]]

\* Mutant: what is merged in replaces what is there.
MergedOver(into, from) ==
  [scopes EXCEPT ![into].symbols = Over(scopes[from].symbols, @)]

\* merge_scope: what is already there stays.
Merged(into, from) ==
  [scopes EXCEPT ![into].symbols = Over(@, scopes[from].symbols)]

\* The next id, given for a token of the source being walked.
NewId(token) == origin' = Append(origin, [file |-> sources[Source], at |-> token.at, name |-> token.name])

\* Mutant: every file counts its own.
NextIdOfFile == Cardinality({i \in DOMAIN origin : origin[i].file = sources[Source]})

NextId == Len(origin)

Place(token)      == <<Source, token.at>>
Record(token, id) == defIds' = With(defIds, Place(token), id)

Define(token) ==
  /\ NewId(token)
  /\ scopes' = [scopes EXCEPT ![current].symbols = With(@, token.name, Symbol(NextId, NoScope))]
  /\ Record(token, NextId)

-----------------------------------------------------------------------------
(* Tasks *)

Task(do) == work /= <<>> /\ ~stuck /\ Head(work).do = do
Here == [current |-> current, base |-> base]
VisitFrom(kids, here, source) ==
  [i \in DOMAIN kids |-> [do |-> "visit", node |-> kids[i], here |-> here, source |-> source]]
VisitAll(kids) == VisitFrom(kids, Here, Source)

Then(tasks) == work' = tasks \o Tail(work)

\* The task goes on with its other children after some tasks for this one.
Advance(tasks) == Then(tasks \o <<[Head(work) EXCEPT !.kids = Tail(@)]>>)

\* The children of the node are walked in a new scope.
Enclose ==
  LET inside == [current |-> Len(scopes) + 1, base |-> base]
  IN /\ current' = Len(scopes) + 1
     /\ Then(VisitFrom(Head(work).node.kids, inside, Source)
             \o <<[do |-> "pop", here |-> inside, source |-> Source]>>)

PopScope ==
  /\ Task("pop")
  /\ current' = IF scopes[current].parent /= NoParent THEN scopes[current].parent ELSE RootScope
  /\ Then(<<>>)
  /\ UNCHANGED <<scopes, base, defIds, origin, sources, loaded, stuck>>

Node  == Head(work).node
At(k) == Task("visit") /\ Node.kind = k

\* A name found in no scope is passed over in silence.
UseIdent ==
  /\ At("token")
  /\ LET symbol == resolve(current, Node.name)
     IN IF Node.tok = "Ident" /\ Found(symbol) THEN Record(Node, symbol.id) ELSE UNCHANGED defIds
  /\ Then(<<>>)
  /\ UNCHANGED <<scopes, current, base, origin, sources, loaded, stuck>>

DeclKeyword == [ShapeDecl |-> "Shape", ScrollDecl |-> "Scroll", DualDecl |-> "Dual", TypeAlias |-> "Type"]

OwnCase == DOMAIN DeclKeyword
  \cup {"token", "ForgeDecl", "WardDecl", "ImplBlock", "Param", "ParamPart", "Block", "LetStmt", "DrawDecl"}

resolve_children ==
  /\ Task("visit") /\ Node.kind \notin OwnCase
  /\ Then(VisitAll(Node.kids))
  /\ UNCHANGED <<scopes, current, base, defIds, origin, sources, loaded, stuck>>

\* The members of an impl are walked as its own children: a method is not
\* declared and has no scope of its own.
resolve_impl_block ==
  /\ At("ImplBlock")
  /\ Then([i \in DOMAIN Node.kids |-> [do |-> "member", node |-> Node.kids[i], here |-> Here, source |-> Source]])
  /\ UNCHANGED <<scopes, current, base, defIds, origin, sources, loaded, stuck>>

WalkMember ==
  /\ Task("member")
  /\ Then(IF IsNode(Node) THEN VisitAll(Node.kids) ELSE <<>>)
  /\ UNCHANGED <<scopes, current, base, defIds, origin, sources, loaded, stuck>>

resolve_block ==
  /\ At("Block")
  /\ scopes' = Append(scopes, EmptyScope(current, Source))
  /\ Enclose
  /\ UNCHANGED <<base, defIds, origin, sources, loaded, stuck>>

\* The identifiers after the keyword; there may be none.
NamesAfter(kids, keyword) ==
  {i \in Idents(kids) : \E j \in DOMAIN kids : j < i /\ IsToken(kids[j], keyword)}
FirstIn(kids, places) == kids[Min(places)]

\* The name of a forge belongs to the scope around it; its children are then
\* walked in a scope of their own, the name among them.
resolve_forge_decl ==
  /\ At("ForgeDecl")
  /\ LET names == NamesAfter(Node.kids, "Forge")
         name  == FirstIn(Node.kids, names)
     IN IF names = {}
        THEN scopes' = Append(scopes, EmptyScope(current, Source)) /\ UNCHANGED <<origin, defIds>>
        ELSE /\ NewId(name) /\ Record(name, NextId)
             /\ scopes' = Append([scopes EXCEPT ![current].symbols = With(@, name.name, Symbol(NextId, NoScope))],
                                 EmptyScope(current, Source))
  /\ Enclose
  /\ UNCHANGED <<base, sources, loaded, stuck>>

\* Only the name of a parameter is looked at.
resolve_param ==
  /\ At("Param") \/ At("ParamPart")
  /\ IF Idents(Node.kids) = {} THEN UNCHANGED <<scopes, origin, defIds>>
     ELSE Define(FirstIn(Node.kids, Idents(Node.kids)))
  /\ Then(<<>>)
  /\ UNCHANGED <<current, base, sources, loaded, stuck>>

\* Without a name a ward is not walked at all.
resolve_ward_decl ==
  /\ At("WardDecl")
  /\ LET names == NamesAfter(Node.kids, "Ward")
         name  == FirstIn(Node.kids, names)
     IN IF names = {}
        THEN Then(<<>>) /\ UNCHANGED <<scopes, current, origin, defIds>>
        ELSE /\ NewId(name) /\ Record(name, NextId)
             /\ scopes' = Append([scopes EXCEPT ![current].symbols =
                                    With(@, name.name, Symbol(NextId, Len(scopes) + 1))],
                                 EmptyScope(current, Source))
             /\ Enclose
  /\ UNCHANGED <<base, sources, loaded, stuck>>

-----------------------------------------------------------------------------
(* Declarations whose children are taken one after the other. *)

BeginDecl ==
  /\ Task("visit") /\ Node.kind \in DOMAIN DeclKeyword \cup {"LetStmt"}
  /\ Then(<<[do      |-> IF Node.kind = "LetStmt" THEN "let" ELSE "named",
             kids    |-> Node.kids,
             keyword |-> IF Node.kind = "LetStmt" THEN "" ELSE DeclKeyword[Node.kind],
             found   |-> FALSE, tilde |-> FALSE, defined |-> FALSE, here |-> Here, source |-> Source]>>)
  /\ UNCHANGED <<scopes, current, base, defIds, origin, sources, loaded, stuck>>

This == Head(work)
Child == Head(This.kids)
OnChild(do) == Task(do) /\ This.kids /= <<>>

EndDecl ==
  /\ Task("let") \/ Task("named")
  /\ This.kids = <<>>
  /\ Then(<<>>)
  /\ UNCHANGED <<scopes, current, base, defIds, origin, sources, loaded, stuck>>

resolve_named_decl ==
  /\ OnChild("named")
  /\ IF IsNode(Child)
     THEN Advance(VisitAll(Child.kids)) /\ UNCHANGED <<scopes, origin, defIds>>
     ELSE LET names == This.found /\ IsIdent(Child)
          IN /\ Then(<<[This EXCEPT !.kids = Tail(@),
                          !.found = (IsToken(Child, This.keyword) \/ @) /\ ~names]>>)
             /\ IF names THEN Define(Child) ELSE UNCHANGED <<scopes, origin, defIds>>
  /\ UNCHANGED <<current, base, sources, loaded, stuck>>

\* A ~ takes the name to be the variable that already has it.
Bind(token, tilde) ==
  LET existing == resolve(current, token.name)
  IN IF tilde /\ Found(existing)
     THEN Record(token, existing.id) /\ UNCHANGED <<scopes, origin>>
     ELSE Define(token)

\* The pattern of a let: its own identifiers are defined one by one, what is
\* nested deeper is walked as uses.
PatternChild ==
  /\ OnChild("pattern")
  /\ IF IsNode(Child)
     THEN Advance(VisitAll(Child.kids)) /\ UNCHANGED <<scopes, origin, defIds>>
     ELSE /\ Advance(<<>>)
          /\ IF IsIdent(Child) THEN Bind(Child, This.tilde) ELSE UNCHANGED <<scopes, origin, defIds>>
  /\ UNCHANGED <<current, base, sources, loaded, stuck>>

EndPattern ==
  /\ Task("pattern") /\ This.kids = <<>>
  /\ Then(<<>>)
  /\ UNCHANGED <<scopes, current, base, defIds, origin, sources, loaded, stuck>>

\* What comes first is taken for the pattern until a name has been defined:
\* when the pattern names nothing by itself, that is the initializer.
resolve_let_stmt ==
  /\ OnChild("let")
  /\ IF IsNode(Child)
     THEN LET pattern == This.found /\ ~This.defined /\ Child.kind \in {"Ident", "Pattern"}
              names   == \E i \in DOMAIN Child.kids : IsIdent(Child.kids[i])
              rest    == [This EXCEPT !.kids = Tail(@), !.defined = @ \/ (pattern /\ names)]
              binding == [This EXCEPT !.do = "pattern", !.kids = Child.kids]
          IN /\ Then((IF pattern THEN <<binding>> ELSE VisitAll(Child.kids)) \o <<rest>>)
             /\ UNCHANGED <<scopes, origin, defIds>>
     ELSE LET names == This.found /\ ~This.defined /\ IsIdent(Child)
          IN /\ Then(<<[This EXCEPT !.kids = Tail(@), !.defined = @ \/ names,
                          !.found = @ \/ IsToken(Child, "Let") \/ IsToken(Child, "Tilde"),
                          !.tilde = @ \/ IsToken(Child, "Tilde")]>>)
             /\ IF names THEN Bind(Child, This.tilde) ELSE UNCHANGED <<scopes, origin, defIds>>
  /\ UNCHANGED <<current, base, sources, loaded, stuck>>

-----------------------------------------------------------------------------
(* Drawing another module *)

resolve_draw_decl ==
  /\ At("DrawDecl")
  /\ LET path == Chosen(Node.kids, Idents(Node.kids))
     IN Then(IF path = <<>> THEN <<>>
             ELSE <<[do |-> "draw", path |-> path, next |-> 1, scope |-> current, here |-> Here, source |-> Source]>>)
  /\ UNCHANGED <<scopes, current, base, defIds, origin, sources, loaded, stuck>>

Segment == This.path[This.next]
InScope == resolve_local(This.scope, Segment.name)
Drawing == Task("draw") /\ This.next <= Len(This.path)

\* Mutant: a module known is not entered.
DrawKnownOutside ==
  /\ Drawing /\ Found(InScope)
  /\ Then(<<[This EXCEPT !.next = @ + 1]>>)
  /\ UNCHANGED <<scopes, current, base, defIds, origin, sources, loaded, stuck>>

\* A module is entered; any other symbol of that name leaves the scope as it is.
DrawKnown ==
  /\ Drawing /\ Found(InScope)
  /\ Then(<<[This EXCEPT !.next = @ + 1, !.scope = IF IsModule(InScope) THEN InScope.scope ELSE @]>>)
  /\ UNCHANGED <<scopes, current, base, defIds, origin, sources, loaded, stuck>>

\* load_module: the name is the path up to this segment.
ModuleName == [i \in 1 .. This.next |-> This.path[i].name]
Directory(p) == SubSeq(p, 1, Len(p) - 1)

\* A standard module is looked for below the working directory.
FilePath ==
  IF Len(ModuleName) > 1 /\ ModuleName[1] = "std" THEN ModuleName ELSE base \o ModuleName

\* Mutant: the root scope is not asked.
NeverInRoot == Unknown

InRoot == IF Len(ModuleName) = 1 THEN resolve_local(RootScope, ModuleName[1]) ELSE Unknown

\* What a module declares stands in no scope of the file that draws it.
NewModule(source) == EmptyScope(NoParent, source)

\* The scope drawn is defined as a module under an id of its own.
Enter(into, moduleScope, table) ==
  /\ NewId(Segment)
  /\ scopes' = [table EXCEPT ![into].symbols =
                  With(@, Segment.name, Symbol(NextId, moduleScope))]

DrawWithoutLoading ==
  /\ Drawing /\ ~Found(InScope)
  /\ IsModule(InRoot) \/ FilePath \notin OnDisk
  /\ LET scope == IF IsModule(InRoot) THEN InRoot.scope ELSE Len(scopes) + 1
         table == IF IsModule(InRoot) THEN scopes ELSE Append(scopes, NewModule(NoSource))
     IN /\ Enter(This.scope, scope, table)
        /\ Then(<<[This EXCEPT !.next = @ + 1, !.scope = scope]>>)
  /\ UNCHANGED <<current, base, defIds, sources, loaded, stuck>>

\* The walk of the file comes before the rest of the draw; until it ends nothing
\* says that the file is being loaded.
LoadModule ==
  /\ Drawing /\ ~Found(InScope) /\ ~IsModule(InRoot) /\ FilePath \in OnDisk
  /\ scopes' = Append(scopes, NewModule(Len(sources) + 1))
  /\ sources' = Append(sources, FilePath)
  /\ LET kids   == Files[FilePath].kids
         inside == [current |-> Len(scopes) + 1, base |-> Directory(FilePath)]
     IN work' = VisitFrom(kids, inside, Len(sources) + 1)
                \o <<[do |-> "loaded", name |-> ModuleName, file |-> FilePath, scope |-> Len(scopes) + 1,
                      here |-> inside, back |-> Here, source |-> Len(sources) + 1]>>
                \o work
  /\ current' = Len(scopes) + 1
  /\ base' = Directory(FilePath)
  /\ UNCHANGED <<defIds, origin, loaded, stuck>>

\* The draw that asked for the module is the next task.
LoadedFor(draw) ==
  LET segment == draw.path[draw.next]
  IN /\ loaded' = With(loaded, This.name, This.file)
     /\ origin' = Append(origin, [file |-> sources[draw.source], at |-> segment.at, name |-> segment.name])
     /\ scopes' = [scopes EXCEPT ![draw.scope].symbols = With(@, segment.name, Symbol(NextId, This.scope))]
     /\ work' = <<[draw EXCEPT !.next = @ + 1, !.scope = This.scope]>> \o Tail(Tail(work))
     /\ UNCHANGED <<defIds, sources, stuck>>

\* Mutant: the directory stays the one of the module.
EndLoadThere ==
  /\ Task("loaded")
  /\ current' = This.back.current /\ UNCHANGED base
  /\ LoadedFor(work[2])

EndLoad ==
  /\ Task("loaded")
  /\ current' = This.back.current /\ base' = This.back.base
  /\ LoadedFor(work[2])

\* The last module's symbols become visible here.  Merging locks this scope to
\* write and the other to read: if they are one, it waits for itself.
MergeDrawn ==
  /\ Task("draw") /\ This.next > Len(This.path)
  /\ IF This.scope = current
     THEN stuck' = TRUE /\ UNCHANGED <<scopes, work>>
     ELSE scopes' = Merged(current, This.scope) /\ Then(<<>>) /\ UNCHANGED stuck
  /\ UNCHANGED <<current, base, defIds, origin, sources, loaded>>

-----------------------------------------------------------------------------
\* Resolver::new, and resolve_source_file for a file of the working directory.
ResolverStart(file) ==
  /\ scopes = <<EmptyScope(NoParent, 1)>>
  /\ current = RootScope
  /\ base = Directory(file)
  /\ sources = <<file>>
  /\ work = VisitFrom(Files[file].kids, [current |-> RootScope, base |-> Directory(file)], 1)
  /\ defIds = <<>> /\ origin = <<>> /\ loaded = <<>>
  /\ stuck = FALSE

Walk ==
  \/ UseIdent \/ resolve_children \/ resolve_impl_block \/ WalkMember \/ resolve_block \/ PopScope
  \/ resolve_forge_decl \/ resolve_param \/ resolve_ward_decl
  \/ BeginDecl \/ resolve_named_decl \/ resolve_let_stmt \/ PatternChild \/ EndPattern \/ EndDecl
  \/ resolve_draw_decl \/ DrawKnown \/ DrawWithoutLoading \/ LoadModule \/ EndLoad \/ MergeDrawn

-----------------------------------------------------------------------------
\* The server starts on each document anew.
OnTheWay == work /= <<>> /\ Head(work).do /= "document"

\* Whatever a node holds, blocks in wards and draws of files that draw others included,
\* its names are sought from the scope and the directory that its place in the text gives
\* it, through scopes of its own file only: resolve_block, resolve_forge_decl,
\* resolve_ward_decl and load_module leave current_scope and base_path as they found them,
\* and what files have of each other is what was entered or merged.
NamesAreSoughtInPlace ==
  /\ OnTheWay => Here = Head(work).here /\ scopes[current].of = Source
  /\ \A s \in DOMAIN scopes : scopes[s].parent /= NoParent => scopes[scopes[s].parent].of = scopes[s].of

Tokens(f) == {e \in Parts[f] : e.kind = "token"}
Spelled   == [f \in OnDisk |-> [p \in {e.at : e \in Tokens(f)} |-> (CHOOSE e \in Tokens(f) : e.at = p).name]]

\* An identifier stands for something of its own name, however the symbol came to where it
\* was found: declared, entered as a module or merged from another file.  One counter gives
\* the ids of all files (next_id), so that rename, which compares ids alone, never touches
\* another word.
UsesBearTheName ==
  \A place \in DOMAIN defIds :
    origin[defIds[place] + 1].name = Spelled[sources[place[1]]][place[2]]

=============================================================================
