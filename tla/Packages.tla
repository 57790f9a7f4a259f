------------------------------ MODULE Packages ------------------------------
(***************************************************************************)
(* The package manager (izel_pm): its command lines and what they ask for, *)
(* the programs that go through the lines of an Izel.toml, and processes   *)
(* of izel and of izelc deps at work in one project directory, each        *)
(* carrying out its command by one call on the disk or one child process   *)
(* at a time. The calls of different processes interleave, any of them can *)
(* fail, and a process can be killed between two of them: the code takes   *)
(* no lock, and fs::write empties a file before it fills it.               *)
(*                                                                         *)
(* A word is [t, at, p, v]: its text, whether it has an at-sign, and the   *)
(* parts before and after it. A line is [k, section, key, value]: a        *)
(* header, an entry, a comment, blank, or one that is none of these. The   *)
(* section of [[bin]] is <<"bin">> in brackets of its own.                 *)
(***************************************************************************)
EXTENDS Integers, SequencesExt, FiniteSetsExt

Texts(words) == [i \in DOMAIN words |-> words[i].t]
Only(words, flags) == \A i \in DOMAIN words : words[i].t \in flags

Refused == [do |-> "refused"]
Ask(do) == [do |-> do]

KindOf == [bin |-> "--bin", lib |-> "--lib", workspace |-> "--workspace"]

parse_new_command(a) ==
  IF a = <<>> \/ Len(a) > 2 \/ ~ Only(Tail(a), {KindOf[k] : k \in DOMAIN KindOf}) THEN Refused
  ELSE [do |-> "new", kind |-> IF Len(a) = 1 THEN "bin" ELSE CHOOSE k \in DOMAIN KindOf : KindOf[k] = a[2].t]

\* The word after --target is the target, whatever it looks like.
parse_build_command(a) ==
  LET Word(s, w) ==
        IF s.awaits THEN [s EXCEPT !.target = <<w.t>>, !.awaits = FALSE]
        ELSE CASE w.t = "--release" -> [s EXCEPT !.release = TRUE]
               [] w.t = "--target" -> [s EXCEPT !.awaits = TRUE]
               [] OTHER -> [s EXCEPT !.bad = TRUE]
      end == FoldLeft(Word, [release |-> FALSE, target |-> <<>>, awaits |-> FALSE, bad |-> FALSE], a)
  IN IF end.bad \/ end.awaits THEN Refused ELSE [do |-> "build", release |-> end.release, target |-> end.target]

Dashed == {"--lib", "--bin", "--workspace", "--release", "--target", "--threads", "--check", "--open", "--dev", "--"}
Counts == [two |-> 2]  \* the words that are positive numbers

parse_test_command(a) ==
  LET filter == a /= <<>> /\ a[1].t \notin Dashed
      Word(s, w) ==
        IF s.awaits THEN [s EXCEPT !.bad = @ \/ w.t \notin DOMAIN Counts, !.threads = <<w.t>>, !.awaits = FALSE]
        ELSE [s EXCEPT !.bad = @ \/ w.t /= "--threads", !.awaits = TRUE]
      end == FoldLeft(Word, [threads |-> <<>>, awaits |-> FALSE, bad |-> FALSE], IF filter THEN Tail(a) ELSE a)
  IN IF end.bad \/ end.awaits THEN Refused
     ELSE [do |-> "test", filter |-> IF filter THEN <<a[1].t>> ELSE <<>>, threads |-> end.threads]

\* A package and at most one version, in a sequence; or none.
split_package_spec(w) ==
  IF w.p = "" \/ (w.at /\ w.v = "") THEN <<>>
  ELSE <<[package |-> w.p, version |-> IF w.at THEN <<w.v>> ELSE <<>>]>>

parse_add_command(a) ==
  IF a = <<>> \/ split_package_spec(a[1]) = <<>> \/ ~ Only(Tail(a), {"--dev"}) THEN Refused
  ELSE [do |-> "add", package |-> split_package_spec(a[1])[1].package,
        version |-> split_package_spec(a[1])[1].version, dev |-> Len(a) > 1]

Alone == {"check", "lint", "update", "publish", "clean", "tree", "audit"}
Flag  == [fmt |-> "--check", doc |-> "--open"]

\* Without a -- the words after run are dropped.
parse_command(line) ==
  LET c == IF line = <<>> THEN "help" ELSE line[1].t
      a == Tail(line)
  IN CASE c \in {"help", "-h", "--help"} -> Ask("help")
       [] c = "new"   -> parse_new_command(a)
       [] c = "build" -> parse_build_command(a)
       [] c = "test"  -> parse_test_command(a)
       [] c = "add"   -> parse_add_command(a)
       [] c = "run"   -> [do |-> "run", args |-> IF a /= <<>> /\ a[1].t = "--" THEN Texts(Tail(a)) ELSE <<>>]
       [] c = "bench" /\ Len(a) <= 1 -> [do |-> "bench", filter |-> Texts(a)]
       [] c = "remove" /\ Len(a) = 1 -> [do |-> "remove", package |-> a[1].t]
       [] c \in DOMAIN Flag /\ (a = <<>> \/ Texts(a) = <<Flag[c]>>) -> [do |-> c, flag |-> a /= <<>>]
       [] c \in Alone /\ a = <<>> -> Ask(c)
       [] OTHER -> Refused

-----------------------------------------------------------------------------
(* The manifest. *)

Header(section)   == [k |-> "header", section |-> section, key |-> "", value |-> ""]
Entry(key, value) == [k |-> "entry", section |-> "", key |-> key, value |-> value]
Comment == [k |-> "comment", section |-> "", key |-> "", value |-> ""]
Blank   == [k |-> "blank", section |-> "", key |-> "", value |-> ""]

IsHeader(line) == line.k = "header"
Bins == "[bin]"

\* Mutant: the entry goes to the end of the file.
upsert_at_end(lines, section, package, value) == Append(lines, Entry(package, value))

\* The entry of the section that has the key is replaced; if there is none, one is added at
\* the section's end, before the next header; if there is no section, it too, after a blank.
upsert_dependency(lines, section, package, value) ==
  LET starts == {i \in DOMAIN lines : lines[i] = Header(section)}
      start  == Min(starts)
      ends   == {i \in DOMAIN lines : i > start /\ IsHeader(lines[i])}
      end    == IF ends = {} THEN Len(lines) + 1 ELSE Min(ends)
      same   == {i \in start + 1 .. end - 1 : lines[i].k = "entry" /\ lines[i].key = package}
      gap    == IF lines = <<>> \/ Last(lines) = Blank THEN <<>> ELSE <<Blank>>
  IN IF starts = {} THEN lines \o gap \o <<Header(section), Entry(package, value)>>
     ELSE IF same /= {} THEN [lines EXCEPT ![Min(same)] = Entry(package, value)]
     ELSE InsertAt(lines, end, Entry(package, value))

\* The header a line is under, itself if it is one; "" before the first.
SectionOf(lines, i) ==
  LET above == {j \in 1 .. i : IsHeader(lines[j])} IN IF above = {} THEN "" ELSE lines[Max(above)].section

\* The lines that stay, in their order.
LinesThat(lines, stay) ==
  LET upto[i \in 0 .. Len(lines)] ==
        IF i = 0 THEN <<>> ELSE IF stay[i] THEN Append(upto[i - 1], lines[i]) ELSE upto[i - 1]
  IN upto[Len(lines)]

\* Every entry of the section that has the key goes.
remove_dependency_from_section(lines, section, package) ==
  LinesThat(lines, [i \in DOMAIN lines |->
                     ~ (lines[i].k = "entry" /\ lines[i].key = package /\ SectionOf(lines, i) = section)])

\* The first path of a binary, in a sequence.
parse_bin_path_from_manifest(lines) ==
  LET paths == {i \in DOMAIN lines : lines[i].k = "entry" /\ lines[i].key = "path" /\ SectionOf(lines, i) = Bins}
  IN IF paths = {} THEN <<>> ELSE <<lines[Min(paths)].value>>

\* The lines parse_manifest accepts: neither comments, nor doubled brackets, nor what has no
\* equals sign.
Readable == {"header", "entry", "blank"}

\* parse_manifest keeps the dependencies, the last of each key, and drops the other
\* sections it does not know.
parse_manifest(lines) ==
  LET here == {i \in DOMAIN lines : lines[i].k = "entry" /\ SectionOf(lines, i) = "dependencies"}
      Of(key) == {i \in here : lines[i].key = key}
      bad == \E i \in DOMAIN lines : lines[i].k \notin Readable \/ lines[i] = Header(Bins)
  IN [ok |-> ~ bad,
      dependencies |-> [key \in {lines[i].key : i \in here} |-> lines[Max(Of(key))].value]]

-----------------------------------------------------------------------------
(* Processes in a project directory *)

CONSTANTS
  Processes,     \* each runs one command at a time
  CommandLines,  \* process -> what is typed there
  MaxCommands,   \* bound on the commands and the edits by hand
  Cuts,          \* bound: how many whole lines a cut leaves of a text
  Projects       \* what there may be at first: the directory's files, whether runs are dry

ASSUME CommandLinesAssumption ==
  \A p \in Processes : \A line \in CommandLines[p] : line \in Seq({line[i] : i \in DOMAIN line})

\* A text is a sequence of lines, and a line that is a header is that and no more.
IsText(lines) ==
  /\ lines \in Seq({lines[i] : i \in DOMAIN lines})
  /\ \A i \in DOMAIN lines : IsHeader(lines[i]) => lines[i] = Header(lines[i].section)

ASSUME CutsAssumption == Cuts \subseteq Nat

ASSUME ProjectsAssumption ==
  \A project \in Projects : \A path \in DOMAIN project.files : IsText(project.files[path])

VARIABLES
  files,  \* path -> lines, of the files there are
  proc,   \* process -> its command, the steps left, how it stands
  dry,    \* IZEL_PM_DRY_RUN
  mine,   \* ghost: the sources whose lines are the user's
  count   \* commands and edits so far

vars == <<files, proc, dry, mine, count>>

Manifest == "Izel.toml"
Workspace == "Cargo.toml"
Main == "src/main.iz"
Library == "src/lib.iz"
Flat == "main.iz"
Sources == {Main, Library, Flat}

Line(text) == [k |-> text, section |-> "", key |-> "", value |-> ""]
Own  == Line("the user's")
Torn == Line("torn")  \* the end of a longer text that was there before, or of a write cut short

Template == [bin |-> <<Line("forge main")>>, lib |-> <<Line("open forge hello")>>]
SourceOf == [bin |-> Main, lib |-> Library]
NewManifest(kind) ==
  IF kind = "workspace" THEN <<Header("workspace"), Entry("members", "[]")>>
  ELSE <<Header("package"), Entry("name", "app"), Entry("version", "0.1.0"), Blank, Header("dependencies")>>

-----------------------------------------------------------------------------
(* The steps of a command.  A process is [command, steps, is, why] and three ghosts:       *)
(* alone, no other has run beside it; before, the manifest as it found it; ready, a        *)
(* project had been made when it began.                                                    *)

Unless(path, lines) == [op |-> "unless", path |-> path, lines |-> lines]  \* exists()?
Open(path)          == [op |-> "open", path |-> path]
Fill(path, lines)   == [op |-> "fill", path |-> path, lines |-> lines]
Start(program)      == [op |-> "start", program |-> program, otherwise |-> <<>>]
Find(paths)         == [op |-> "find", paths |-> paths]
Compile(entry, compilers) == [op |-> "compile", entry |-> entry, compilers |-> compilers]
Just(op)            == <<[op |-> op]>>

\* fs::write
WriteOut(path, lines) == <<Open(path), Fill(path, lines)>>

\* Mutant: what is there is written over.
create_project_anew(kind) ==
  Just("mkdir") \o WriteOut(Manifest, NewManifest(kind))
    \o (IF kind = "workspace" THEN <<>> ELSE Just("mkdir") \o WriteOut(SourceOf[kind], Template[kind]))

create_project(kind) ==
  Just("mkdir") \o <<Unless(Manifest, NewManifest(kind))>>
    \o (IF kind = "workspace" THEN <<>> ELSE Just("mkdir") \o <<Unless(SourceOf[kind], Template[kind])>>)

\* Linting a workspace that is none is tried again without.
Lint == <<[Start("clippy --workspace") EXCEPT !.otherwise = <<Start("clippy")>>]>>

StepsOf(command) ==
  CASE command.do = "new" -> create_project(command.kind)
    [] command.do \in {"add", "remove"} -> Just("edit")
    [] command.do \in {"build", "run"} -> Just("layout")
    [] command.do = "lint" -> Lint
    [] command.do = "doc" -> <<Start("doc")>> \o (IF command.flag THEN Just("browse") ELSE <<>>)
    [] command.do = "deps" -> Just("resolve")
    [] command.do = "help" -> <<>>
    [] OTHER -> <<Start(command.do)>>

\* What an edit makes of the manifest.
Edited(command, lines) ==
  IF command.do = "add"
  THEN upsert_dependency(lines, IF command.dev THEN "dev-dependencies" ELSE "dependencies", command.package,
                         IF command.version = <<>> THEN "*" ELSE command.version[1])
  ELSE remove_dependency_from_section(
         remove_dependency_from_section(lines, "dependencies", command.package), "dev-dependencies", command.package)

\* Mutant: the sources of a library are not looked for.
entry_candidates_of_binaries(lines) == parse_bin_path_from_manifest(lines) \o <<Main, Flat>>

\* Where resolve_izel_entry_source looks, in order.
entry_candidates(lines) == parse_bin_path_from_manifest(lines) \o <<Main, Flat, Library>>

\* The names an izelc may go by: the one in the environment, the one on the path, the sibling.
Compilers == <<"explicit", "on the path", "sibling">>

-----------------------------------------------------------------------------

Exists(path) == path \in DOMAIN files
LinesOf(path) == IF Exists(path) THEN files[path] ELSE <<>>

Idle == [command |-> Ask("help"), steps |-> <<>>, is |-> "idle", why |-> "",
         alone |-> TRUE, before |-> <<>>, ready |-> FALSE]

Init ==
  /\ \E project \in Projects : files = project.files /\ dry = project.dry
  /\ proc = [p \in Processes |-> Idle]
  /\ mine = {path \in Sources \cap DOMAIN files : files[path] = <<Own>>}
  /\ count = 0

Running(p) == proc[p].is = "running"
Due(p, op) == Running(p) /\ Head(proc[p].steps).op = op
Step(p) == Head(proc[p].steps)
Rest(p) == Tail(proc[p].steps)

\* The process is over; a project with a source has been made if it was making one.
Over(p, is, why) ==
  LET c == proc[p].command
      made == is = "ok" /\ c.do = "new" /\ c.kind /= "workspace"
  IN [Idle EXCEPT !.is = is, !.why = why, !.ready = proc[p].ready \/ made]
Stop(p, is, why) == proc' = [proc EXCEPT ![p] = Over(p, is, why)]
Continue(p, steps) == IF steps = <<>> THEN Stop(p, "ok", "") ELSE proc' = [proc EXCEPT ![p].steps = steps]
Put(path, lines) == files' = [f \in DOMAIN files \cup {path} |-> IF f = path THEN lines ELSE files[f]]

\* izelc deps, or a command of izel.
Asked(line) == IF Texts(line) = <<"izelc", "deps">> THEN Ask("deps") ELSE parse_command(line)

\* main: the command line is read, and a refused one ends with the usage.
Type(p, command) ==
  /\ ~ Running(p) /\ count < MaxCommands
  /\ LET others == {q \in Processes : Running(q)}
         steps  == IF command = Refused THEN <<>> ELSE StepsOf(command)
         begun  == [command |-> command, steps |-> steps, why |-> "",
                    is |-> IF command = Refused THEN "failed" ELSE IF steps = <<>> THEN "ok" ELSE "running",
                    alone |-> others = {}, before |-> LinesOf(Manifest), ready |-> \E q \in Processes : proc[q].ready]
     IN proc' = [q \in Processes |->
                   IF q = p THEN begun ELSE IF q \in others THEN [proc[q] EXCEPT !.alone = FALSE] ELSE proc[q]]
  /\ count' = count + 1
  /\ UNCHANGED <<files, mine>>

\* Between commands the user writes a source.
WriteByHand(path) ==
  /\ count < MaxCommands /\ \A p \in Processes : ~ Running(p)
  /\ Put(path, <<Own>>) /\ mine' = mine \cup {path} /\ count' = count + 1
  /\ UNCHANGED proc

CreateDirectory(p) == Due(p, "mkdir") /\ Continue(p, Rest(p)) /\ UNCHANGED files

\* exists() and what follows it are two calls.
LookBeforeWriting(p) ==
  /\ Due(p, "unless")
  /\ Continue(p, (IF Exists(Step(p).path) THEN <<>> ELSE WriteOut(Step(p).path, Step(p).lines)) \o Rest(p))
  /\ UNCHANGED files

OpenEmpty(p) == Due(p, "open") /\ Put(Step(p).path, <<>>) /\ Continue(p, Rest(p))

\* A file that another process has filled since it was emptied keeps the end of that text,
\* if it was longer.
FillFile(p) ==
  /\ Due(p, "fill")
  /\ LET path == Step(p).path  lines == Step(p).lines  there == LinesOf(path)
     IN \/ Put(path, lines)
        \/ /\ there \notin {<<>>, lines}
           /\ \E n \in {c \in Cuts : c <= Len(there)} : Put(path, lines \o <<Torn>> \o SubSeq(there, Len(there) + 1 - n, Len(there)))
  /\ Continue(p, Rest(p))

ReadToEdit(p) ==
  /\ Due(p, "edit")
  /\ IF Exists(Manifest) THEN Continue(p, WriteOut(Manifest, Edited(proc[p].command, files[Manifest])))
     ELSE Stop(p, "failed", "")
  /\ UNCHANGED files

DetectLayout(p) ==
  /\ Due(p, "layout")
  /\ LET c == proc[p].command
     IN IF Exists(Workspace) THEN Continue(p, <<Start(c.do)>>)
        ELSE IF ~ Exists(Manifest) THEN Stop(p, "failed", "layout")
        ELSE IF c.do = "run" /\ c.args /= <<>> THEN Stop(p, "failed", "")
        ELSE Continue(p, Just("entry"))
  /\ UNCHANGED files

\* A manifest that is gone by now names no binary.
ListEntries(p) ==
  /\ Due(p, "entry")
  /\ Continue(p, <<Find(entry_candidates(LinesOf(Manifest)))>>)
  /\ UNCHANGED files

\* One exists() for each.
FindEntry(p) ==
  /\ Due(p, "find")
  /\ LET paths == Step(p).paths
     IN IF Exists(paths[1]) THEN Continue(p, <<Compile(paths[1], Compilers)>>)
        ELSE IF Len(paths) = 1 THEN Stop(p, "failed", "entry")
        ELSE Continue(p, <<Find(Tail(paths))>>)
  /\ UNCHANGED files

\* Mutant: the next candidate is tried, and the first again after the last.
after_missing_round(compilers) == Append(Tail(compilers), Head(compilers))

\* The candidates left when the first is not there.
after_missing(compilers) == Tail(compilers)

\* run_izelc: only a candidate that is not there gives way to the next.
RunCompiler(p) ==
  /\ Due(p, "compile")
  /\ LET compilers == after_missing(Step(p).compilers)
     IN \/ Continue(p, Rest(p))
        \/ ~ dry /\ Stop(p, "failed", "")
        \/ /\ ~ dry
           /\ IF compilers = <<>> THEN Stop(p, "failed", "")
              ELSE Continue(p, <<Compile(Step(p).entry, compilers)>>)
  /\ UNCHANGED files

\* run_external.  A dry run says what it would start.
RunProgram(p) ==
  /\ Due(p, "start")
  /\ \/ Continue(p, Rest(p))
     \/ /\ ~ dry
        /\ IF Step(p).otherwise = <<>> THEN Stop(p, "failed", "") ELSE Continue(p, Step(p).otherwise)
  /\ UNCHANGED files

OpenDocs(p) ==
  /\ Due(p, "browse")
  /\ Continue(p, Rest(p)) \/ (~ dry /\ Stop(p, "failed", ""))
  /\ UNCHANGED files

\* izelc deps.
ResolveDependencies(p) ==
  /\ Due(p, "resolve")
  /\ IF ~ Exists(Manifest) THEN Stop(p, "failed", "")
     ELSE IF ~ parse_manifest(files[Manifest]).ok THEN Stop(p, "failed", "")
     ELSE Continue(p, <<>>)
  /\ UNCHANGED files

\* A write that fails, or is cut short, leaves a beginning.
LeaveHalf(p) ==
  IF Step(p).op = "fill"
  THEN \E n \in Cuts, torn \in {<<>>, <<Torn>>} :
         n < Len(Step(p).lines) /\ Put(Step(p).path, SubSeq(Step(p).lines, 1, n) \o torn)
  ELSE UNCHANGED files

DiskFails(p) ==
  /\ Running(p) /\ Step(p).op \in {"mkdir", "open", "fill", "edit"}
  /\ LeaveHalf(p) /\ Stop(p, "failed", "")

Killed(p) == Running(p) /\ LeaveHalf(p) /\ Stop(p, "failed", "")

Works(p) ==
  \/ CreateDirectory(p) \/ LookBeforeWriting(p) \/ OpenEmpty(p) \/ FillFile(p) \/ ReadToEdit(p)
  \/ DetectLayout(p) \/ ListEntries(p) \/ FindEntry(p) \/ RunCompiler(p) \/ RunProgram(p) \/ OpenDocs(p)
  \/ ResolveDependencies(p)

Next ==
  /\ \/ \E p \in Processes : \E line \in CommandLines[p] : Type(p, Asked(line))
     \/ \E path \in Sources : WriteByHand(path)
     \/ \E p \in Processes : (Works(p) \/ DiskFails(p) \/ Killed(p)) /\ UNCHANGED <<mine, count>>
  /\ UNCHANGED dry

\* A process runs on, and the programs it starts end.
Fairness == \A p \in Processes : WF_vars(Works(p) /\ UNCHANGED <<dry, mine, count>>)
Spec == Init /\ [][Next]_vars /\ Fairness

-----------------------------------------------------------------------------

Ends(p) == Running(p) /\ proc[p]'.is = "ok"

\* The lines as the table they stand for.
HeaderOver(lines, i) == {j \in 1 .. i : IsHeader(lines[j]) /\ \A k \in j + 1 .. i : ~ IsHeader(lines[k])}
Table(lines) ==
  {<<{lines[j].section : j \in HeaderOver(lines, i)}, lines[i].key, lines[i].value>> :
     i \in {n \in DOMAIN lines : lines[n].k = "entry"}}
Kept(lines) == LinesThat(lines, [i \in DOMAIN lines |-> lines[i].k = "comment"])

\* Each table stands once, and each key once in it.
IsToml(lines) ==
  /\ \A i, j \in DOMAIN lines :
       i /= j /\ lines[i] = lines[j] => lines[i].k \notin {"header"} \/ lines[i].section = Bins
  /\ \A i, j \in DOMAIN lines :
       /\ i /= j /\ lines[i].k = "entry" /\ lines[j].k = "entry" /\ lines[i].key = lines[j].key
       => HeaderOver(lines, i) /= HeaderOver(lines, j)
  /\ Torn \notin ToSet(lines)

Section(command) == IF command.dev THEN "dev-dependencies" ELSE "dependencies"
Version(command) == IF command.version = <<>> THEN "*" ELSE command.version[1]

\* The table a command asks for.
Wanted(command, table) ==
  IF command.do = "add"
  THEN {row \in table : row[1] /= {Section(command)} \/ row[2] /= command.package}
         \cup {<<{Section(command)}, command.package, Version(command)>>}
  ELSE {row \in table : row[1] \notin {{"dependencies"}, {"dev-dependencies"}} \/ row[2] /= command.package}

\* The command's change and no other.
JustAsAsked(command, was, is) ==
  /\ Table(is) = Wanted(command, Table(was)) /\ IsToml(is) /\ Kept(is) = Kept(was)
  /\ parse_manifest(is).ok = parse_manifest(was).ok
  /\ command.do = "add" /\ ~ command.dev
       => parse_manifest(is).dependencies[command.package] = Version(command)

\* An izel add or izel remove that ran alone and ended well has made just the change it was
\* asked for: the manifest's other tables, its other entries and its comments are as they were,
\* no key or table is there twice, and izelc deps, which reads the manifest with a parser of its
\* own, reads it if it did before and finds the new dependency's version in it.
EditsDoTheirWork ==
  [][\A p \in Processes :
       LET c == proc[p].command  was == proc[p].before
       IN Ends(p) /\ c.do \in {"add", "remove"} /\ proc[p].alone /\ IsToml(was)
            => JustAsAsked(c, was, files[Manifest]')]_vars

\* What the user wrote in a source stays, whatever commands run, in whatever order, beside each
\* other or after one that was killed: izel new, given a directory that has sources, keeps them.
OwnFilesSurvive == \A path \in mine : Exists(path) /\ files[path] = <<Own>>

\* Once an izel new has ended well, with a binary or a library, izel build and izel run find a
\* project and a source in it, whatever commands run beside them and wherever others were
\* killed: the files that create_project makes are files that resolve_izel_entry_source looks for.
NewCanBeBuilt == \A p \in Processes : proc[p].ready => proc[p].why \notin {"layout", "entry"}

\* Every command ends: well, in failure, or killed.
EveryCommandEnds == \A p \in Processes : Running(p) ~> ~ Running(p)

=============================================================================
