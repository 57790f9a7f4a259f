# Verification of the Izel compiler and its tools

TLA+ models of the Izel toolchain (`src/crates/`): the compiler's passes, the
language server and the package manager. TLC configurations check them on small
instances, and TLAPS proves the properties that hold for every instance. The
code is the reference; where a document promises something else, a run shows
the difference.

## The system

A build is one pass through a pipeline, driven by `izel_driver`:

    text -> tokens -> CST -> (resolve) -> AST -> (typeck) -> HIR -> MIR -> borrow check -> LLVM

The formatter goes from the CST back to text. The language server (asynchronous)
runs lexer, parser, resolver and type checker on the documents of an editor. The
package manager is a command line around files and the compiler.

| component | state it keeps | operations | what makes it right | what is hard |
|---|---|---|---|---|
| lexer (`izel_lexer`) | a cursor into the text | `next_token` | tokens tile the text | where raw strings, escapes and nested comments stop, at the end of the text too |
| parser (`izel_parser`) | position in the tokens, depth of conditions | one function per construct | the tree holds the tokens in order; operators group by rank; it ends | recovery, operands that move into a later node |
| formatter (`izel_fmt`) | output, indentation level, a flag | `format_element` and its helpers | only white space changes; a second pass changes nothing (not kept) | white space asked for in three places |
| lowering to AST (`izel_ast_lower`) | none | one function per node kind | every part of a node reaches the AST | parts that share a slot |
| resolver (`izel_resolve`) | scope tree, symbols, loaded modules | walk, declare, `load_module`, merge | a name means the declaration the text gives it | the order of draws, loads and declarations; scopes shared and locked |
| type checker (`izel_typeck`) | substitutions for types and effects, levels, scopes, effect sets, zones, raw blocks | two passes over the items; `unify`, `infer_expr`, `generalize`, `check_*` | accepted programs have their types and effects; reports are about something | variables bound one constraint at a time; state pushed and popped by hand |
| constants (`izel_parser::eval`) | bindings | `eval_expr`, contract checks | a broken contract is really broken | division, the ends of the integers |
| HIR (`izel_hir`) | none | `lower_*` | nothing that has behaviour is lost | forms without a HIR |
| MIR lowering (`izel_mir::lower`) | body, current block, header, variables, contracts | `lower_forge`, `lower_block`, `lower_stmt`, `lower_expr` | the graph and the terminators agree; what runs is what is written | terminators overwritten, blocks left open |
| dead code (`izel_mir::optim`) | the body | `Dce::run` | executions do not change | rounds that feed each other |
| borrow checker (`izel_borrow`) | error list, regions, initialized locals, zones | `check` | accepted bodies are safe; a report concerns one forge (not kept) | paths against block order; state kept between forges |
| code generation (`izel_codegen`) | LLVM module, slots, blocks | `gen_*` | a block without a terminator is never entered | contracts built as unreachable |
| driver (`izel_driver`) | one lowerer, one checker for all forges | `collect_mir`, `deps` | forges do not influence each other | shared checker |
| language server (`izel_lsp`) | document map, workspace roots, the client's channel | one handler per message | texts and diagnostics end up current; every message is handled | handlers run concurrently and wait in the middle |
| package manager (`izel_pm`) | manifest, project files, child processes | new, add, remove, build, run, lint, ... | the user's files survive; an edit does what it says; commands end | no locks, non-atomic writes, kills, retries |

Components interact by plain calls and by the data they hand on. State that
outlives a call is kept by the borrow checker (one for all forges), the resolver
(scopes shared by the modules that draw each other), the type checker
(substitutions and a scope stack for a whole program), the language server (one
document map for all handlers) and the disk (the package manager's processes).
The remaining crates are listed under "Not modelled".

## Modules

      .- Lexer_proofs
    Lexer --- ParserCode --- Parser --- SourceText --- MCSourceText

                           .- Resolver_proofs
    Resolver --- LspAnalysis --- NameMeaning --.
    NameSources ------------------------------- MCNames

    Types --- Declarations --- TypeChecker --- TypeMeaning --- MCTypes

    LspServer --- LspServer_proofs
    Packages --- Packages_proofs, MCPackages

    Hir --- FrontEnd --- SourceSemantics --------.
      \                                            \
       MirLower (lowering, with Mir) ----------- Compiler --- MCCompiler
       /      \__ MirLower_proofs                 /
    Mir --- MirMachine --------------------------'
      \
       MirSemantics --- ChaoticLiveness (abstract)
           |     \-- LivenessAnalysis --- LivenessAnalysis_proofs, MCLivenessAnalysis
            \------- BorrowChecker (instantiates LivenessAnalysis) --- MCBorrowChecker
                                             \-- BorrowChecker_proofs

    IterationTheorems (finite iterations; used by the proofs about liveness, borrows, tokens,
                       names and edits)

### Text

**Lexer**: the tables of keywords and tokens, and the branches of `next_token` as actions on
a cursor into a sequence of characters. A character is a string of length one; a keyword
counts as one character, for nothing in the lexer looks inside it but the table of keywords.

**ParserCode** holds every parse function as the steps it takes: bump, eat,
require, call, loop, test what is current or ahead, wrap the node so far. **Parser**
is the machine that takes them, with a stack of the calls in progress; each call
has the steps left and the children collected, as the Rust functions have a
program counter and a vector. `condition_expr_depth`, the recovery that skips a
token and the trivia attached to nodes are the code's. `lost` records the tokens
that end in no node and why.

**SourceText** has the formatter, which walks the tree with the code's `needs_indent`,
level and rules for white space, and composes the three as `format_source` does. It may
format the result once more.

### Names

**Resolver** is the walk over a tree as a stack of tasks, with scopes that are
entered, looked up and merged. A draw of a file that exists loads it, walks it
and merges its exports; a lookup that would need a lock the walk holds itself
leaves it `stuck`. **LspAnalysis** is the language server's use of it: all
documents walked in an order in which drawn modules come first
(`BeginDocument`), then definitions, references and renames looked up by id and,
failing that, by name. It also says where a walk begins: with a file of `Mains` in
the compiler, with a list of documents of `Opened` in the server.

| action | code (`izel_resolve/src/lib.rs`) |
|---|---|
| UseIdent, resolve_children | a token, a node without a case of its own, in `resolve_children` |
| resolve_impl_block, WalkMember | `resolve_impl_block`, which walks the members' children |
| resolve_block, resolve_forge_decl, resolve_ward_decl, PopScope | these functions up to their `resolve_children`, and after it |
| resolve_param | `resolve_param` |
| BeginDecl, resolve_named_decl, resolve_let_stmt, PatternChild, EndPattern, EndDecl | `resolve_named_decl` and `resolve_let_stmt`, one child a step |
| resolve_draw_decl, DrawKnown, DrawWithoutLoading, MergeDrawn | `resolve_draw_decl`, one segment of the path a step, then `merge_scope` |
| LoadModule, EndLoad | `load_module` before and after the walk of the file |
| BeginDocument | the loop of `analyze_documents` (`izel_lsp`) |

No code keeps `here` of a task (the scope and the directory it was put on the stack
for), `of` of a scope (the source it was made in) and the name in `origin`: the
properties compare with them what the walk does. No step reads them.

**NameMeaning** defines what a name in a tree means by looking only at the text: the
declarations that surround it, the modules drawn, the order they are drawn in.
**NameSources** has the families of files, **MCNames** chooses who walks them: the compiler
on the files of a directory, or the server on open documents in several orders, the other
files being on the disk.

### Types

**Types** has types, schemes and effect rows, with pruning, unification by
levels, the occurs check, generalization and instantiation. **Declarations** has the
evaluator of constants, with integers of `Bits` bits, and the first pass (`collect`),
**TypeChecker** the second: one item per action, in the
order `check_ast` takes them, with scopes, effect sets, zones and raw blocks
pushed and popped as the code does. Expressions are inferred by recursive
operators that thread the whole state through.

**TypeMeaning** judges the verdicts. It is a reference interpreter: values know
their types, a call takes the forge that admits the values, a forge without a
body performs what it declares, contracts are evaluated on the values of each
call. It uses nothing of the checker. **MCTypes** has the programs.

### Language server

**LspServer** has the handlers that change state, as the steps they take, and
tower-lsp's task that runs them: at most `Concurrency` at work, one polled at a
time, each until it is done or has to wait because its message to the client
finds another one in the channel.

| action | code (`izel_lsp/src/lib.rs`; tower-lsp is a library) |
|---|---|
| EditorOpens, EditorChanges, EditorCloses, EditorSaves | what the editor sends: `did_open`, `did_change`, `did_close` |
| DiskChanges, WatcherReports | other programs write; `did_change_watched_files` |
| FoldersChange | `did_change_workspace_folders` |
| TakeUp, Resume, Finish | tower-lsp: start a handler, poll one that can go on, end it |
| LogMessage, PublishDiagnostics | `client.log_message`, `validate_document` up to its send |
| upsert_document, remove_document | the map's two writes |
| ReadChangedFile | a changed file read and stored, then validated |
| WriteOut | the channel gives a message to the client and wakes a waiting handler |

A text is a number, each edit makes a new one. Front-end results are a function
of the text, so a publication carries its text.

### Package manager

**Packages** reads a command line as `parse_command` does, and has the line edits of
`izel add` and `izel remove`, the search for a binary's path, and the driver's own
manifest parser, which refuses a file with a line it cannot read. It runs processes in
one directory: each command is a sequence of calls on the disk and of child processes, one
action each. `fs::write` is an open that empties the file and a fill; two fills
that overlap can leave the end of the longer text; any call can fail and any
process can be killed, in the middle of a fill too. `IZEL_PM_DRY_RUN` makes child
processes succeed. `mine`, `alone`, `before` and `ready` are history the
properties speak of, no step of a command reads them.

### Compiler

**Mir** is the data of `izel_mir/src/lib.rs`: bodies, instructions, terminators.
Edges and terminators are separate fields as in the code, where `petgraph` holds
the first and the block the second.

**LivenessAnalysis** models `LivenessAnalysis::compute` with the equations of
**MirSemantics**. One action is one turn of the `for` loop (both equations of one block, in
place); `entries` stands for which blocks have an entry in the hash maps, because an absent
entry differs from the empty set and counts as a change. **ChaoticLiveness** is what a
liveness analysis promises in any order of evaluation; LivenessAnalysis is checked and
proved to implement it.

**MirSemantics** also defines liveness of a value, of a reference, and initialization
as reachability over program points. These use none of the analysis' sets, so the
borrow checker is judged against executions and not against itself.

**BorrowChecker** models `check`: `ComputeLiveness` (the steps of
LivenessAnalysis), `InferBorrowRegions`, then `check_all` as one action per
block entry, instruction and terminator, and `CheckNextForge`, which is
`collect_mir` handing the next forge to the same checker. `errors` keeps a tag
of the forge that pushed each error; the code has no such tag. A verdict holds both:
the messages the check has `added` and all that it has `returned`, which is the whole
list, as in the code.

**Hir**, **FrontEnd**: the HIR as records, and the way of a forge body from its
CST through `izel_ast_lower` to `izel_hir`, as pure operators.

**MirLower** models `MirLowerer`. The recursion of `lower_expr` is a stack of
tasks and the rvalues its calls return are a stack of values; every task pops
exactly what the code's local variables hold, so the order of blocks, locals,
instructions, edges and terminators is the code's.

| action | code (`izel_mir/src/lower.rs`) |
|---|---|
| StartForge, FinishForge | `lower_forge` before and after the body |
| Expand | the order in which a block, statement or expression lowers its parts |
| LowerLiteral, LowerIdent, MakeRvalue, RvalueToOperand | leaves and operators, `read_variable`, `rvalue_to_operand` |
| StoreVariable, DropValue | `lower_stmt` |
| PushCall, PushAssert | calls and contracts |
| PushTailCall, PushReturn | `Return` with and without the tail-call transformation |
| OpenGiven, EndArm | `Given` |
| OpenWhile, BranchOnTest, EndArm | `While` |
| EnterZone, ExitZone | `Zone` |

Operators keep their names from the tree to the machine where the code's two tables
have a case for them, and become what the tables' defaults say where not: `AstOperator`
makes nil, `MirBinOp` an addition, `MirUnOp` a negation.

**MirMachine** is what the code
emitted by `izel_codegen` does: one slot per local, targets of terminators, a
failing assertion and a missing terminator built as `unreachable`. Zone markers
compile to nothing; the machine keeps a stack of them only for the properties.

**Compiler** has the dead-code pass (`Dce::run`, one round per step) and composes all of it:
lower a source, perhaps run the pass (a library function; the driver does not call it), run
the result, compare with **SourceSemantics**, a reference evaluator of the concrete syntax.

## Runs

| run | bounds | shows |
|---|---|---|
| liveness | every graph over 3 blocks with at most two successors each, every block one of three instruction sequences over two locals | the analysis ends with exactly the live locals and implements chaotic iteration |
| borrow | five shapes (chain, branch, two loops, a chain numbered out of order) of 3 blocks filled from 10 instruction sequences; chains of 4 blocks with nested and repeated zones; all pairs of 10 forges | what is accepted is free of clashing references and moves of borrowed locals; exactness on straight-line code; what a check adds to the errors does not depend on what came before |
| loop_move | one body | a claim the checker does not meet |
| compiler | forges of up to three statements with control forms nested two deep; at most `MaxCalls` = 3 calls in an execution | compiled code does what the source means while its contracts hold, every target is an edge, zones nest, every run ends |
| else_arms | the programs of `compiler` with an `else` block | a claim the compiler does not meet |
| text | every form of the grammar, written correctly and with each word in turn missing, doubled or replaced by each of four strays; all texts of up to 4 characters over each of nine sets of 3 to 5 characters; correct programs formatted twice | tokens tile the text; trees keep the order and lose nothing but by recovery; operators group by rank; formatting keeps the characters, and is stable where it has kept the words apart; all three end |
| names | forges with blocks nested two deep, wards with shapes and forges in them, projects of four files that draw others in 72 ways; walked by the compiler, or as documents in 31 orders | every name gets the declaration the text gives it, every call of the walk leaves scope and directory as it found them, scopes stay in their file, ids stand for the names that have them, every document is walked once, definitions and renames follow, every walk ends |
| lsp_server | 2 documents, one of them in a workspace folder, 3 handlers at once, 3 events of the editor, the disk and the folders | texts and diagnostics end up current, everything is handled |
| watched_files | 1 document, 2 handlers, 3 events | a claim the server does not meet |
| types | seven families of programs: effects through calls, closures, loops and boundaries; effects where the checker does not look; pure calls beside others; overloads, generics and inference; contracts on constants; each form of expression under three declared types; items with mistakes, in pairs. `Bits` = 6, calls nest at most `Depth` = 6 deep | accepted effects and types are those of the runs, reports are about something, items leave no trace, bindings are acyclic |
| type_holes | closures with a block for a body, instantiated at two types | a claim the checker does not meet |
| packages | 2 processes, 3 commands or edits by hand, three projects (empty, a manifest with several tables, cargo's workspace with dry runs); a cut leaves nothing or one whole line | the user's sources survive, a project that was made can be built, an edit that ran alone does just what it should, every command ends |

Why the bounds are enough. Three blocks have every kind of edge (forward, back,
self, into the entry) and let a change need two rounds to travel; locals do not
interact in the data-flow equations. The shapes of the borrow run include an
order of execution that is not the order of numbers. Programs of the compiler run
nest every control form in every other, where blocks are left open or
terminators overwritten; values are bits, which tell operands, arms and calls
apart; every loop calls or returns. The parser looks at most a few tokens ahead
and its recovery goes token by token, so one wrong word in each place of each
form reaches the recovery of each of its loops. Two names are enough for
shadowing in scopes and four modules for diamonds. With three of the server's
places (tower-lsp's default is four) one handler can be waiting, another pass it
and a third have filled the channel, and a document can be opened, changed and
closed in three events. Two processes with one more command, or an edit by hand, make the
unfinished, the failed and the overlapping commands meet; what a cut leaves
matters by its first line and by whether a line is torn.

A run with `CHECK_DEADLOCK FALSE` is one whose system really stops: an analysis
that has answered, a text that is done, a program that is checked, a server with
nothing to do, a directory in which no more commands are typed. In the compiler
run an execution that is over stutters (`Over`), and anything else that stops is
a deadlock.

### Fairness

- Sequential programs (liveness, borrow, compiler, text, names, types): weak
  fairness of the next-state relation. The program keeps going while it can; no
  fairness chooses between alternatives.
- Language server: weak fairness of the server's task, of the client's writer
  and of the report of a watcher that has something to report. None for the
  editor.
- Packages: weak fairness of each process's work, which includes that child
  processes end. None for failures, kills or the user.

### What the properties leave out

Some things the code is known to get wrong are left out of a property's
hypothesis, so that it says something about the rest:

- `RunsAsWritten` is about `Orderly` programs. Left out are statements after a
  `give` (they run before it), control forms as operands or conditions (their
  value is always 0, and a condition that opens blocks loses its terminator),
  `loop` and block expressions (no HIR), `else` blocks (`ElseArmsRun`), self tail
  calls (the header never reads the rebound parameters), postconditions on
  returned calls (the call is made again), preconditions of calls (dropped by the HIR),
  and operators one of the two tables has no case for. Of an execution whose contract
  fails it asks only for the calls made before: how it has to end is the question of
  `ContractFailuresAreObservable`. These programs are still lowered and run: `TargetsAreEdges`
  covers them. `ZonesNest` leaves out returns from within a zone, which skip its
  exit.
- `StraightLineReadsExact` and `AcceptedZonesDoNotLeak` are about forges whose blocks
  follow one another in the order of their numbers: elsewhere the walk is not in the
  order of execution. Zones in the arms of a branch, whose exits the walk may pass over,
  are outside the second. The reads are those the checker looks at: a reference that a
  forge returns from its zone is accepted. The walk does not look at what is asserted
  either, so the first one assumes that an asserted operand is not moved, or is of a
  type that a move leaves alone (`SkippedMovesMatterNot`), which holds of conditions.
- `AcceptedZonesDoNotLeak` pairs every exit with an entry of the same zone in some way
  that nests (`Nestings`), as zones that are blocks of a source do.
- `Accepted` means that the check of a forge found nothing. The code's own answer is
  also an error when an earlier forge had one, since the list is never emptied:
  `AdditionsAreRepeatable` is about what a check adds to the list, and
  `ReportsAreAboutTheForge` about what is returned.
- `StableWhereWordsStay`: the formatter sets off only some keywords, so `zone a {`
  becomes `zonea {` and `c! or d` loses its blanks too (`izel_fmt/src/formatter.rs:194`).
  The property is about texts whose words are the same after the first pass.
- `EveryTextIsRead`: a token that begins no pattern, inside the list of a pattern
  (`izel_parser/src/lib.rs:374`), keeps the parser there for ever. The texts have
  no such mistake.
- `EveryWalkEnds`: files that draw each other in a circle load each other for
  ever (`izel_resolve/src/lib.rs:137`). The projects have no circle, and no file that
  draws itself or a name it declares as something else: the walk would wait for a lock it
  holds (`lib.rs:75`, `lib.rs:525`). `DocumentsAreWalkedOnce` is about open documents: a
  file on the disk that is reached by two paths is loaded for each.
- `AcceptedEffectsAreDeclared` is about programs with nothing `Overlooked`: the checker
  does not infer the condition of a `while` (`izel_typeck/src/lib.rs:2306`) nor the fields
  of a struct literal (`lib.rs:2265`), drops the effects of a parameter of function type
  (`lib.rs:1661`), and takes the call of a closure named like a forge for one of the
  forge (`lib.rs:2488`). The types run has all four in it; the other properties are
  checked of them.
- `EffectErrorsAreReal` is about forges that declare no effect or call nothing pure: a
  forge that declares effects is refused for a pure call (`lib.rs:1868`).
- `ContractReportsAreReal`: the constants go to 5. The least number divided by -1, which
  stops the compiler (`izel_parser/src/eval.rs:50`), is modelled and not reached.
- `AnalyzedIsCurrent` leaves out the documents in `late`: those last written by a
  `did_open` that waited for the client while newer messages went by, or by a
  file event that newer messages or an open editor should have overruled.
- `EditsDoTheirWork` is about edits that ran alone: of two at once, one is lost.
- The type checker has one type for all shapes, so that the programs of the types
  run have one shape each.

### Where the code disagrees

`findings` in PROJECT.json: a move in a loop is accepted (`loop_move`); an `else`
block replaces the `then` block (`else_arms`); a closure keeps a variable of its
scheme when it is instantiated, and a forge that returns an `i32` for a `str` is
accepted (`type_holes`); a file event replaces the unsaved text of an open
document (`watched_files`). Each has a run whose counterexample is a program or a
history of a few lines.

Seven more properties state what the documents or the messages promise and the code does
not keep. Their configurations are not among the runs of PROJECT.json;
`tlc -continue -config <file> <module>` finds each of them violated, in seconds:

| configuration, module | property | promised | what the code does |
|---|---|---|---|
| MCForgeReports.cfg, MCBorrowChecker | `ReportsAreAboutTheForge` | `izel_driver/src/main.rs:146`: "Borrow Check Error in '{}': {}" | `check` returns the whole of `self.errors` (`izel_borrow/src/lib.rs:36-40`): after a faulty forge every forge is reported with its errors |
| MCContracts.cfg, MCCompiler | `ContractFailuresAreObservable` | `docs/spec/07-contracts.md:17-18`: with instrumentation, "contract failures MUST be observable as explicit assertion-like failures"; `docs/tests_checklist.md:91` "(runtime panic)" | the failing branch is `unreachable` (`izel_codegen/src/lib.rs:600`), so the execution may go on |
| MCOperators.cfg, MCCompiler | `OperatorsKeepTheirMeaning` | `docs/project_overview.md:1573-1584`, the table of operators; `examples/temporal_constraints.iz:15` uses `and` in a contract | `and`, `or` become an addition (`izel_mir/src/lower.rs:220`), `~` a negation (`lower.rs:231`), `^` and others nil (`izel_ast_lower/src/lib.rs:1099`) |
| MCFormatTwice.cfg, MCSourceText | `FormattingTwiceChangesNothing` | `docs/tests_checklist.md:137`: "`izel fmt` run twice on the same file should change 0 bytes" | words run together are one word for the second pass (`izel_fmt/src/formatter.rs:194-218`) |
| MCSelfDraw.cfg, MCNames | `NoWalkWaitsForItself` | `docs/checklist.md:112`: "Detect cyclic imports and report as errors." | a document that draws itself locks its scope twice (`izel_resolve/src/lib.rs:75-82`, `:525`) |
| MCEffects.cfg, MCTypes | `EffectsPropagate` | `docs/spec/04-effects.md:10-14`: "Missing effect propagation is a type error.", line 23 "Implementations MUST reject effect-unsafe calls" | four ways around the checker, listed under `AcceptedEffectsAreDeclared` above |
| MCEffects.cfg, MCTypes | `OnlyMissingEffectsAreErrors` | `docs/spec/04-effects.md:11`, and line 5: "Pure functions are effect-free" | `pure` counts as an effect that the caller has not declared (`izel_typeck/src/lib.rs:1868`) |

## Proofs

Assumptions. `BodiesAssumption`: a body has blocks, its edges join them, what is
assigned, borrowed or read is declared, and operations are those of the MIR.
`ProgramsAssumption`: a program is a non-empty sequence of bodies.
`ZonesAssumption`: `Zones` holds the names of the zones entered (the code's map takes
any name). `ExprsAssumption`, `ForgesAssumption`: HIR trees are built from the HIR's
constructors. `CommandLinesAssumption`: a command line is a sequence of words.
`FilesAssumption`: a tree is made of nodes and tokens, and no two tokens of a file
have one position. `AnalysisAssumption`: the files walked and the documents opened are
files, and `Alphabetical` has the names of the documents' modules.
`ProjectsAssumption`: the files there are at first are sequences of lines, of which a
header has nothing but its section.
They say what a Rust value of the type is. `ConcurrencyAssumption` (at least one handler at
a time), `DocsAssumption` (finitely many documents, none of them the log) and
`EventsAssumption` and `CutsAssumption` (the bounds on events and on what a cut leaves are
numbers) are about the model's parameters.
`LettersAssumption` (hexadecimal digits are letters, the cursor's mark for the end, `'\0'`,
is none) is a fact about characters; `TablesAssumption` one about the lexer's tables of
punctuation and quotes, which TLC reads off them and the provers cannot (they do not know
the operators the tables are written with).
Nothing is assumed of the number of processes, commands, documents, blocks or locals, nor of
the alphabet or the length of a text.

**IterationTheorems**: induction, stated about sets because the provers cannot
instantiate an operator. A set of numbers that holds 0 and with every number the next
one is all of them; a function that repeats a step from a start exists; repeated as
often as its finite universe has elements, it reaches the least set that holds the
start and is closed under the step. Recursive functions of the models (`PathLive`,
`Keeping`) are such iterations, which is how their values become provable. A function that
jumps from each argument to one of lower rank, until it stops, exists and takes the values
of the stops: the same for the lexer's loops and for a lookup through the scopes.

**Lexer_proofs**, for every text over every alphabet, one text after the other:

- `EveryTextIsTiled`: `TokensTile`. The invariant `LexInv` adds that the cursor is on the
  text or right behind it. Each loop is shown to stop between where it began and the end
  (`EatWhileStops`, `EscapeStops`, `StringStops`, `RawStringStops`, `CommentStops`,
  `CharStops`); those that jump are functions by the distance to the end. A token of one
  or two characters needs that nothing in the tables is taken for the mark of the end.

**LivenessAnalysis_proofs**, for every set of bodies of any size:

- `TypeCorrect`: `TypeOK` is inductive.
- `QuietRound`, `AnswerCorrect`: the invariant `IInv` adds to
  `QuietRoundIsBalanced` that a cleared flag outside a round means the round
  passed every block. Without it, "no change" at the loop test says nothing. The
  key step is `QuietVisit`: if the flag stays down, the visit wrote what was
  there already, so no block passed earlier is unbalanced.
- `Growth`: `Grounded` (every set lies below what its equation yields now) is
  inductive, and makes each in-place update an addition.
- `NothingSuperfluous`: the sets lie below every solution; with `AnswerCorrect`,
  the answer is the least solution.
- `Exactness`: `AnswerExact`. The blocks from which a path reads a local before writing
  it are the least set closed under "a predecessor that does not write it". As sets of
  locals they solve the equations (`PathsSolve`), so the answer lies below them; and
  every solution holds them (`SolutionsHoldPaths`), the answer too.
- `Refinement`: `RefinesChaotic`. By the lemma `StepIsChaotic` a visit is a `Reevaluate`,
  which promises growth (`Grounded`), `Finish` is an `Answer` because of `IInv`, and the
  rest stutters.

**BorrowChecker_proofs**, for every set of bodies, every graph and every program:

- `ReferencesExclusive`, `MovesUnborrowed`. `RegionCovers` relates paths to block sets:
  where a reference is live on some path of points, its block is in the region, for
  what the path reads is a use of its block or live on its exit. The invariant `IInv`
  says that the analysis is one of LivenessAnalysis, that the borrows are what it
  makes of the body, and that the errors owed to every block entered and every point
  passed have been pushed. An accepted body owes none.
- `AdditionsRepeat`: `AdditionsAreRepeatable`. The walk is written down once more as a
  function of the body alone (`StepOf`); the invariant says that what the checker holds, its
  own errors without those of earlier forges included, is where such a walk stands. It needs
  `Exactness`: the analysis' sets are the body's, not those of some order of visits.
- `StraightReads`. On a straight line every point has one predecessor, so
  `MayBeUninit`, defined by reachability over all paths, turns into a step from one
  point to the next (`UninitOnLine`), and the invariant `WalkedExactly` says that the
  walk's `initialized` is its complement and the errors are those of the points passed.
- `ZonesDoNotLeak`. The stack of zones is the one of the entries open in the nesting
  (`Nested`), what is written is tagged with the innermost (`TaggedOK`), and at each
  exit passed without an error no borrow of what was tagged reaches it. A first form of
  the property, in which a zone's exit was the next of its name, was false for bodies
  longer than the run's: a zone entered again, or one of the same name inside it.

**MirLower_proofs**, for every set of HIR forges of any depth:

- `BlocksExist`: the invariant says that the body is a graph whose terminators'
  targets are edges, that the current block and the header exist, and that every
  pending task names blocks that exist and expressions of the program. The last
  part is what makes it inductive: `EndArm` and `BranchOnTest` act on block
  numbers chosen long before.
- `LoweringMakesEdges`: `TargetsAreEdges` in every state of the lowering.

**LspServer_proofs**, for any number of documents, folders, places and events:

- `TurnsAreTaken`: a handler at work is polled, ready or waiting, one of these and
  once, and every number in a queue is that of a handler at work. Everything
  else rests on it: it says which handler a step belongs to.
- `ShownInTheEnd`: `ShownIsAnalyzed`. The invariant `PublishedInTurn` adds that
  only the handler being polled is about to publish, and what it publishes is
  what the map has; and that what the map has of a document is published last
  in the channel, shown already, or about to be published. It is the statement
  that storing a text and enqueuing its diagnostics are one step of the task,
  whatever the handlers waited for before.
- `AnalyzedInTheEnd`: `AnalyzedIsCurrent`. The invariant `InOrder` says that handlers
  begin in the order of their messages and that the last one about a document, among
  those that have not stored yet, has the editor's text; `Current` that the map has
  that text, or a handler is still to store one, or the document is in `late`. For a
  document no editor has it says the same of the file's text.

**Resolver_proofs**, for any files of any shape and size, drawing each other in any way
(in a circle too), in the compiler and in the server with documents in any order:

- `SoughtInPlace`: `NamesAreSoughtInPlace`. The invariant `Consistent` is about the whole
  stack of tasks: where one task leaves the walk (`After`), the next is meant to be done
  (`Follows`), and the walk is where the first one is (`AtHead`). That a load ends in
  front of the draw that asked for it, that the end of a block has a scope with a
  parent, and that documents come last is part of it: with less, `EndLoad` and
  `PopScope` could lead anywhere.
  `Scoped` adds that a scope is of the file of the one around it and younger, which is
  also why a lookup ends (`ResolveFinds`).
- `UsesBear`: `UsesBearTheName`. `Bears` says of each table of symbols that the id under a
  name was given for that name, and `Marked` of `defIds` what the property says. Merging
  keeps it because it copies what a table has under the name it has it (`Merges`), an id
  because the next one is of no declaration before it; the positions of tokens are
  the other half (`SpelledRight`).

**Packages_proofs**, for any processes typing any command lines:

- `OwnFilesAreSpared`: `OwnFilesSurvive`. The invariant `Spared` looks at what each
  process still has to do: no open or fill among its remaining steps is for a
  source that is the user's. `exists()` and the write after it are two calls, so it
  needs that the user writes by hand only while no command runs, as the model
  has it: a file written in between would be emptied.
- `NewIsBuilt`: `NewCanBeBuilt`. No file is ever removed, so the invariant `Buildable`
  speaks of the paths there are: a command that makes a project has, for each of its two
  files, the file itself or a step that makes it (`Leads`), and a build begun in a project
  still has a source in view.
- `EditsAreDone`: `EditsDoTheirWork`, for manifests of any length, any packages and versions,
  whatever other processes did before. The invariant `Apart` says that beside a process that
  has run alone no other runs, and that its edit is to read the manifest, or is to empty the
  one it read, or is to fill the empty one with what it made of the lines it read
  (`Stage`); so the end of an edit is `Edited` of the lines that were there, which
  `Spared` knows to be a text. What `Edited` is to be is a fact about sequences alone
  (`EditedAsAsked`). `Carries` says of an edit which lines it carries over, to which
  places, in order, only entries being left behind, and that a fresh header comes
  after all that is carried: then each line is under the header it was under
  (`HeadersCarried`), the comments are the same (`CommentsCarried`, by counting
  those up to a place), and the file is a table file if it was one (`TomlCarried`).
  `RemoveCarries` shows this of the filtering loop, and `Upserts` of the three ways to
  put an entry in: over the old one, before the next header, in a section of its own at
  the end.

### Only model-checked

Liveness: `Terminates`, `EveryRunEnds`, `EveryTextIsRead`, `EveryWalkEnds`,
`EverythingIsHandled`, `EveryCommandEnds` (the provers have no rule for fairness). And
everything in modules that reach recursive operators over trees, which the provers cannot
take: FrontEnd, SourceSemantics, Compiler, Parser, SourceText, NameSources, NameMeaning, Types,
Declarations, TypeChecker, TypeMeaning. Of the compiler's properties `TargetsAreEdges` is
proved of the lowering alone. That names mean what the text says
(`NamesMeanWhatTheTextSays`, and `RenameKeepsMeaning` and `DefinitionIsTheDeclaration`,
which rest on it) is checked, not proved: their reference is recursive over the text.

## Limits of the models

- `MirLowerer` emits no `Ref` and moves only temporaries, so bodies with
  references and moves of named locals are the borrow checker's own input
  domain, the one its unit tests build by hand; the claims the documents make
  are about it.
- A region follows the local that holds the reference. Copies of a reference
  into another local are not tracked by the code and not generated here.
- Locals of the MIR carry a class of type; the operators are addition, multiplication,
  `and`, `not`, negation and `~`, with any other standing for those the AST lowering does
  not list; zones have names from a small set, messages are dropped.
- `Phi` instructions and the `Abort` terminator exist in the MIR's types; the
  lowering never produces them and they are left out.
- Integers of the constant evaluator have `Bits` bits in place of 128, and wrap
  where the code's do.
- The command line's words and the manifest's lines are symbols: a line is a
  header, an entry, a comment or blank, for all readers alike. How a line is split into
  those, and comments at the end of a line, which the readers tell apart differently,
  are not modelled.
- Documents of the server are replaced as wholes, as the server asks of the editor.

## Not modelled

- Lowering to the AST beyond the bodies of forges (items, types, patterns, macros,
  derives, duals, pipelines): tree to tree, without state.
- Code generation beyond what the code of a body does: LLVM values and types,
  monomorphization, IO intrinsics, linking.
- The server's requests that only read: hover, completion, semantic tokens,
  folding, formatting.
- Parts of the type checker: anonymous shapes, effect parameters, lifetimes of
  pointers, bounds of generics, floats in contracts, what is recorded for later
  phases.
- The pass manager (nine passes that do nothing), the query map (nothing calls
  it), session and spans, diagnostics, lint, doc generator, proc macros, runtime
  support, standard library, self-hosting prototype, tools. PROJECT.json,
  `components`, has the reason for each.
