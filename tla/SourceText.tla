----------------------------- MODULE SourceText -----------------------------
(***************************************************************************)
(* From a text to its tree and back, as format_source does: the tokens of  *)
(* a text are read until the end, parsed, and the tree is written out.  The *)
(* result may be formatted again, as a file is on every save.              *)
(*                                                                         *)
(* The formatter (izel_fmt) is a walk over the tree that writes out every  *)
(* token and the white space its kind and its place call for.  What is left *)
(* to write is a list; its first entry is a subtree, a piece of text or a  *)
(* request for white space.  Indentation is one space per level.           *)
(***************************************************************************)
EXTENDS Parser

VARIABLES
  todo,        \* what is left to write
  output,      \* the characters written
  level,       \* indent_level
  needsIndent  \* the next text begins a line

fmtVars == <<todo, output, level, needsIndent>>

Ask(what)  == <<[do |-> what]>>
Text(s)    == <<[do |-> "text", text |-> s]>>
Subtree(e) == <<[do |-> "element", element |-> e]>>

SpacedOperators ==
  {"Plus", "Minus", "Star", "Slash", "Equal", "EqEq", "NotEq", "Lt", "Gt", "Le", "Ge",
   "Arrow", "FatArrow"}

SpacedKeywords ==
  {"Shape", "Forge", "Scroll", "Weave", "Ward", "Impl", "Dual", "Alias", "Let", "Open",
   "Hidden", "Given", "Else", "Loop", "While", "Each", "In", "Branch", "Break", "Next",
   "Give", "Pure"}

\* Only the listed keywords and operators are set off by spaces; two other
\* words that follow each other are written without anything between them.
format_token(i) ==
  LET k == Kind(i)
  IN IF k = "Eof" THEN <<>>
     ELSE (IF k \in SpacedOperators THEN Ask("space") ELSE <<>>)
          \o Text(TextOf(text, tokens[i]))
          \o (IF k \in SpacedOperators \cup SpacedKeywords \cup {"Comma", "Colon"}
              THEN Ask("space") ELSE <<>>)

\* Mutant: comments are left out with the white space.
format_words_only(e) ==
  IF e.kind /= "token" THEN Subtree(e)
  ELSE IF Kind(e.at) \in TriviaKinds THEN <<>> ELSE format_token(e.at)

\* Mutant: the white space of the source is written too.
format_with_spacing(e) ==
  IF e.kind /= "token" THEN Subtree(e)
  ELSE CASE Kind(e.at) = "Whitespace" -> Text(TextOf(text, tokens[e.at]))
         [] Kind(e.at) = "Comment" -> Text(TextOf(text, tokens[e.at])) \o Ask("newline")
         [] OTHER -> format_token(e.at)

format_element(e) ==
  IF e.kind /= "token" THEN Subtree(e)
  ELSE CASE Kind(e.at) = "Whitespace" -> <<>>
         [] Kind(e.at) = "Comment" -> Text(TextOf(text, tokens[e.at])) \o Ask("newline")
         [] OTHER -> format_token(e.at)

LaidOutNodes == {"Block", "ShapeDecl", "ScrollDecl", "WeaveDecl", "ImplBlock"}
OwnLineNodes == {"LetStmt", "ExprStmt", "GivenExpr", "WhileExpr", "LoopExpr"}

\* A child of a block or of the body of a declaration.
InBody(node, child) ==
  LET k == IF child.kind = "token" THEN Kind(child.at) ELSE "node"
  IN CASE k = "OpenBrace" ->
            Ask("space") \o format_token(child.at) \o Ask("indent") \o Ask("newline")
       [] k = "CloseBrace" -> Ask("dedent") \o Ask("newline") \o format_token(child.at)
       [] k \in {"Comma", "Semicolon"} -> format_token(child.at) \o Ask("newline")
       [] OTHER ->
            format_element(child)
              \o (IF node.kind = "Block" /\ child.kind \in OwnLineNodes THEN Ask("newline") ELSE <<>>)

format_node(node) ==
  FlattenSeq([i \in DOMAIN node.kids |->
    LET child == node.kids[i]
    IN CASE node.kind = "SourceFile" ->
              format_element(child)
                \o (IF child.kind /= "token" /\ i < Len(node.kids) THEN Ask("blank line") ELSE <<>>)
         [] node.kind \in LaidOutNodes -> InBody(node, child)
         [] OTHER -> format_element(child)])

-----------------------------------------------------------------------------
(* One step per entry of the list. *)

Doable(what) == todo /= <<>> /\ Head(todo).do = what
Indented     == IF needsIndent THEN [i \in 1 .. level |-> " "] ELSE <<>>

EndsWith(c) == output /= <<>> /\ Last(output) = c
IsBlank(s)  == \A i \in DOMAIN s : s[i] \in WhiteSpace

FormatNode ==
  /\ Doable("element")
  /\ todo' = format_node(Head(todo).element) \o Tail(todo)
  /\ UNCHANGED <<output, level, needsIndent>>

push_str ==
  /\ Doable("text")
  /\ LET s == Head(todo).text
     IN /\ output' = IF IsBlank(s) THEN output \o s ELSE output \o Indented \o s
        /\ needsIndent' = \/ needsIndent /\ IsBlank(s)
                          \/ s /= <<>> /\ Last(s) = "\n"
  /\ todo' = Tail(todo)
  /\ UNCHANGED level

push_space ==
  /\ Doable("space")
  /\ output' = IF EndsWith(" ") \/ EndsWith("\n") THEN output ELSE Append(output, " ")
  /\ todo' = Tail(todo)
  /\ UNCHANGED <<level, needsIndent>>

\* A line ends, or it is followed by an empty one, unless that is so already.
push_newline ==
  /\ Doable("newline") \/ Doable("blank line")
  /\ LET line  == IF EndsWith("\n") THEN output ELSE Append(output, "\n")
         blank == Len(output) >= 2 /\ EndsWith("\n") /\ output[Len(output) - 1] = "\n"
     IN /\ output' = IF Doable("newline") THEN line
                     ELSE IF blank THEN output ELSE Append(line, "\n")
        /\ needsIndent' = (needsIndent \/ output' /= output)
  /\ todo' = Tail(todo)
  /\ UNCHANGED level

ChangeIndent ==
  /\ \/ Doable("indent") /\ level' = level + 1
     \/ Doable("dedent") /\ level' = IF level > 0 THEN level - 1 ELSE 0
  /\ todo' = Tail(todo)
  /\ UNCHANGED <<output, needsIndent>>

FormatStep == FormatNode \/ push_str \/ push_space \/ push_newline \/ ChangeIndent

FormatterIdle == todo = <<>> /\ output = <<>> /\ level = 0 /\ needsIndent = TRUE

\* Formatter::new and the first call of format_node.
StartFormatting ==
  todo' = Subtree(tree) /\ output' = <<>> /\ level' = 0 /\ needsIndent' = TRUE

\* finish: one newline at the end.
TrimEnd(s) ==
  LET kept == CHOOSE n \in 0 .. Len(s) :
                /\ IF n = 0 THEN TRUE ELSE s[n] \notin WhiteSpace
                /\ \A i \in n + 1 .. Len(s) : s[i] \in WhiteSpace
  IN SubSeq(s, 1, kept)

finish == Append(TrimEnd(output), "\n")

-----------------------------------------------------------------------------
(* The tools, one after the other *)

CONSTANTS
  Texts,      \* the sources a run begins with
  Rereads(_)  \* whether the formatted form of a text is formatted again

VARIABLES
  stage,   \* "lexing", "parsing", "formatting" or "done"
  earlier  \* the words of the text formatted before this one, once there is one

vars == <<lexVars, parseVars, fmtVars, stage, earlier>>

Init ==
  /\ \E t \in Texts : StartLexing(t)
  /\ ParserIdle /\ FormatterIdle
  /\ stage = "lexing"
  /\ earlier = <<>>

\* The callers ask for tokens until they are given the end.
Lex ==
  /\ stage = "lexing" /\ NextToken
  /\ UNCHANGED <<parseVars, fmtVars, stage, earlier>>

BeginParse ==
  /\ stage = "lexing" /\ AtEnd
  /\ StartParsing
  /\ stage' = "parsing"
  /\ UNCHANGED <<lexVars, fmtVars, earlier>>

Parse ==
  /\ stage = "parsing" /\ ParserStep
  /\ UNCHANGED <<lexVars, fmtVars, stage, earlier>>

BeginFormat ==
  /\ stage = "parsing" /\ Parsed
  /\ StartFormatting
  /\ stage' = "formatting"
  /\ UNCHANGED <<lexVars, parseVars, earlier>>

Format ==
  /\ stage = "formatting" /\ FormatStep
  /\ UNCHANGED <<lexVars, parseVars, stage, earlier>>

EndFormat ==
  /\ stage = "formatting" /\ todo = <<>>
  /\ stage' = "done"
  /\ UNCHANGED <<lexVars, parseVars, fmtVars, earlier>>

\* The significant tokens, as kinds with their characters.
Words ==
  LET significant == SelectSeq(tokens, LAMBDA x : x.kind \notin TriviaKinds \cup {"Eof"})
  IN [i \in DOMAIN significant |-> <<significant[i].kind, TextOf(text, significant[i])>>]

FormatAgain ==
  /\ stage = "done" /\ earlier = <<>> /\ Rereads(text)
  /\ earlier' = <<Words>>
  /\ text' = finish /\ at' = 1 /\ tokens' = <<>>
  /\ pos' = 1 /\ lost' = {} /\ tree' = NoTree
  /\ todo' = <<>> /\ output' = <<>> /\ level' = 0 /\ needsIndent' = TRUE
  /\ stage' = "lexing"
  /\ UNCHANGED <<depth, frames>>

Next == Lex \/ BeginParse \/ Parse \/ BeginFormat \/ Format \/ EndFormat \/ FormatAgain

\* The three are sequential code that nothing stops.
Spec == Init /\ [][Next]_vars /\ WF_vars(Next)

-----------------------------------------------------------------------------
(* Properties *)

Done == stage = "done"

\* The tree has just been finished.
Fresh == stage = "parsing" /\ Parsed

\* A parsed tree holds the tokens in the order of the source, none of them
\* twice: the node of an operand moves into the node of the operator that
\* follows it, and the children collected by one function into the node of another.
TreeKeepsOrder ==
  Fresh => LET leaves == Leaves IN \A i \in 1 .. Len(leaves) - 1 : leaves[i] < leaves[i + 1]

\* Every token is in the tree, or it is white space or a comment, or a loop that
\* made no progress threw it away, or it is an attribute or a modifier before a
\* block statement.  The parser consumes everything up to the end.
LostOnlyByRecovery ==
  Fresh =>
    /\ Kind(pos) = "Eof"
    /\ LET kept    == Range(Leaves)
           excused == {l.at : l \in {x \in lost : x.why \in {"recovery", "dropped"}}}
       IN \A i \in DOMAIN tokens :
            i \in kept \cup excused \/ Kind(i) \in TriviaKinds \cup {"Eof"}

OperatorOf(n) ==
  Precedence(Kind(SelectSeq(n.kids, LAMBDA kid : kid.kind = "token" /\ Kind(kid.at) \notin TriviaKinds)[1].at))

\* Operators group by rank, and to the left within a rank: an operand on the
\* left of a binary operator ranks at least as high, one on the right higher.
\* Depth of nesting, conditions and prefixes must not change that.
OperatorsGroupByRank ==
  Fresh =>
    \A n \in NodesOf(tree) :
      n.kind = "BinaryExpr" =>
        LET left  == n.kids[1]
            right == Last(n.kids)
        IN /\ left.kind = "BinaryExpr" => OperatorOf(left) >= OperatorOf(n)
           /\ right.kind = "BinaryExpr" => OperatorOf(right) > OperatorOf(n)

\* Lexing, parsing and formatting come to an end on every text, however many mistakes the
\* parser has to get past.  Not so for mistakes in the lists of a pattern, which nothing moves
\* on: Texts has none of them.
EveryTextIsRead == <>[]Done

NoSpace(s) == SelectSeq(s, LAMBDA c : c \notin WhiteSpace)

\* The formatter writes the characters of the tree's tokens in their order,
\* every one of them once: what it adds or leaves out is white space.
FormattingKeepsCharacters ==
  Done => NoSpace(finish)
            = NoSpace(FlattenSeq([i \in DOMAIN Leaves |-> TextOf(text, tokens[Leaves[i]])]))

\* What unsettles formatting is words run together: where the first pass has left every
\* word of the text a word of its own, the second changes nothing.
StableWhereWordsStay == (Done /\ earlier = <<Words>>) => finish = text

\* Formatting what has been formatted changes nothing (izel fmt run twice on a file).  Not
\* so of this formatter: it writes no space between some words, and the second pass reads
\* one word where the first read two.
FormattingTwiceChangesNothing == (Done /\ earlier # <<>>) => finish = text

=============================================================================
