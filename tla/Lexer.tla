------------------------------- MODULE Lexer --------------------------------
(***************************************************************************)
(* The lexer of izel_lexer: a cursor over a text, one token per call of    *)
(* next_token.  Every action is one call; which one is decided by the      *)
(* character under the cursor.  A token is its kind and its half-open range *)
(* of positions; the first position is 1.                                  *)
(*                                                                         *)
(* First the kinds of tokens, and the classes of kinds the parser and the  *)
(* formatter ask for.  A character of a source text is a one-character     *)
(* string or, for letters, a whole word: words are never split, so a keyword *)
(* is one "character" and an identifier glued from two words is two of them. *)
(* The kinds of literals lose the flags that tell their base and whether   *)
(* they are terminated, which no later stage reads.                        *)
(***************************************************************************)
EXTENDS Naturals, Sequences, FiniteSets, TLC, FiniteSetsExt, SequencesExt

EOF_CHAR == "NUL"

Keyword ==
  "forge" :> "Forge" @@ "shape" :> "Shape" @@ "scroll" :> "Scroll" @@ "weave" :> "Weave"
  @@ "ward" :> "Ward" @@ "macro" :> "Macro" @@ "echo" :> "Echo" @@ "branch" :> "Branch"
  @@ "given" :> "Given" @@ "else" :> "Else" @@ "loop" :> "Loop" @@ "each" :> "Each"
  @@ "while" :> "While" @@ "break" :> "Break" @@ "next" :> "Next" @@ "give" :> "Give"
  @@ "let" :> "Let" @@ "raw" :> "Raw" @@ "bridge" :> "Bridge" @@ "flow" :> "Flow"
  @@ "tide" :> "Tide" @@ "zone" :> "Zone" @@ "dual" :> "Dual" @@ "seek" :> "Seek"
  @@ "catch" :> "Catch" @@ "draw" :> "Draw" @@ "open" :> "Open" @@ "hidden" :> "Hidden"
  @@ "pkg" :> "Pkg" @@ "pure" :> "Pure" @@ "sole" :> "Sole" @@ "self" :> "SelfKw"
  @@ "Self" :> "SelfType" @@ "true" :> "True" @@ "false" :> "False" @@ "nil" :> "Nil"
  @@ "as" :> "As" @@ "in" :> "In" @@ "of" :> "Of" @@ "is" :> "Is" @@ "not" :> "Not"
  @@ "and" :> "And" @@ "or" :> "Or" @@ "comptime" :> "Comptime" @@ "static" :> "Static"
  @@ "extern" :> "Extern" @@ "type" :> "Type" @@ "alias" :> "Alias" @@ "impl" :> "Impl"
  @@ "for" :> "For" @@ "bind" :> "Bind"

\* Punctuation of one character, and the longer ones by their first two.
Single ==
  "~" :> "Tilde" @@ "!" :> "Bang" @@ "@" :> "At" @@ "|" :> "Bar" @@ ":" :> "Colon"
  @@ "-" :> "Minus" @@ "=" :> "Equal" @@ "." :> "Dot" @@ "?" :> "Question" @@ "#" :> "Pound"
  @@ "+" :> "Plus" @@ "*" :> "Star" @@ "/" :> "Slash" @@ "%" :> "Percent" @@ "^" :> "Caret"
  @@ "&" :> "Ampersand" @@ "<" :> "Lt" @@ ">" :> "Gt" @@ "(" :> "OpenParen"
  @@ ")" :> "CloseParen" @@ "{" :> "OpenBrace" @@ "}" :> "CloseBrace" @@ "[" :> "OpenBracket"
  @@ "]" :> "CloseBracket" @@ "," :> "Comma" @@ ";" :> "Semicolon"

Double ==
  <<"!", "=">> :> "NotEq" @@ <<"|", ">">> :> "Pipe" @@ <<":", ":">> :> "DoubleColon"
  @@ <<"-", ">">> :> "Arrow" @@ <<"=", ">">> :> "FatArrow" @@ <<"=", "=">> :> "EqEq"
  @@ <<".", ".">> :> "DotDot" @@ <<"?", "?">> :> "QuestionQuestion"
  @@ <<"&", "~">> :> "AmpersandTilde" @@ <<"<", "=">> :> "Le" @@ <<">", "=">> :> "Ge"

\* TLA+ cannot write a backquote in a string: it stands as a word.
BACKQUOTE == "BQ"
Quotes == "\"" :> "Str" @@ "'" :> "Char" @@ BACKQUOTE :> "InterpolatedStr"

LiteralKinds == {"Int", "Float", "Str", "InterpolatedStr", "ByteStr", "Char", "Byte"}

Kinds ==
  {Keyword[w] : w \in DOMAIN Keyword} \cup {Single[c] : c \in DOMAIN Single}
    \cup {Double[p] : p \in DOMAIN Double} \cup LiteralKinds
    \cup {"DotDotEq", "Ident", "Whitespace", "Comment", "Unknown", "Eof"}

TriviaKinds == {"Whitespace", "Comment"}

\* The keywords that may also name something.
NamingIdents ==
  {"Ident", "Next", "Loop", "Each", "While", "Break", "Give", "Type", "Forge", "Sole", "Pure",
   "Open", "Hidden", "Draw", "Seek", "Catch", "Flow", "Tide", "Zone", "Bridge", "Raw", "Echo",
   "Ward", "Scroll", "Dual", "Alias", "Pkg", "Comptime", "Static", "Extern", "Bind"}

\* Binding strength of what may follow an operand; 0 ends the expression.
PrecNone == 0
PrecComparison == 6
PrecUnary == 13
PrecCall == 16

Precedence(kind) ==
  CASE kind = "Pipe" -> 1
    [] kind = "QuestionQuestion" -> 2
    [] kind = "Or" -> 3
    [] kind = "And" -> 4
    [] kind \in {"EqEq", "NotEq", "Is"} -> 5
    [] kind \in {"Lt", "Gt", "Le", "Ge"} -> PrecComparison
    [] kind = "Caret" -> 8
    [] kind = "Ampersand" -> 9
    [] kind \in {"Plus", "Minus"} -> 11
    [] kind \in {"Star", "Slash", "Percent"} -> 12
    [] kind = "As" -> 14
    [] kind \in {"Bang", "Dot", "OpenParen", "OpenBracket", "DoubleColon", "OpenBrace",
                 "Question"} -> PrecCall
    [] OTHER -> PrecNone

-----------------------------------------------------------------------------
(* The lexer *)

CONSTANTS
  Letters,   \* words, each counting as one alphabetic character
  HexLetters \* those of them that are hexadecimal digits

\* The cursor's mark for the end is no letter.
ASSUME LettersAssumption == HexLetters \subseteq Letters /\ EOF_CHAR \notin Letters

\* No punctuation of two characters ends in it, and it quotes nothing, as a backslash does not.
ASSUME TablesAssumption ==
  /\ \A pair \in DOMAIN Double : pair[2] /= EOF_CHAR
  /\ {"\\", EOF_CHAR} \cap DOMAIN Quotes = {}

Digits     == {"0", "1", "2"}
WhiteSpace == {" ", "\n"}

VARIABLES
  text,   \* the source
  at,     \* the cursor
  tokens  \* what the calls so far returned

lexVars == <<text, at, tokens>>

-----------------------------------------------------------------------------
(* The cursor. *)

IsEof(i) == i > Len(text)
CharAt(i) == IF IsEof(i) THEN EOF_CHAR ELSE text[i]

\* Where eating the characters of a class from i on stops: the end, or the first one outside it.
EatWhile(i, class) ==
  CHOOSE j \in i .. Len(text) + 1 :
    /\ IsEof(j) \/ text[j] \notin class
    /\ \A k \in i .. j - 1 : text[k] \in class

IdentStart    == Letters \cup {"_"}
IdentContinue == IdentStart \cup Digits
HexDigits     == Digits \cup HexLetters

-----------------------------------------------------------------------------
(* The parts of a token that need a loop of their own. *)

\* The position after an escape whose backslash is at i - 1.
EatEscape(i) ==
  CASE CharAt(i) = "u" /\ CharAt(i + 1) = "{" ->
         LET close == EatWhile(i + 2, HexDigits \cup {"_"})
         IN IF CharAt(close) = "}" THEN close + 1 ELSE close
    [] CharAt(i) = "x" /\ CharAt(i + 1) \in HexDigits ->
         IF CharAt(i + 2) \in HexDigits THEN i + 3 ELSE i + 2
    [] OTHER -> IF IsEof(i) THEN i ELSE i + 1

\* The position after a string opened before i.
StringEnd(i, quote) ==
  LET end[j \in i .. Len(text) + 1] ==
        CASE IsEof(j)          -> j
          [] CharAt(j) = quote -> j + 1
          [] CharAt(j) = "\\"  -> end[EatEscape(j + 1)]
          [] OTHER             -> end[j + 1]
  IN end[i]

\* The position after a character literal opened before i: at most one character or escape.
CharEnd(i) ==
  LET after == CASE IsEof(i)         -> i
                 [] CharAt(i) = "\\" -> EatEscape(i + 1)
                 [] OTHER            -> i + 1
  IN IF ~IsEof(i) /\ CharAt(after) = "'" THEN after + 1 ELSE after

\* The position after a raw string whose opening hashes begin at i.
RawStringEnd(i) ==
  LET open   == EatWhile(i, {"#"})
      hashes == open - i
      end[j \in open + 1 .. Len(text) + 1] ==
        IF IsEof(j) THEN j
        ELSE LET run     == EatWhile(j + 1, {"#"}) - (j + 1)
                 closing == Min({run, hashes})
             IN IF text[j] /= "\"" THEN end[j + 1]
                ELSE IF closing = hashes THEN j + 1 + hashes
                ELSE end[j + 1 + closing]
  IN IF CharAt(open) = "\"" THEN [kind |-> "Str", hi |-> end[open + 1]]
     ELSE [kind |-> "Unknown", hi |-> open]

\* The position after a block comment opened before i; comments nest.
CommentEnd(i) ==
  LET end[p \in (i .. Len(text) + 1) \X Nat] ==
        LET j == p[1]  depth == p[2]
        IN IF depth = 0 \/ IsEof(j) THEN j
           ELSE CASE text[j] = "/" /\ CharAt(j + 1) = "~" -> end[<<j + 2, depth + 1>>]
                  [] text[j] = "~" /\ CharAt(j + 1) = "/" -> end[<<j + 2, depth - 1>>]
                  [] OTHER -> end[<<j + 1, depth>>]
  IN end[<<i, 1>>]

-----------------------------------------------------------------------------
(* next_token, by the first character. *)

\* Mutant: white space is passed over instead of being a token.
EmitSignificant(kind, hi) ==
  /\ tokens' = IF kind = "Whitespace" THEN tokens
               ELSE Append(tokens, [kind |-> kind, lo |-> at, hi |-> hi])
  /\ at' = hi
  /\ UNCHANGED text

Emit(kind, hi) ==
  /\ tokens' = Append(tokens, [kind |-> kind, lo |-> at, hi |-> hi])
  /\ at' = hi
  /\ UNCHANGED text

c1 == CharAt(at)
c2 == CharAt(at + 1)

AtEnd   == tokens /= <<>> /\ Last(tokens).kind = "Eof"
Reading == ~AtEnd

LexEof == Reading /\ IsEof(at) /\ Emit("Eof", at)

LexWhitespace ==
  /\ ~IsEof(at) /\ c1 \in WhiteSpace
  /\ Emit("Whitespace", EatWhile(at + 1, WhiteSpace))

\* A line comment also ends at a character that is the cursor's mark for the end.
LexLineComment ==
  /\ ~IsEof(at) /\ c1 = "/" /\ c2 = "/"
  /\ Emit("Comment", EatWhile(at + 2, STRING \ {"\n", EOF_CHAR}))

LexBlockComment ==
  /\ ~IsEof(at) /\ c1 = "/" /\ c2 = "~"
  /\ Emit("Comment", CommentEnd(at + 2))

LexPunctuation ==
  /\ ~IsEof(at) /\ c1 \in DOMAIN Single /\ ~(c1 = "/" /\ c2 \in {"/", "~"})
  /\ CASE <<c1, c2>> = <<".", ".">> /\ CharAt(at + 2) = "=" -> Emit("DotDotEq", at + 3)
       [] <<c1, c2>> \in DOMAIN Double
            /\ ~(<<c1, c2>> = <<".", ".">> /\ CharAt(at + 2) = "=") ->
              Emit(Double[<<c1, c2>>], at + 2)
       [] OTHER -> Emit(Single[c1], at + 1)

\* An identifier or a keyword, or a literal that a prefix of one letter announces.
LexIdentOrKeyword ==
  /\ ~IsEof(at) /\ c1 \in IdentStart
  /\ LET end  == EatWhile(at + 1, IdentContinue)
         word == SubSeq(text, at, end - 1)
     IN CASE word = <<"r">> /\ CharAt(end) \in {"\"", "#"} ->
               LET raw == RawStringEnd(end) IN Emit(raw.kind, raw.hi)
          [] word = <<"b">> /\ CharAt(end) = "\"" -> Emit("ByteStr", StringEnd(end + 1, "\""))
          [] word = <<"b">> /\ CharAt(end) = "'"  -> Emit("Byte", CharEnd(end + 1))
          [] Len(word) = 1 /\ word[1] \in DOMAIN Keyword -> Emit(Keyword[word[1]], end)
          [] OTHER -> Emit("Ident", end)

LexNumber ==
  /\ ~IsEof(at) /\ c1 \in Digits
  /\ LET prefixed == c1 = "0" /\ c2 \in {"x", "b", "o"}
         hex      == prefixed /\ c2 = "x"
         digits   == EatWhile(IF prefixed THEN at + 2 ELSE at + 1,
                              IF hex THEN HexDigits \cup {"_"} ELSE Digits \cup {"_"})
     IN IF CharAt(digits) = "." /\ CharAt(digits + 1) /= "."
        THEN Emit("Float", EatWhile(digits + 1, Digits \cup {"_"}))
        ELSE Emit("Int", digits)

LexQuoted ==
  /\ ~IsEof(at) /\ c1 \in DOMAIN Quotes
  /\ Emit(Quotes[c1], IF c1 = "'" THEN CharEnd(at + 1) ELSE StringEnd(at + 1, c1))

LexUnknown ==
  /\ ~IsEof(at)
  /\ c1 \notin WhiteSpace \cup DOMAIN Single \cup Digits \cup DOMAIN Quotes
  /\ c1 \notin IdentStart
  /\ Emit("Unknown", at + 1)

NextToken ==
  \/ LexEof \/ LexWhitespace \/ LexLineComment \/ LexBlockComment \/ LexPunctuation
  \/ LexIdentOrKeyword \/ LexNumber \/ LexQuoted \/ LexUnknown

StartLexing(t) == text = t /\ at = 1 /\ tokens = <<>>

\* The characters of a token, and its index in the kinds the parser reads.
TextOf(t, token) == SubSeq(t, token.lo, token.hi - 1)

-----------------------------------------------------------------------------
(* Properties *)

\* Every character belongs to exactly one token: tokens follow each other
\* without gap or overlap, none but the last is empty, and after the last
\* the cursor is at the end of the text.  The loops that skip over escapes,
\* closing hashes and nested comments each decide on their own where they stop.
TokensTile ==
  /\ \A i \in DOMAIN tokens :
       /\ tokens[i].lo = IF i = 1 THEN 1 ELSE tokens[i - 1].hi
       /\ tokens[i].lo < tokens[i].hi \/ (tokens[i].kind = "Eof" /\ tokens[i].lo = Len(text) + 1)
  /\ at = IF tokens = <<>> THEN 1 ELSE Last(tokens).hi

=============================================================================
