---------------------------- MODULE MCSourceText ----------------------------
(***************************************************************************)
(* Texts for SourceText.  Programs are written as words with one space     *)
(* between them; every form of the grammar occurs, as it should be and     *)
(* with one word missing, doubled or replaced.  Short texts over a few characters *)
(* at a time try the lexer's loops.                                        *)
(***************************************************************************)
EXTENDS SourceText

MCLetters == DOMAIN Keyword \cup {"a", "b", "c", "d", "e", "r", "u", "x"}
MCHexLetters == {"a", "b", "c", "d", "e"}

\* Words of several characters that are not letters.
Spelling ==
  "->" :> <<"-", ">">> @@ "=>" :> <<"=", ">">> @@ "::" :> <<":", ":">> @@ ".." :> <<".", ".">>
  @@ "|>" :> <<"|", ">">> @@ "??" :> <<"?", "?">> @@ "==" :> <<"=", "=">> @@ "<=" :> <<"<", "=">>
  @@ "&~" :> <<"&", "~">> @@ "'a'" :> <<"'", "a", "'">> @@ "str" :> <<"\"", "a", " ", "\"">>
  @@ "//" :> <<"/", "/", "a", "\n">> @@ "/~" :> <<"/", "~", "a", "~", "/">>
  @@ "1.0" :> <<"1", ".", "0">> @@ "pkg(a::b)" :> <<"pkg", "(", "a", ":", ":", "b", ")">>

Spell(w) == IF w \in DOMAIN Spelling THEN Spelling[w] ELSE <<w>>

Written(words) == FlattenSeq([i \in DOMAIN words |-> Spell(words[i]) \o <<" ">>])

Declarations == {
  <<"type", "a", "=", "b", "<", "c", ",", "1", ">">>,
  <<"macro", "a", "!", "(", "..", "b", ",", "c", ")", "{", "b", "}">>,
  <<"macro", "a", "[", "b", "]", "echo", "{", "a", "}">>,
  <<"bridge", "str", "{", "forge", "a", "(", ")", "}">>,
  <<"forge", "a", "<", "b", ":", "c", ">", "(", "~", "d", ":", "?", "b", ",", "self", ",",
    "..", "e", "=", "1", ")", "->", "*", "~", "b", "!", "a", "{", "}">>,
  <<"shape", "a", "<", "b", ">", "{", "open", "c", ":", "d", "!", ",", "e", ":", "raw", "b", "}">>,
  <<"shape", "impl", "a", "{", "forge", "b", "(", "&", "self", ")", "{", "}", "}">>,
  <<"scroll", "a", "{", "b", ",", "open", "c", "(", "d", ")", ",", "e", "{", "a", "}", "}">>,
  <<"open", "pkg(a::b)", "ward", "a", "{", "static", "~", "b", ":", "c", "=", "1", "}">>,
  <<"dual", "shape", "a", "{", "b", ":", "c", ",", "forge", "d", "(", ")", "}">>,
  <<"dual", "a", "<", "b", ">", "{", "forge", "c", "(", ")", "{", "}", "}">>,
  <<"weave", "a", ":", "b", "+", "c", "{", "forge", "d", "(", "self", ")", "}">>,
  <<"weave", "a", "for", "b", "{", "type", "c", "=", "d", "}">>,
  <<"draw", "a", "/", "b", "::", "*", ";">>,
  <<"@", "a", "(", "b", ",", "1", ")", "#", "[", "c", "(", "d", ")", "]", "pure", "a">>,
  <<"pure", "//", "{", "a", "}">> }

Statements == {
  <<"let", "x", ":", "a", "=", "b", ";", "let", "~", "c", "=", "1", "~", "d", "=", "c">>,
  <<"a", "=", "b", "c", "=", "1.0", ";", "give", "'a'">>,
  <<"given", "a", "==", "b", "{", "a", "=", "1", "}", "else", "given", "c", "{", "}", "else", "{", "give", "b", "}">>,
  <<"given", "a", "(", "b", "{", "c", ":", "1", "}", ")", "{", "c", "{", "a", ":", "1", ",", "b", ":", "2", "}", "}">>,
  <<"while", "a", ".", "b", "{", "c", "!", "or", "d", "e", "!", "}">>,
  <<"loop", "{", "}", "each", "a", "in", "b", "{", "a", "}">>,
  <<"zone", "a", "{", "raw", "{", "b", "}", "}">>,
  <<"seek", "{", "a", "}", "catch", "b", "{", "bind", "|", "a", "|", "b", "}">>,
  <<"a", "|>", "b", "??", "c", "or", "d", "and", "e", "==", "a", "<=", "b">>,
  <<"a", "*", "b", "+", "-", "c", "as", "d", "*", "(", "e", "+", "a", ")", "*", "b">>,
  <<"a", "?", ".", "b", "(", "c", ":", "1", ",", "//", "d", ")", "::", "<", "b", ",", ">", "::", "c">>,
  <<"a", "!", "(", "b", ",", "c", ")", "a", "!", "[", "]">> }

\* Patterns with parts: the parser does not come back from a mistake in one of these.
Destructurings == {
  <<"let", "(", "a", ",", "(", "b", ")", ")", "=", "c", ";">>,
  <<"let", "[", "a", ",", "..", "b", "]", "=", "c">>,
  <<"branch", "a", "{", "b", "::", "c", "{", "d", "}", "given", "e", "=>", "1", ",",
    "e", "(", "a", ")", "=>", "c", "|>", "d", ",", "1", "=>", "a", "}">> }

InBraces(words) == <<"{">> \o words \o <<"}">>
InForge(words) == <<"forge", "a", "(", ")">> \o InBraces(words)

Without(words, i)    == SubSeq(words, 1, i - 1) \o SubSeq(words, i + 1, Len(words))
With(words, i, word) == [words EXCEPT ![i] = word]
Twice(words, i)      == SubSeq(words, 1, i) \o SubSeq(words, i, Len(words))

Strays == {"}", "(", "=", "//"}

Slips(words) ==
  UNION {{Without(words, i), Twice(words, i)} \cup {With(words, i, w) : w \in Strays} :
           i \in DOMAIN words}

\* A slip that opens a pattern with parts is kept out of the passing run.
OpensPattern(words) ==
  \E i, j \in DOMAIN words :
    words[i] \in {"let", "~"} /\ j \in {i + 1, i + 2} /\ words[j] \in {"(", "["}

Programs == Declarations \cup {InForge(s) : s \in Statements \cup Destructurings}

SlippedPrograms ==
  {p \in UNION {Slips(d) : d \in Declarations \cup Statements} : ~OpensPattern(p)}

CharacterSets == {
  {"r", "\"", "#"}, {"b", "'", "\"", "\\"}, {"/", "~", "\n"}, {"\"", "\\", "x", "0"},
  {"0", "x", ".", "_"}, {"=", ">", "-", "."}, {"&", "~", ":", "|"}, {"\\", "u", "{", "}", "'"},
  {"$", "BQ", "!", "?"} }

ShortTexts == UNION {UNION {[1 .. n -> cs] : n \in 0 .. 4} : cs \in CharacterSets}

MCTexts == {Written(p) : p \in Programs \cup SlippedPrograms} \cup ShortTexts

\* The forges without a slip.
WellFormed == {Written(InForge(s)) : s \in Statements}

MCRereads(t) == \E p \in Programs : t = Written(p)

=============================================================================
