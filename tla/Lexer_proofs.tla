----------------------------- MODULE Lexer_proofs -----------------------------
(***************************************************************************)
(* The tokens of every text tile it, whatever its letters are: every loop  *)
(* of the lexer stops behind the place where it began and not beyond the   *)
(* end.  The loops that jump (over escapes, hashes and the marks of nested *)
(* comments) are recursive functions: that there are such functions is     *)
(* proved first, by the distance to the end.                               *)
(***************************************************************************)
EXTENDS Lexer, IterationTheorems

\* Places of the text, the one behind its last character included.
Places == 1 .. Len(text) + 1

-----------------------------------------------------------------------------
(* Loops that move on by one character *)

\* Scanning a range for one of a set of places stops at the first of them or behind the range.
LEMMA ScanStops ==
  ASSUME NEW n \in Nat, NEW i \in 1 .. n + 1, NEW S
  PROVE  \E j \in i .. n + 1 : (j > n \/ j \in S) /\ \A k \in i .. j - 1 : k \notin S
<1> DEFINE Stops == {j \in i .. n + 1 : j > n \/ j \in S}
<1>1. Stops \subseteq Nat /\ n + 1 \in Stops
  OBVIOUS
<1>2. PICK j \in Stops : \A k \in Stops : j <= k
  <2> HIDE DEF Stops
  <2> QED  BY <1>1, LeastNatural
<1>3. ASSUME NEW k \in i .. j - 1 PROVE k \notin S
  <2>1. k \in i .. n + 1 /\ ~(j <= k)
    BY <1>2
  <2>2. k \notin Stops
    BY <1>2, <2>1
  <2> QED  BY <2>1, <2>2
<1> QED  BY <1>2, <1>3

\* Eating the characters of a class stops at a place from where it began to the end.
LEMMA EatWhileStops ==
  ASSUME text \in Seq(STRING), NEW i \in Places, NEW class
  PROVE  EatWhile(i, class) \in i .. Len(text) + 1
<1> DEFINE S == {k \in 1 .. Len(text) : text[k] \notin class}
           Stop(j) == /\ IsEof(j) \/ text[j] \notin class
                      /\ \A k \in i .. j - 1 : text[k] \in class
<1>1. Len(text) \in Nat /\ i \in 1 .. Len(text) + 1
  BY DEF Places
<1>2. PICK j \in i .. Len(text) + 1 : (j > Len(text) \/ j \in S) /\ \A k \in i .. j - 1 : k \notin S
  <2> HIDE DEF S
  <2> QED  BY <1>1, ScanStops
<1>3. \A k \in i .. j - 1 : k \in 1 .. Len(text)
  BY <1>1, <1>2
<1>4. Stop(j)
  BY <1>2, <1>3 DEF IsEof
<1>5. EatWhile(i, class) = CHOOSE x \in i .. Len(text) + 1 : Stop(x)
  BY DEF EatWhile
<1> HIDE DEF Stop
<1> QED  BY <1>2, <1>4, <1>5

\* A character under the cursor that is not its mark for the end lies before the end.
LEMMA BeforeTheEnd ==
  ASSUME text \in Seq(STRING), NEW i \in Nat, CharAt(i) # EOF_CHAR
  PROVE  i <= Len(text)
BY DEF CharAt, IsEof

\* No hexadecimal digit is the mark for the end.
LEMMA HexDigitsAreNoEnd == EOF_CHAR \notin HexDigits
BY LettersAssumption DEF HexDigits, Digits, EOF_CHAR

\* An escape ends at a place behind its backslash.
LEMMA EscapeStops ==
  ASSUME text \in Seq(STRING), NEW i \in Places
  PROVE  EatEscape(i) \in i .. Len(text) + 1
<1>1. Len(text) \in Nat /\ i \in Nat /\ i >= 1 /\ i <= Len(text) + 1
  BY DEF Places
<1>2. CASE CharAt(i) = "u" /\ CharAt(i + 1) = "{"
  <2> DEFINE close == EatWhile(i + 2, HexDigits \cup {"_"})
  <2>1. i + 1 <= Len(text)
    <3>1. CharAt(i + 1) # EOF_CHAR
      BY <1>2, Zenon DEF EOF_CHAR
    <3> QED  BY <1>1, <3>1, BeforeTheEnd
  <2>2. i + 2 \in Places
    BY <1>1, <2>1 DEF Places
  <2>3. close \in i + 2 .. Len(text) + 1
    BY <2>2, EatWhileStops, Zenon
  <2>4. EatEscape(i) = close \/ (EatEscape(i) = close + 1 /\ CharAt(close) # EOF_CHAR)
    BY <1>2, Zenon DEF EatEscape, EOF_CHAR
  <2> HIDE DEF close
  <2>5. CharAt(close) # EOF_CHAR => close <= Len(text)
    BY <1>1, <2>3, BeforeTheEnd
  <2> QED  BY <1>1, <2>3, <2>4, <2>5
<1>3. CASE CharAt(i) = "x" /\ CharAt(i + 1) \in HexDigits
  <2>1. i + 1 <= Len(text) /\ (CharAt(i + 2) \in HexDigits => i + 2 <= Len(text))
    BY <1>1, <1>3, BeforeTheEnd, HexDigitsAreNoEnd
  <2>2. EatEscape(i) = IF CharAt(i + 2) \in HexDigits THEN i + 3 ELSE i + 2
    BY <1>3 DEF EatEscape
  <2> QED  BY <1>1, <2>1, <2>2
<1>4. CASE ~(CharAt(i) = "u" /\ CharAt(i + 1) = "{") /\ ~(CharAt(i) = "x" /\ CharAt(i + 1) \in HexDigits)
  <2>1. EatEscape(i) = IF IsEof(i) THEN i ELSE i + 1
    BY <1>4 DEF EatEscape
  <2> QED  BY <1>1, <2>1 DEF IsEof
<1> QED  BY <1>2, <1>3, <1>4

-----------------------------------------------------------------------------
(* Loops that jump *)

\* A string literal ends at a place from behind its opening quote to the end.
LEMMA StringStops ==
  ASSUME text \in Seq(STRING), NEW i \in Places, NEW quote, quote # "\\", quote # EOF_CHAR
  PROVE  StringEnd(i, quote) \in i .. Len(text) + 1
<1> DEFINE D      == i .. Len(text) + 1
           End(g) == g = [j \in i .. Len(text) + 1 |->
                            CASE IsEof(j)          -> j
                              [] CharAt(j) = quote -> j + 1
                              [] CharAt(j) = "\\"  -> g[EatEscape(j + 1)]
                              [] OTHER             -> g[j + 1]]
           rank   == [j \in D |-> Len(text) + 1 - j]
           stop   == {j \in D : IsEof(j) \/ CharAt(j) = quote}
           next   == [j \in D |-> IF CharAt(j) = "\\" THEN EatEscape(j + 1) ELSE j + 1]
           val    == [j \in D |-> IF IsEof(j) THEN j ELSE j + 1]
<1>1. Len(text) \in Nat /\ i \in Nat /\ i >= 1 /\ i <= Len(text) + 1
  BY DEF Places
<1>2. StringEnd(i, quote) = (CHOOSE g : End(g))[i]
  BY DEF StringEnd
<1>3. LeadsDown(D, Len(text) + 1, rank, stop, next, val, D)
  <2>1. rank \in [D -> 0 .. Len(text) + 1]
    BY <1>1
  <2>2. ASSUME NEW j \in D, j \notin stop
        PROVE  next[j] \in D /\ rank[next[j]] < rank[j]
    <3>1. j + 1 \in Places /\ j \in Nat
      BY <1>1, <2>2 DEF Places, IsEof
    <3>2. EatEscape(j + 1) \in j + 1 .. Len(text) + 1
      BY <3>1, EscapeStops
    <3>3. next[j] \in j + 1 .. Len(text) + 1
      BY <3>1, <3>2 DEF Places
    <3> HIDE DEF next
    <3> QED  BY <1>1, <3>1, <3>3
  <2>3. ASSUME NEW j \in stop PROVE val[j] \in D
    BY <1>1, <2>3 DEF IsEof
  <2> HIDE DEF D, rank, stop, next, val
  <2> QED  BY <1>1, <2>1, <2>2, <2>3 DEF LeadsDown
<1>4. \A j \in D : /\ j \in stop <=> IsEof(j) \/ CharAt(j) = quote
                   /\ next[j] = IF CharAt(j) = "\\" THEN EatEscape(j + 1) ELSE j + 1
                   /\ val[j] = IF IsEof(j) THEN j ELSE j + 1
                   /\ IsEof(j) => CharAt(j) # quote /\ CharAt(j) # "\\"
  BY DEF CharAt, EOF_CHAR
<1>5. \A g : End(g) <=>
         g = [j \in D |-> IF j \in stop THEN val[j] ELSE g[next[j]]]
  <2> TAKE g
  <2>1. \A j \in D : (CASE IsEof(j)          -> j
                        [] CharAt(j) = quote -> j + 1
                        [] CharAt(j) = "\\"  -> g[EatEscape(j + 1)]
                        [] OTHER             -> g[j + 1])
                      = IF j \in stop THEN val[j] ELSE g[next[j]]
    <3> HIDE DEF D, stop, next, val
    <3> QED  BY <1>4
  <2> HIDE DEF stop, next, val
  <2> QED  BY <2>1
<1> HIDE DEF End, rank, stop, next, val, D
<1>6. PICK g \in [D -> D] : Jumps(g, D, stop, next, val)
  BY <1>3, JumpsExist
<1>7. End(g)
  BY <1>5, <1>6 DEF Jumps
<1>8. End(CHOOSE h : End(h))
  BY <1>7
<1>9. Jumps(CHOOSE h : End(h), D, stop, next, val)
  BY <1>5, <1>8 DEF Jumps
<1>10. \A j \in D : (CHOOSE h : End(h))[j] \in D
  BY <1>3, <1>9, JumpsStay
<1>11. i \in D
  BY <1>1 DEF D
<1> QED  BY <1>2, <1>10, <1>11 DEF D

\* The lesser of two numbers.
LEMMA MinOfTwo ==
  ASSUME NEW a \in Nat, NEW b \in Nat
  PROVE  Min({a, b}) \in Nat /\ Min({a, b}) <= a /\ Min({a, b}) <= b
<1>1. \E m \in {a, b} : \A y \in {a, b} : m <= y
  BY DEF Min
<1> QED  BY <1>1 DEF Min

\* A raw string ends at a place from behind its hashes to the end: hashes are counted, as
\* many as it was opened with at most, only where they are.
LEMMA RawStringStops ==
  ASSUME text \in Seq(STRING), NEW i \in Places
  PROVE  RawStringEnd(i).hi \in i .. Len(text) + 1
<1> DEFINE open   == EatWhile(i, {"#"})
           hashes == open - i
           mark   == "\""
           D      == open + 1 .. Len(text) + 1
           Run(j) == EatWhile(j + 1, {"#"}) - (j + 1)
           Closing(j) == Min({Run(j), hashes})
           End(g) == g = [j \in open + 1 .. Len(text) + 1 |->
                            IF IsEof(j) THEN j
                            ELSE LET run     == EatWhile(j + 1, {"#"}) - (j + 1)
                                     closing == Min({run, hashes})
                                 IN IF text[j] /= "\"" THEN g[j + 1]
                                    ELSE IF closing = hashes THEN j + 1 + hashes
                                    ELSE g[j + 1 + closing]]
           rank   == [j \in D |-> Len(text) + 1 - j]
           stop   == {j \in D : IsEof(j) \/ (text[j] = mark /\ Closing(j) = hashes)}
           next   == [j \in D |-> IF text[j] = mark THEN j + 1 + Closing(j) ELSE j + 1]
           val    == [j \in D |-> IF IsEof(j) THEN j ELSE j + 1 + hashes]
<1>1. Len(text) \in Nat /\ i \in Nat /\ i >= 1 /\ i <= Len(text) + 1
  BY DEF Places
<1>2. open \in i .. Len(text) + 1
  BY EatWhileStops
<1>3. hashes \in Nat
  BY <1>1, <1>2
<1>4. ASSUME CharAt(open) = mark
      PROVE  RawStringEnd(i).hi = (CHOOSE g : End(g))[open + 1] /\ open <= Len(text)
  <2>1. CharAt(open) # EOF_CHAR
    BY <1>4, Zenon DEF EOF_CHAR
  <2>2. RawStringEnd(i) = [kind |-> "Str", hi |-> (CHOOSE g : End(g))[open + 1]]
    BY <1>4, Zenon DEF RawStringEnd
  <2> HIDE DEF End, mark, open
  <2>3. open <= Len(text)
    BY <1>1, <1>2, <2>1, BeforeTheEnd
  <2> QED  BY <2>2, <2>3
<1>5. ASSUME CharAt(open) # mark PROVE RawStringEnd(i).hi = open
  <2>1. RawStringEnd(i) = [kind |-> "Unknown", hi |-> open]
    BY <1>5, Zenon DEF RawStringEnd
  <2> HIDE DEF End, mark, open
  <2> QED  BY <2>1
<1>6. \A g : End(g) <=> g = [j \in D |-> IF IsEof(j) THEN j
                                         ELSE IF text[j] /= mark THEN g[j + 1]
                                         ELSE IF Closing(j) = hashes THEN j + 1 + hashes
                                         ELSE g[j + 1 + Closing(j)]]
  BY Zenon
<1> HIDE DEF End, mark, open
<1>7. ASSUME NEW j \in D, ~IsEof(j)
      PROVE  /\ Run(j) \in Nat /\ j + 1 + Run(j) <= Len(text) + 1
             /\ Closing(j) \in Nat /\ Closing(j) <= Run(j) /\ Closing(j) <= hashes
             /\ j \in Nat
  <2>1. j + 1 \in Places /\ j \in Nat
    BY <1>1, <1>2, <1>7 DEF Places, IsEof
  <2>2. EatWhile(j + 1, {"#"}) \in j + 1 .. Len(text) + 1
    BY <2>1, EatWhileStops
  <2>3. Run(j) \in Nat /\ j + 1 + Run(j) <= Len(text) + 1
    BY <1>1, <2>1, <2>2
  <2> HIDE DEF Run, hashes
  <2> QED  BY <1>3, <2>1, <2>3, MinOfTwo
<1> HIDE DEF Run, Closing, hashes
<1>8. LeadsDown(D, Len(text) + 1, rank, stop, next, val, D)
  <2>1. rank \in [D -> 0 .. Len(text) + 1]
    BY <1>1, <1>2
  <2>2. ASSUME NEW j \in D, j \notin stop
        PROVE  next[j] \in D /\ rank[next[j]] < rank[j]
    <3>1. ~IsEof(j)
      BY <2>2
    <3>2. next[j] \in j + 1 .. Len(text) + 1
      BY <1>1, <1>7, <3>1
    <3> HIDE DEF next
    <3> QED  BY <1>1, <1>2, <1>7, <3>1, <3>2
  <2>3. ASSUME NEW j \in stop PROVE val[j] \in D
    <3>1. CASE IsEof(j)
      BY <3>1
    <3>2. CASE ~IsEof(j)
      <4>1. Closing(j) = hashes /\ j \in D
        BY <2>3, <3>2
      <4>2. j + 1 + hashes \in D
        BY <1>1, <1>2, <1>3, <1>7, <3>2, <4>1
      <4> QED  BY <3>2, <4>1, <4>2
    <3> QED  BY <3>1, <3>2
  <2> HIDE DEF D, rank, stop, next, val
  <2> QED  BY <1>1, <2>1, <2>2, <2>3 DEF LeadsDown
<1>9. \A g : End(g) <=> g = [j \in D |-> IF j \in stop THEN val[j] ELSE g[next[j]]]
  <2> TAKE g
  <2>1. \A j \in D : (IF IsEof(j) THEN j
                      ELSE IF text[j] /= mark THEN g[j + 1]
                      ELSE IF Closing(j) = hashes THEN j + 1 + hashes
                      ELSE g[j + 1 + Closing(j)])
                     = IF j \in stop THEN val[j] ELSE g[next[j]]
    OBVIOUS
  <2> HIDE DEF stop, next, val, D
  <2> QED  BY <1>6, <2>1
<1> HIDE DEF rank, stop, next, val, D
<1>10. PICK g \in [D -> D] : Jumps(g, D, stop, next, val)
  BY <1>8, JumpsExist
<1>11. End(g)
  BY <1>9, <1>10 DEF Jumps
<1>12. End(CHOOSE h : End(h))
  BY <1>11
<1>13. Jumps(CHOOSE h : End(h), D, stop, next, val)
  BY <1>9, <1>12 DEF Jumps
<1>14. \A j \in D : (CHOOSE h : End(h))[j] \in D
  BY <1>8, <1>13, JumpsStay
<1>15. CASE CharAt(open) = mark
  <2>1. open + 1 \in D
    BY <1>1, <1>2, <1>4, <1>15 DEF D
  <2>2. RawStringEnd(i).hi \in D
    BY <1>4, <1>14, <1>15, <2>1
  <2> QED  BY <1>1, <1>2, <2>2 DEF D
<1>16. CASE CharAt(open) # mark
  BY <1>2, <1>5, <1>16
<1> QED  BY <1>15, <1>16

\* A block comment ends at a place from behind its first mark to the end, however deep
\* comments nest in it.
LEMMA CommentStops ==
  ASSUME text \in Seq(STRING), NEW i \in Places
  PROVE  CommentEnd(i) \in i .. Len(text) + 1
<1> DEFINE V      == i .. Len(text) + 1
           D      == V \X Nat
           Opens(j)  == text[j] = "/" /\ CharAt(j + 1) = "~"
           Closes(j) == text[j] = "~" /\ CharAt(j + 1) = "/"
           End(g) == g = [p \in (i .. Len(text) + 1) \X Nat |->
                            LET j == p[1]  depth == p[2]
                            IN IF depth = 0 \/ IsEof(j) THEN j
                               ELSE CASE text[j] = "/" /\ CharAt(j + 1) = "~" -> g[<<j + 2, depth + 1>>]
                                      [] text[j] = "~" /\ CharAt(j + 1) = "/" -> g[<<j + 2, depth - 1>>]
                                      [] OTHER -> g[<<j + 1, depth>>]]
           rank   == [p \in D |-> Len(text) + 1 - p[1]]
           stop   == {p \in D : p[2] = 0 \/ IsEof(p[1])}
           next   == [p \in D |-> IF Opens(p[1]) THEN <<p[1] + 2, p[2] + 1>>
                                  ELSE IF Closes(p[1]) THEN <<p[1] + 2, p[2] - 1>>
                                  ELSE <<p[1] + 1, p[2]>>]
           val    == [p \in D |-> p[1]]
<1>1. Len(text) \in Nat /\ i \in Nat /\ i >= 1 /\ i <= Len(text) + 1
  BY DEF Places
<1>2. CommentEnd(i) = (CHOOSE g : End(g))[<<i, 1>>]
  BY DEF CommentEnd
<1>3. \A p \in D : p[1] \in Nat /\ p[1] >= i /\ p[1] <= Len(text) + 1 /\ p[2] \in Nat
  BY <1>1
<1>4. ASSUME NEW j \in V, ~IsEof(j)
      PROVE  /\ Opens(j) \/ Closes(j) => j + 1 <= Len(text)
             /\ j <= Len(text)
             /\ ~(Opens(j) /\ Closes(j))
  <2>1. Opens(j) \/ Closes(j) => CharAt(j + 1) # EOF_CHAR
    BY DEF EOF_CHAR
  <2>2. ~(Opens(j) /\ Closes(j))
    OBVIOUS
  <2> HIDE DEF Opens, Closes
  <2>3. CharAt(j + 1) # EOF_CHAR => j + 1 <= Len(text)
    BY <1>1, BeforeTheEnd
  <2> QED  BY <1>1, <1>4, <2>1, <2>2, <2>3 DEF IsEof
<1>5. \A g : End(g) <=> g = [p \in D |-> IF p \in stop THEN val[p] ELSE g[next[p]]]
  <2> TAKE g
  <2>1. \A p \in D : (LET j == p[1]  depth == p[2]
                      IN IF depth = 0 \/ IsEof(j) THEN j
                         ELSE CASE text[j] = "/" /\ CharAt(j + 1) = "~" -> g[<<j + 2, depth + 1>>]
                                [] text[j] = "~" /\ CharAt(j + 1) = "/" -> g[<<j + 2, depth - 1>>]
                                [] OTHER -> g[<<j + 1, depth>>])
                     = IF p \in stop THEN val[p] ELSE g[next[p]]
    OBVIOUS
  <2> HIDE DEF stop, next, val
  <2> QED  BY <2>1
<1> HIDE DEF End, Opens, Closes
<1>6. LeadsDown(D, Len(text) + 1, rank, stop, next, val, V)
  <2>1. rank \in [D -> 0 .. Len(text) + 1]
    BY <1>1
  <2>2. ASSUME NEW p \in D, p \notin stop
        PROVE  next[p] \in D /\ rank[next[p]] < rank[p]
    <3>1. ~IsEof(p[1]) /\ p[2] # 0 /\ p[1] \in V /\ p[1] \in Nat /\ p[2] \in Nat
      BY <1>1, <2>2
    <3>2. /\ Opens(p[1]) \/ Closes(p[1]) => p[1] + 1 <= Len(text)
          /\ p[1] <= Len(text)
      BY <1>4, <3>1
    <3>3. \E k \in p[1] + 1 .. Len(text) + 1, d \in Nat : next[p] = <<k, d>>
      <4>1. CASE Opens(p[1])
        <5>1. next[p] = <<p[1] + 2, p[2] + 1>>
          BY <4>1
        <5> HIDE DEF next
        <5> QED  BY <1>1, <3>1, <3>2, <4>1, <5>1
      <4>2. CASE ~Opens(p[1]) /\ Closes(p[1])
        <5>1. next[p] = <<p[1] + 2, p[2] - 1>>
          BY <4>2
        <5> HIDE DEF next
        <5> QED  BY <1>1, <3>1, <3>2, <4>2, <5>1
      <4>3. CASE ~Opens(p[1]) /\ ~Closes(p[1])
        <5>1. next[p] = <<p[1] + 1, p[2]>>
          BY <4>3
        <5> HIDE DEF next
        <5> QED  BY <1>1, <3>1, <3>2, <5>1
      <4> QED  BY <4>1, <4>2, <4>3
    <3> HIDE DEF next
    <3>4. PICK k \in p[1] + 1 .. Len(text) + 1, d \in Nat : next[p] = <<k, d>>
      BY <3>3
    <3>5. p[1] >= i
      BY <1>3
    <3>6. next[p] \in D
      BY <1>1, <3>1, <3>4, <3>5
    <3>7. rank[next[p]] = Len(text) + 1 - k /\ rank[p] = Len(text) + 1 - p[1]
      BY <3>4, <3>6
    <3> QED  BY <1>1, <3>1, <3>4, <3>6, <3>7
  <2>3. ASSUME NEW p \in stop PROVE val[p] \in V
    BY <1>1, <2>3
  <2> HIDE DEF D, rank, stop, next, val
  <2> QED  BY <1>1, <2>1, <2>2, <2>3 DEF LeadsDown
<1>7. <<i, 1>> \in D
  <2>1. i \in V /\ 1 \in Nat
    BY <1>1
  <2> QED  BY <2>1
<1> HIDE DEF rank, stop, next, val, D, V
<1>8. PICK g \in [D -> V] : Jumps(g, D, stop, next, val)
  BY <1>6, JumpsExist
<1>9. End(g)
  BY <1>5, <1>8 DEF Jumps
<1>10. End(CHOOSE h : End(h))
  BY <1>9
<1>11. Jumps(CHOOSE h : End(h), D, stop, next, val)
  BY <1>5, <1>10 DEF Jumps
<1>12. \A p \in D : (CHOOSE h : End(h))[p] \in V
  BY <1>6, <1>11, JumpsStay
<1>13. (CHOOSE h : End(h))[<<i, 1>>] \in V
  BY <1>7, <1>12, Zenon
<1> QED  BY <1>2, <1>13 DEF V

\* A character literal ends at a place from behind its opening quote to the end.
LEMMA CharStops ==
  ASSUME text \in Seq(STRING), NEW i \in Places
  PROVE  CharEnd(i) \in i .. Len(text) + 1
<1> DEFINE after == CASE IsEof(i)         -> i
                      [] CharAt(i) = "\\" -> EatEscape(i + 1)
                      [] OTHER            -> i + 1
<1>1. Len(text) \in Nat /\ i \in Nat /\ i >= 1 /\ i <= Len(text) + 1
  BY DEF Places
<1>2. CharEnd(i) = IF ~IsEof(i) /\ CharAt(after) = "'" THEN after + 1 ELSE after
  BY DEF CharEnd
<1>3. IsEof(i) => CharAt(i) # "\\"
  BY DEF CharAt, EOF_CHAR
<1>4. after \in i .. Len(text) + 1
  <2>1. CASE IsEof(i)
    BY <1>1, <1>3, <2>1
  <2>2. CASE ~IsEof(i)
    <3>1. i + 1 \in Places
      BY <1>1, <2>2 DEF Places, IsEof
    <3>2. EatEscape(i + 1) \in i + 1 .. Len(text) + 1
      BY <3>1, EscapeStops
    <3> QED  BY <1>1, <2>2, <3>1, <3>2 DEF Places
  <2> QED  BY <2>1, <2>2
<1> HIDE DEF after
<1>5. CharAt(after) = "'" => after <= Len(text)
  <2>1. CharAt(after) = "'" => CharAt(after) # EOF_CHAR
    BY DEF EOF_CHAR
  <2> QED  BY <1>1, <1>4, <2>1, BeforeTheEnd
<1> QED  BY <1>1, <1>2, <1>4, <1>5

-----------------------------------------------------------------------------
(* The tokens *)

\* Tokens is a sequence of something; the cursor is on the text or right behind it.
LexInv ==
  /\ text \in Seq(STRING)
  /\ at \in Places
  /\ \E S : tokens \in Seq(S)
  /\ TokensTile

\* A call that ends behind where it began, and not beyond the end, goes on tiling.
MovesOn == \E kind, hi : Emit(kind, hi) /\ hi \in at + 1 .. Len(text) + 1

LEMMA EmitTiles ==
  ASSUME LexInv, NEW kind, NEW hi, Emit(kind, hi),
         \/ hi \in at + 1 .. Len(text) + 1
         \/ kind = "Eof" /\ IsEof(at) /\ hi = at
  PROVE  LexInv'
<1> DEFINE token == [kind |-> kind, lo |-> at, hi |-> hi]
<1>1. PICK S : tokens \in Seq(S)
  BY DEF LexInv
<1>2. /\ tokens' = Append(tokens, token)
      /\ at' = hi /\ text' = text
  BY DEF Emit
<1>3. Len(text) \in Nat /\ at \in Nat /\ at >= 1 /\ at <= Len(text) + 1 /\ text \in Seq(STRING)
  BY DEF LexInv, Places
<1>4. token.lo = at /\ token.hi = hi /\ token.kind = kind
  OBVIOUS
<1>5. hi \in Places /\ (at < hi \/ (kind = "Eof" /\ at = Len(text) + 1))
  BY <1>3 DEF Places, IsEof
<1> HIDE DEF token
<1>6. /\ tokens' \in Seq(S \cup {token}) /\ tokens' # <<>>
      /\ Len(tokens) \in Nat /\ Len(tokens') = Len(tokens) + 1
      /\ DOMAIN tokens = 1 .. Len(tokens) /\ DOMAIN tokens' = 1 .. Len(tokens) + 1
      /\ \A i \in 1 .. Len(tokens) : tokens'[i] = tokens[i]
      /\ tokens'[Len(tokens) + 1] = token
  BY <1>1, <1>2
<1>7. at = IF tokens = <<>> THEN 1 ELSE tokens[Len(tokens)].hi
  BY DEF LexInv, TokensTile, Last
<1>8. \A i \in 1 .. Len(tokens) :
         /\ tokens[i].lo = IF i = 1 THEN 1 ELSE tokens[i - 1].hi
         /\ tokens[i].lo < tokens[i].hi \/ (tokens[i].kind = "Eof" /\ tokens[i].lo = Len(text) + 1)
  BY <1>6 DEF LexInv, TokensTile
<1>9. Len(tokens) = 0 <=> tokens = <<>>
  BY <1>1
<1>10. ASSUME NEW i \in 1 .. Len(tokens) + 1
       PROVE  /\ tokens'[i].lo = IF i = 1 THEN 1 ELSE tokens'[i - 1].hi
              /\ \/ tokens'[i].lo < tokens'[i].hi
                 \/ tokens'[i].kind = "Eof" /\ tokens'[i].lo = Len(text) + 1
  <2>1. CASE i = Len(tokens) + 1
    <3>1. tokens'[i] = token
      BY <1>6, <2>1
    <3>2. i # 1 => i - 1 \in 1 .. Len(tokens) /\ i - 1 = Len(tokens)
      BY <1>6, <2>1
    <3>3. at = IF i = 1 THEN 1 ELSE tokens'[i - 1].hi
      BY <1>6, <1>7, <1>9, <2>1, <3>2
    <3> QED  BY <1>4, <1>5, <3>1, <3>3
  <2>2. CASE i # Len(tokens) + 1
    <3>1. i \in 1 .. Len(tokens) /\ (i # 1 => i - 1 \in 1 .. Len(tokens))
      BY <1>6, <2>2
    <3> QED  BY <1>6, <1>8, <3>1
  <2> QED  BY <2>1, <2>2
<1>11. at' = IF tokens' = <<>> THEN 1 ELSE tokens'[Len(tokens')].hi
  BY <1>2, <1>4, <1>6
<1>12. TokensTile'
  BY <1>2, <1>6, <1>10, <1>11 DEF TokensTile, Last
<1> QED  BY <1>2, <1>3, <1>5, <1>6, <1>12 DEF LexInv, Places

\* Before the end, the next place is one of the text, and behind a second character one more.
LEMMA CursorFacts ==
  ASSUME LexInv, ~IsEof(at)
  PROVE  /\ text \in Seq(STRING) /\ Len(text) \in Nat /\ at \in Nat /\ at >= 1 /\ at <= Len(text)
         /\ at + 1 \in Places
         /\ c2 # EOF_CHAR => at + 2 \in Places
<1>1. /\ text \in Seq(STRING) /\ Len(text) \in Nat /\ at \in Nat /\ at >= 1 /\ at <= Len(text)
      /\ at + 1 \in Places
  BY DEF LexInv, Places, IsEof
<1>2. c2 # EOF_CHAR => at + 1 <= Len(text)
  BY <1>1, BeforeTheEnd DEF c2
<1> QED  BY <1>1, <1>2 DEF Places

\* Each kind of call moves on: its token ends behind where it began.
LEMMA WhitespaceMovesOn == ASSUME LexInv, LexWhitespace PROVE MovesOn
<1>1. ~IsEof(at) /\ Emit("Whitespace", EatWhile(at + 1, WhiteSpace))
  BY DEF LexWhitespace
<1>2. EatWhile(at + 1, WhiteSpace) \in at + 1 .. Len(text) + 1
  BY <1>1, CursorFacts, EatWhileStops
<1> QED  BY <1>1, <1>2 DEF MovesOn

LEMMA LineCommentMovesOn == ASSUME LexInv, LexLineComment PROVE MovesOn
<1> DEFINE hi == EatWhile(at + 2, STRING \ {"\n", EOF_CHAR})
<1>1. ~IsEof(at) /\ c2 # EOF_CHAR /\ Emit("Comment", hi)
  BY DEF LexLineComment, EOF_CHAR
<1>2. hi \in at + 2 .. Len(text) + 1
  BY <1>1, CursorFacts, EatWhileStops
<1> HIDE DEF hi
<1>3. hi \in at + 1 .. Len(text) + 1
  BY <1>1, <1>2, CursorFacts
<1> QED  BY <1>1, <1>3 DEF MovesOn

LEMMA BlockCommentMovesOn == ASSUME LexInv, LexBlockComment PROVE MovesOn
<1>1. ~IsEof(at) /\ c2 # EOF_CHAR /\ Emit("Comment", CommentEnd(at + 2))
  BY DEF LexBlockComment, EOF_CHAR
<1>2. CommentEnd(at + 2) \in at + 2 .. Len(text) + 1
  BY <1>1, CursorFacts, CommentStops
<1>3. CommentEnd(at + 2) \in at + 1 .. Len(text) + 1
  BY <1>1, <1>2, CursorFacts
<1> QED  BY <1>1, <1>3 DEF MovesOn

LEMMA PunctuationMovesOn == ASSUME LexInv, LexPunctuation PROVE MovesOn
<1> DEFINE Dots == <<c1, c2>> = <<".", ".">> /\ CharAt(at + 2) = "="
<1>1. /\ ~IsEof(at)
      /\ CASE Dots -> Emit("DotDotEq", at + 3)
           [] <<c1, c2>> \in DOMAIN Double /\ ~Dots -> Emit(Double[<<c1, c2>>], at + 2)
           [] OTHER -> Emit(Single[c1], at + 1)
  BY Zenon DEF LexPunctuation
<1>2. Dots => CharAt(at + 2) # EOF_CHAR
  BY Zenon DEF EOF_CHAR
<1>3. <<c1, c2>> \in DOMAIN Double => c2 # EOF_CHAR
  BY TablesAssumption
<1> HIDE DEF Dots
<1>4. CASE Dots
  <2>1. Emit("DotDotEq", at + 3)
    BY <1>1, <1>4, Zenon
  <2>2. at + 2 <= Len(text)
    BY <1>1, <1>2, <1>4, CursorFacts, BeforeTheEnd
  <2>3. at + 3 \in at + 1 .. Len(text) + 1
    BY <1>1, <2>2, CursorFacts
  <2> QED  BY <2>1, <2>3 DEF MovesOn
<1>5. CASE <<c1, c2>> \in DOMAIN Double /\ ~Dots
  <2>1. Emit(Double[<<c1, c2>>], at + 2)
    BY <1>1, <1>5, Zenon
  <2>2. at + 2 \in at + 1 .. Len(text) + 1
    BY <1>1, <1>3, <1>5, CursorFacts DEF Places
  <2> QED  BY <2>1, <2>2, Zenon DEF MovesOn
<1>6. CASE <<c1, c2>> \notin DOMAIN Double /\ ~Dots
  <2>1. Emit(Single[c1], at + 1)
    BY <1>1, <1>6, Zenon
  <2>2. at + 1 \in at + 1 .. Len(text) + 1
    BY <1>1, CursorFacts
  <2> QED  BY <2>1, <2>2, Zenon DEF MovesOn
<1> QED  BY <1>4, <1>5, <1>6

LEMMA IdentMovesOn == ASSUME LexInv, LexIdentOrKeyword PROVE MovesOn
<1> DEFINE end    == EatWhile(at + 1, IdentContinue)
           raw    == RawStringEnd(end)
           byteStr == StringEnd(end + 1, "\"")
           byte   == CharEnd(end + 1)
<1>1. ~IsEof(at)
  BY Zenon DEF LexIdentOrKeyword
<1>2. \/ Emit(raw.kind, raw.hi)
      \/ CharAt(end) # EOF_CHAR /\ Emit("ByteStr", byteStr)
      \/ CharAt(end) # EOF_CHAR /\ Emit("Byte", byte)
      \/ \E kind : Emit(kind, end)
  BY Zenon DEF LexIdentOrKeyword, EOF_CHAR
<1>3. end \in at + 1 .. Len(text) + 1
  BY <1>1, CursorFacts, EatWhileStops
<1>4. end \in Places /\ (CharAt(end) # EOF_CHAR => end + 1 \in Places) /\ end \in Nat
  <2> HIDE DEF end
  <2> QED  BY <1>1, <1>3, CursorFacts, BeforeTheEnd DEF Places
<1>5. raw.hi \in end .. Len(text) + 1
  BY <1>1, <1>4, CursorFacts, RawStringStops
<1>6. CharAt(end) # EOF_CHAR => byteStr \in end + 1 .. Len(text) + 1
  <2>1. "\"" # "\\" /\ "\"" # EOF_CHAR
    BY Zenon DEF EOF_CHAR
  <2> QED  BY <1>1, <1>4, <2>1, CursorFacts, StringStops, Zenon
<1>7. CharAt(end) # EOF_CHAR => byte \in end + 1 .. Len(text) + 1
  BY <1>1, <1>4, CursorFacts, CharStops
<1> HIDE DEF end, raw, byteStr, byte
<1>8. /\ raw.hi \in at + 1 .. Len(text) + 1
      /\ CharAt(end) # EOF_CHAR => byteStr \in at + 1 .. Len(text) + 1
      /\ CharAt(end) # EOF_CHAR => byte \in at + 1 .. Len(text) + 1
  BY <1>1, <1>3, <1>4, <1>5, <1>6, <1>7, CursorFacts
<1> QED  BY <1>2, <1>3, <1>8, Zenon DEF MovesOn

LEMMA NumberMovesOn == ASSUME LexInv, LexNumber PROVE MovesOn
<1> DEFINE prefixed == c1 = "0" /\ c2 \in {"x", "b", "o"}
           hex      == prefixed /\ c2 = "x"
           from     == IF prefixed THEN at + 2 ELSE at + 1
           class    == IF hex THEN HexDigits \cup {"_"} ELSE Digits \cup {"_"}
           digits   == EatWhile(from, class)
           fraction == EatWhile(digits + 1, Digits \cup {"_"})
<1>1. ~IsEof(at)
  BY Zenon DEF LexNumber
<1>2. \/ CharAt(digits) # EOF_CHAR /\ Emit("Float", fraction)
      \/ Emit("Int", digits)
  BY Zenon DEF LexNumber, EOF_CHAR
<1>3. prefixed => c2 # EOF_CHAR
  BY DEF EOF_CHAR
<1>4. from \in Places /\ from \in Nat /\ from >= at + 1
  <2> HIDE DEF prefixed
  <2> QED  BY <1>1, <1>3, CursorFacts
<1> HIDE DEF prefixed, from, class
<1>5. digits \in from .. Len(text) + 1
  BY <1>1, <1>4, CursorFacts, EatWhileStops
<1>6. CharAt(digits) # EOF_CHAR => digits + 1 \in Places
  <2> HIDE DEF digits
  <2> QED  BY <1>1, <1>4, <1>5, CursorFacts, BeforeTheEnd DEF Places
<1>7. CharAt(digits) # EOF_CHAR => fraction \in digits + 1 .. Len(text) + 1
  BY <1>1, <1>6, CursorFacts, EatWhileStops, Zenon
<1> HIDE DEF digits, fraction
<1>8. /\ digits \in at + 1 .. Len(text) + 1
      /\ CharAt(digits) # EOF_CHAR => fraction \in at + 1 .. Len(text) + 1
  BY <1>1, <1>4, <1>5, <1>7, CursorFacts
<1> QED  BY <1>2, <1>8, Zenon DEF MovesOn

LEMMA QuotedMovesOn == ASSUME LexInv, LexQuoted PROVE MovesOn
<1> DEFINE hi == IF c1 = "'" THEN CharEnd(at + 1) ELSE StringEnd(at + 1, c1)
<1>1. ~IsEof(at) /\ c1 \in DOMAIN Quotes /\ Emit(Quotes[c1], hi)
  BY Zenon DEF LexQuoted
<1>2. c1 # "\\" /\ c1 # EOF_CHAR
  BY <1>1, TablesAssumption
<1>3. /\ CharEnd(at + 1) \in at + 1 .. Len(text) + 1
      /\ StringEnd(at + 1, c1) \in at + 1 .. Len(text) + 1
  BY <1>1, <1>2, CursorFacts, CharStops, StringStops
<1>4. hi \in at + 1 .. Len(text) + 1
  BY <1>3
<1> HIDE DEF hi
<1> QED  BY <1>1, <1>4, Zenon DEF MovesOn

LEMMA UnknownMovesOn == ASSUME LexInv, LexUnknown PROVE MovesOn
<1>1. ~IsEof(at) /\ Emit("Unknown", at + 1)
  BY Zenon DEF LexUnknown
<1>2. at + 1 \in at + 1 .. Len(text) + 1
  BY <1>1, CursorFacts
<1> QED  BY <1>1, <1>2 DEF MovesOn

-----------------------------------------------------------------------------
(* Every text *)

\* Another text is given to a lexer of its own.
Relex == \E t \in Seq(STRING) : text' = t /\ at' = 1 /\ tokens' = <<>>

LexInit == \E t \in Seq(STRING) : StartLexing(t)
LexSpec == LexInit /\ [][NextToken \/ Relex]_lexVars

\* Texts not read yet, the first and every other.
LEMMA NothingTiles ==
  ASSUME NEW t \in Seq(STRING), StartLexing(t) PROVE LexInv
<1>1. text \in Seq(STRING) /\ at = 1 /\ tokens = <<>>
  BY DEF StartLexing
<1>2. at \in Places /\ tokens \in Seq({})
  BY <1>1 DEF Places
<1>3. TokensTile
  BY <1>1 DEF TokensTile
<1> QED  BY <1>1, <1>2, <1>3 DEF LexInv

LEMMA RelexTiles == ASSUME Relex PROVE LexInv'
<1>1. text' \in Seq(STRING) /\ at' = 1 /\ tokens' = <<>>
  BY DEF Relex
<1>2. (at \in Places)' /\ tokens' \in Seq({})
  BY <1>1 DEF Places
<1>3. TokensTile'
  BY <1>1 DEF TokensTile
<1> QED  BY <1>1, <1>2, <1>3 DEF LexInv

\* A call goes on tiling.
LEMMA TokenTiles == ASSUME LexInv, NextToken PROVE LexInv'
<1>1. CASE LexEof
  <2>1. IsEof(at) /\ Emit("Eof", at)
    BY <1>1 DEF LexEof
  <2> QED  BY <2>1, EmitTiles
<1>2. CASE MovesOn
  BY <1>2, EmitTiles DEF MovesOn
<1> QED  BY <1>1, <1>2, WhitespaceMovesOn, LineCommentMovesOn, BlockCommentMovesOn,
            PunctuationMovesOn, IdentMovesOn, NumberMovesOn, QuotedMovesOn, UnknownMovesOn
         DEF NextToken

\* Every character of every text belongs to exactly one token, whatever its letters are: no
\* loop over escapes, hashes or nested comments stops too early or beyond the end.
THEOREM EveryTextIsTiled == LexSpec => []TokensTile
<1>1. LexInit => LexInv
  BY NothingTiles DEF LexInit
<1>2. LexInv /\ [NextToken \/ Relex]_lexVars => LexInv'
  <2> SUFFICES ASSUME LexInv, [NextToken \/ Relex]_lexVars PROVE LexInv'
    OBVIOUS
  <2>1. CASE UNCHANGED lexVars
    BY <2>1 DEF LexInv, TokensTile, Places, lexVars, Last
  <2> QED  BY <2>1, TokenTiles, RelexTiles
<1>3. LexInv => TokensTile
  BY DEF LexInv
<1> QED  BY <1>1, <1>2, <1>3, PTL DEF LexSpec

=============================================================================
