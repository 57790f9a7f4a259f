---------------------------- MODULE Packages_proofs ----------------------------
(***************************************************************************)
(* Three facts of the package manager, for any processes, command lines,   *)
(* projects and bounds, with the calls interleaved and any of them failing *)
(* or the last one.                                                        *)
(*                                                                         *)
(* The sources that the user wrote survive: what a process that has looked *)
(* for a file is about to open or fill is none of the user's (Spared).     *)
(*                                                                         *)
(* A project that izel new has made is found by izel build: a command that *)
(* makes one has, for each of its files, a step left that makes it or the  *)
(* file itself, and one that looks for a source has one in view            *)
(* (Buildable).                                                            *)
(*                                                                         *)
(* An edit that runs alone makes just its change.  It fills the manifest   *)
(* with what it made of the lines it found there (Apart), and what the     *)
(* edits of a manifest make of any text is told by which lines they carry *)
(* over, where to, and which are fresh (Carries, Addition).                *)
(***************************************************************************)
EXTENDS Packages, IterationTheorems, SequenceTheorems, TLAPS

Sequential(s) == \E S : s \in Seq(S)

-----------------------------------------------------------------------------
(* What a filter keeps *)

\* The number of the places up to i.
Rank(places, i) == Cardinality({j \in places : j <= i})

\* The places up to one count as those up to the one before it, and itself if it is one.
LEMMA RankSteps ==
  ASSUME NEW m \in Nat, NEW places, places \subseteq 1 .. m
  PROVE  /\ Rank(places, 0) = 0
         /\ \A i \in 0 .. m : Rank(places, i) \in Nat
         /\ \A i \in 1 .. m : Rank(places, i) = IF i \in places THEN Rank(places, i - 1) + 1 ELSE Rank(places, i - 1)
<1>1. ASSUME NEW i \in 0 .. m PROVE IsFiniteSet({j \in places : j <= i}) /\ Rank(places, i) \in Nat
  <2>1. IsFiniteSet(1 .. m)
    BY FS_Interval
  <2>2. IsFiniteSet({j \in places : j <= i})
    BY <2>1, FS_Subset
  <2> QED  BY <2>2, FS_CardinalityType DEF Rank
<1>2. Rank(places, 0) = 0
  <2>1. \A j \in places : ~ (j <= 0)
    OBVIOUS
  <2>2. {j \in places : j <= 0} = {}
    BY <2>1
  <2> QED  BY <2>2, FS_EmptySet DEF Rank
<1>3. ASSUME NEW i \in 1 .. m
      PROVE  Rank(places, i) = IF i \in places THEN Rank(places, i - 1) + 1 ELSE Rank(places, i - 1)
  <2>1. CASE i \in places
    <3>1. {j \in places : j <= i} = {j \in places : j <= i - 1} \cup {i} /\ i \notin {j \in places : j <= i - 1}
      <4>1. \A j \in places : j <= i <=> (j <= i - 1 \/ j = i)
        OBVIOUS
      <4>2. ~ (i <= i - 1)
        OBVIOUS
      <4> QED  BY <2>1, <4>1, <4>2
    <3>2. i - 1 \in 0 .. m
      OBVIOUS
    <3>3. IsFiniteSet({j \in places : j <= i - 1})
      BY <1>1, <3>2
    <3> QED  BY <2>1, <3>1, <3>3, FS_AddElement DEF Rank
  <2>2. CASE i \notin places
    <3>1. {j \in places : j <= i} = {j \in places : j <= i - 1}
      <4>1. \A j \in places : j # i
        BY <2>2
      <4>2. \A j \in places : j <= i <=> j <= i - 1
        BY <4>1
      <4> QED  BY <4>2
    <3> QED  BY <2>2, <3>1 DEF Rank
  <2> QED  BY <2>1, <2>2
<1> QED  BY <1>1, <1>2, <1>3

\* Later places have higher ranks.
LEMMA RankGrows ==
  ASSUME NEW m \in Nat, NEW places, places \subseteq 1 .. m
  PROVE  /\ \A i, j \in 0 .. m : i <= j => Rank(places, i) <= Rank(places, j)
         /\ \A i, j \in places : i < j => Rank(places, i) < Rank(places, j)
<1>0. /\ \A i \in 0 .. m : Rank(places, i) \in Nat
      /\ \A i \in 1 .. m : Rank(places, i) = IF i \in places THEN Rank(places, i - 1) + 1 ELSE Rank(places, i - 1)
  BY RankSteps
<1>1. ASSUME NEW i \in 0 .. m PROVE \A j \in 0 .. m : i <= j => Rank(places, i) <= Rank(places, j)
  <2> DEFINE S == {j \in Nat : j \in 0 .. m /\ i <= j => Rank(places, i) <= Rank(places, j)}
  <2>1. 0 \in S
    <3>1. i <= 0 => i = 0
      OBVIOUS
    <3>2. Rank(places, i) <= Rank(places, i)
      BY <1>0
    <3> QED  BY <3>1, <3>2
  <2>2. ASSUME NEW k \in 1 .. m, k - 1 \in S PROVE k \in S
    <3>1. CASE i <= k - 1
      <4>1. k - 1 \in 0 .. m /\ k \in 0 .. m
        OBVIOUS
      <4>2. Rank(places, i) <= Rank(places, k - 1)
        BY <2>2, <3>1, <4>1
      <4>3. Rank(places, k - 1) <= Rank(places, k)
        BY <1>0, <4>1
      <4>4. Rank(places, i) \in Nat /\ Rank(places, k) \in Nat /\ Rank(places, k - 1) \in Nat
        BY <1>0, <4>1
      <4>5. Rank(places, i) <= Rank(places, k)
        BY <4>2, <4>3, <4>4
      <4> QED  BY <4>5
    <3>2. CASE ~ (i <= k - 1)
      <4>1. i <= k => i = k
        BY <3>2
      <4>2. Rank(places, k) <= Rank(places, k)
        BY <1>0
      <4> QED  BY <4>1, <4>2
    <3> QED  BY <3>1, <3>2
  <2> HIDE DEF S
  <2>3. 0 .. m \subseteq S
    BY <2>1, <2>2, BoundedInduction
  <2> QED  BY <2>3 DEF S
<1>2. ASSUME NEW i \in places, NEW j \in places, i < j PROVE Rank(places, i) < Rank(places, j)
  <2>1. i \in 0 .. m /\ j \in 1 .. m /\ j - 1 \in 0 .. m /\ i <= j - 1
    BY <1>2
  <2>2. Rank(places, i) <= Rank(places, j - 1)
    BY <1>1, <2>1
  <2>3. j \in places /\ Rank(places, j) = Rank(places, j - 1) + 1
    BY <1>0, <2>1
  <2> QED  BY <1>0, <2>1, <2>2, <2>3
<1> QED  BY <1>1, <1>2

\* Every number up to the number of the places is the rank of one.
LEMMA RankReaches ==
  ASSUME NEW m \in Nat, NEW places, places \subseteq 1 .. m
  PROVE  \A n \in 1 .. Rank(places, m) : \E i \in places : Rank(places, i) = n
<1> DEFINE S == {k \in Nat : k \in 0 .. m => \A n \in 1 .. Rank(places, k) : \E i \in places : Rank(places, i) = n}
<1>0. /\ Rank(places, 0) = 0
      /\ \A i \in 0 .. m : Rank(places, i) \in Nat
      /\ \A i \in 1 .. m : Rank(places, i) = IF i \in places THEN Rank(places, i - 1) + 1 ELSE Rank(places, i - 1)
  BY RankSteps
<1>1. 0 \in S
  BY <1>0
<1>2. ASSUME NEW k \in 1 .. m, k - 1 \in S PROVE k \in S
  <2>1. k - 1 \in 0 .. m /\ k \in 0 .. m
    OBVIOUS
  <2>2. \A n \in 1 .. Rank(places, k - 1) : \E i \in places : Rank(places, i) = n
    BY <1>2, <2>1
  <2>3. /\ Rank(places, k) \in Nat /\ Rank(places, k - 1) \in Nat
        /\ Rank(places, k) = IF k \in places THEN Rank(places, k - 1) + 1 ELSE Rank(places, k - 1)
    BY <1>0, <2>1
  <2>4. ASSUME NEW n \in 1 .. Rank(places, k) PROVE \E i \in places : Rank(places, i) = n
    <3>1. CASE n \in 1 .. Rank(places, k - 1)
      BY <2>2, <3>1
    <3>2. CASE n \notin 1 .. Rank(places, k - 1)
      <4>1. k \in places /\ n = Rank(places, k)
        BY <2>3, <3>2
      <4> QED  BY <4>1
    <3> QED  BY <3>1, <3>2
  <2> QED  BY <2>4
<1> HIDE DEF S
<1>3. 0 .. m \subseteq S
  BY <1>1, <1>2, BoundedInduction
<1> QED  BY <1>3 DEF S

\* What is collected of the first lines, and then of one more.
Collected(upto, n, lines, places) ==
  upto = [i \in 0 .. n |->
            IF i = 0 THEN <<>> ELSE IF i \in places THEN Append(upto[i - 1], lines[i]) ELSE upto[i - 1]]

LEMMA CollectingEnds ==
  ASSUME NEW lines, NEW places, NEW m \in Nat
  PROVE  \E upto : Collected(upto, m, lines, places)
<1> DEFINE S == {n \in Nat : \E upto : Collected(upto, n, lines, places)}
<1>1. 0 \in S
  <2> DEFINE upto == [i \in 0 .. 0 |-> <<>>]
  <2>1. Collected(upto, 0, lines, places)
    BY DEF Collected
  <2> HIDE DEF upto
  <2> QED  BY <2>1
<1>2. ASSUME NEW n \in 1 .. m, n - 1 \in S PROVE n \in S
  <2>1. PICK upto : Collected(upto, n - 1, lines, places)
    BY <1>2
  <2> DEFINE Further(f, i) == IF i = 0 THEN <<>> ELSE IF i \in places THEN Append(f[i - 1], lines[i]) ELSE f[i - 1]
             more == [i \in 0 .. n |-> IF i = n THEN Further(upto, n) ELSE upto[i]]
  <2>2. ASSUME NEW i \in 0 .. n PROVE more[i] = Further(more, i)
    <3>1. i # 0 => i - 1 \in 0 .. n - 1 /\ i - 1 \in 0 .. n /\ i - 1 # n
      OBVIOUS
    <3>2. i # 0 => more[i - 1] = upto[i - 1]
      BY <3>1
    <3>3. CASE i = n
      <4>1. more[i] = Further(upto, n) /\ i # 0
        BY <3>3
      <4> HIDE DEF more
      <4> QED  BY <3>2, <3>3, <4>1
    <3>4. CASE i # n
      <4>1. i \in 0 .. n - 1 /\ more[i] = upto[i]
        BY <3>4
      <4>2. upto[i] = Further(upto, i)
        BY <2>1, <4>1 DEF Collected
      <4> HIDE DEF more
      <4> QED  BY <3>2, <4>1, <4>2
    <3> QED  BY <3>3, <3>4
  <2>3. DOMAIN more = 0 .. n /\ more = [i \in DOMAIN more |-> more[i]]
    OBVIOUS
  <2> HIDE DEF more
  <2>4. Collected(more, n, lines, places)
    <3>1. more = [i \in 0 .. n |-> Further(more, i)]
      <4> HIDE DEF Further
      <4> QED  BY <2>2, <2>3
    <3> QED  BY <3>1 DEF Collected
  <2> QED  BY <2>4
<1> HIDE DEF S
<1>3. 0 .. m \subseteq S
  BY <1>1, <1>2, BoundedInduction
<1> QED  BY <1>3 DEF S

\* A line at a place stands in what is collected at the place's rank.
Picks(lines, places, out) ==
  /\ Sequential(out) /\ Len(out) = Rank(places, Len(lines))
  /\ \A i \in places : out[Rank(places, i)] = lines[i]

LEMMA Collecting ==
  ASSUME NEW lines, Sequential(lines), NEW places, places \subseteq DOMAIN lines,
         NEW upto, Collected(upto, Len(lines), lines, places)
  PROVE  Picks(lines, places, upto[Len(lines)])
<1>1. PICK T : lines \in Seq(T)
  BY DEF Sequential
<1> DEFINE m == Len(lines)
<1>2. m \in Nat /\ DOMAIN lines = 1 .. m /\ \A i \in 1 .. m : lines[i] \in T
  BY <1>1, LenProperties, ElementOfSeq
<1>3. places \subseteq 1 .. m
  BY <1>2
<1> HIDE DEF m
<1> DEFINE S == {n \in Nat : n \in 0 .. m => /\ upto[n] \in Seq(T) /\ Len(upto[n]) = Rank(places, n)
                                              /\ \A i \in places : i <= n => upto[n][Rank(places, i)] = lines[i]}
<1>4. \A n \in 0 .. m : upto[n] = IF n = 0 THEN <<>> ELSE IF n \in places THEN Append(upto[n - 1], lines[n]) ELSE upto[n - 1]
  BY <1>2 DEF Collected, m
<1>5. 0 \in S
  <2>1. 0 \in 0 .. m
    BY <1>2
  <2>2. upto[0] = <<>>
    BY <1>4, <2>1
  <2>3. \A i \in places : ~ (i <= 0)
    BY <1>2, <1>3
  <2>4. Rank(places, 0) = 0
    BY <1>2, <1>3, RankSteps
  <2>5. <<>> \in Seq(T) /\ Len(<<>>) = 0
    BY EmptySeq
  <2>6. upto[0] \in Seq(T) /\ Len(upto[0]) = Rank(places, 0)
    BY <2>2, <2>4, <2>5
  <2>7. \A i \in places : i <= 0 => upto[0][Rank(places, i)] = lines[i]
    BY <2>3
  <2> QED  BY <2>6, <2>7
<1>6. ASSUME NEW n \in 1 .. m, n - 1 \in S PROVE n \in S
  <2>1. n - 1 \in 0 .. m /\ n \in 0 .. m /\ n # 0
    BY <1>2
  <2>2. /\ upto[n - 1] \in Seq(T) /\ Len(upto[n - 1]) = Rank(places, n - 1)
        /\ \A i \in places : i <= n - 1 => upto[n - 1][Rank(places, i)] = lines[i]
    BY <1>6, <2>1
  <2>3. /\ Rank(places, n - 1) \in Nat
        /\ Rank(places, n) = IF n \in places THEN Rank(places, n - 1) + 1 ELSE Rank(places, n - 1)
        /\ \A i \in places : i <= n - 1 => Rank(places, i) \in 1 .. Rank(places, n - 1)
    <3>1. \A i \in 0 .. m : Rank(places, i) \in Nat
      BY <1>2, <1>3, RankSteps
    <3>2. ASSUME NEW i \in places, i <= n - 1 PROVE Rank(places, i) \in 1 .. Rank(places, n - 1)
      <4>1. i \in 1 .. m /\ i - 1 \in 0 .. m /\ i \in 0 .. m
        BY <1>2, <1>3
      <4>2. Rank(places, i) = Rank(places, i - 1) + 1
        BY <1>2, <1>3, <4>1, RankSteps
      <4>3. Rank(places, i) <= Rank(places, n - 1)
        BY <1>2, <1>3, <2>1, <3>2, <4>1, RankGrows
      <4> QED  BY <2>1, <3>1, <4>1, <4>2, <4>3
    <3> QED  BY <1>2, <1>3, <2>1, <3>1, <3>2, RankSteps
  <2>4. CASE n \notin places
    <3>1. upto[n] = upto[n - 1]
      BY <1>4, <2>1, <2>4
    <3>2. \A i \in places : i <= n => i <= n - 1
      BY <1>3, <2>4
    <3> QED  BY <2>2, <2>3, <2>4, <3>1, <3>2
  <2>5. CASE n \in places
    <3>1. upto[n] = Append(upto[n - 1], lines[n])
      BY <1>4, <2>1, <2>5
    <3>2. /\ upto[n] \in Seq(T) /\ Len(upto[n]) = Len(upto[n - 1]) + 1
          /\ \A i \in 1 .. Len(upto[n - 1]) : upto[n][i] = upto[n - 1][i]
          /\ upto[n][Len(upto[n - 1]) + 1] = lines[n]
      BY <1>2, <2>2, <3>1, AppendProperties
    <3>3. ASSUME NEW i \in places, i <= n PROVE upto[n][Rank(places, i)] = lines[i]
      <4>1. CASE i = n
        BY <2>2, <2>3, <2>5, <3>2, <4>1
      <4>2. CASE i # n
        <5>1. i <= n - 1
          BY <1>3, <3>3, <4>2
        <5> QED  BY <2>2, <2>3, <3>2, <5>1
      <4> QED  BY <4>1, <4>2
    <3> QED  BY <2>2, <2>3, <2>5, <3>2, <3>3
  <2> QED  BY <2>4, <2>5
<1> HIDE DEF S
<1>7. 0 .. m \subseteq S
  BY <1>2, <1>5, <1>6, BoundedInduction
<1>8. m \in S /\ m \in 0 .. m
  BY <1>2, <1>7
<1>9. \A i \in places : i <= m
  BY <1>2, <1>3
<1> QED  BY <1>8, <1>9 DEF Picks, Sequential, S, m

Stays(lines, section, package) ==
  {i \in DOMAIN lines : ~ (lines[i].k = "entry" /\ lines[i].key = package /\ SectionOf(lines, i) = section)}
Comments(lines) == {i \in DOMAIN lines : lines[i].k = "comment"}

LEMMA LinesThatPicks ==
  ASSUME NEW lines, Sequential(lines), NEW places, places \subseteq DOMAIN lines,
         NEW stay, \A i \in DOMAIN lines : stay[i] <=> i \in places
  PROVE  Picks(lines, places, LinesThat(lines, stay))
<1> DEFINE m == Len(lines)
           Loop(upto) == upto = [i \in 0 .. m |-> IF i = 0 THEN <<>>
                                                  ELSE IF stay[i] THEN Append(upto[i - 1], lines[i]) ELSE upto[i - 1]]
           run == CHOOSE upto : Loop(upto)
<1>1. m \in Nat /\ DOMAIN lines = 1 .. m
  BY LenProperties DEF Sequential
<1>2. LinesThat(lines, stay) = run[m]
  BY DEF LinesThat
<1>3. ASSUME NEW upto PROVE Loop(upto) <=> Collected(upto, m, lines, places)
  <2>1. \A i \in 0 .. m : i # 0 => (stay[i] <=> i \in places)
    BY <1>1
  <2>2. [i \in 0 .. m |-> IF i = 0 THEN <<>> ELSE IF stay[i] THEN Append(upto[i - 1], lines[i]) ELSE upto[i - 1]]
        = [i \in 0 .. m |-> IF i = 0 THEN <<>> ELSE IF i \in places THEN Append(upto[i - 1], lines[i]) ELSE upto[i - 1]]
    BY <2>1
  <2> QED  BY <2>2, Zenon DEF Collected
<1>4. \E upto : Loop(upto)
  <2> HIDE DEF Loop
  <2> QED  BY <1>1, <1>3, CollectingEnds
<1>5. Loop(run)
  <2> HIDE DEF Loop
  <2> QED  BY <1>4
<1> HIDE DEF Loop, run
<1> QED  BY <1>2, <1>3, <1>5, Collecting

\* What remove_dependency_from_section makes of the lines.
LEMMA RemovePicks ==
  ASSUME NEW lines, Sequential(lines), NEW section, NEW package
  PROVE  Picks(lines, Stays(lines, section, package), remove_dependency_from_section(lines, section, package))
  BY LinesThatPicks DEF Stays, remove_dependency_from_section

LEMMA KeptPicks ==
  ASSUME NEW lines, Sequential(lines)
  PROVE  Picks(lines, Comments(lines), Kept(lines))
  BY LinesThatPicks DEF Comments, Kept

-----------------------------------------------------------------------------
(* Lines carried over by an edit *)

LEMMA Numbered ==
  ASSUME NEW lines, Sequential(lines)
  PROVE  Len(lines) \in Nat /\ DOMAIN lines = 1 .. Len(lines)
  BY LenProperties DEF Sequential

\* The places the edit has filled with new lines.
Fresh(is, places, to) == DOMAIN is \ {to[i] : i \in places}

\* An edit carries the lines at some places over, in their order; others than entries always.
\* What is new is a header, an entry or blank, and a new header is the last.
Carries(was, is, places, to) ==
  /\ Sequential(was) /\ Sequential(is)
  /\ places \subseteq DOMAIN was /\ to \in [places -> DOMAIN is]
  /\ \A i, j \in places : i < j => to[i] < to[j]
  /\ \A i \in places : is[to[i]] = was[i]
  /\ \A i \in DOMAIN was : i \notin places => was[i].k = "entry"
  /\ \A h \in Fresh(is, places, to) :
       is[h].k \in Readable /\ (IsHeader(is[h]) => \A i \in places : to[i] < h)

\* The sections of the header a line is under.
Above(lines, i) == {lines[j].section : j \in HeaderOver(lines, i)}

LEMMA InOrder ==
  ASSUME NEW was, NEW is, NEW places, NEW to, Carries(was, is, places, to)
  PROVE  /\ \A i \in places : i \in DOMAIN was /\ i \in Int /\ to[i] \in DOMAIN is /\ to[i] \in Int
         /\ \A i, j \in places : (to[i] < to[j] <=> i < j) /\ (to[i] <= to[j] <=> i <= j) /\ (to[i] = to[j] <=> i = j)
<1>1. Len(was) \in Nat /\ DOMAIN was = 1 .. Len(was) /\ Len(is) \in Nat /\ DOMAIN is = 1 .. Len(is)
  BY Numbered DEF Carries
<1>2. \A i \in places : i \in DOMAIN was /\ i \in Int /\ to[i] \in DOMAIN is /\ to[i] \in Int
  BY <1>1 DEF Carries
<1>3. \A i, j \in places : i < j => to[i] < to[j]
  BY DEF Carries
<1>4. ASSUME NEW i \in places, NEW j \in places
      PROVE  (to[i] < to[j] <=> i < j) /\ (to[i] <= to[j] <=> i <= j) /\ (to[i] = to[j] <=> i = j)
  <2>1. i \in Int /\ j \in Int /\ to[i] \in Int /\ to[j] \in Int
    BY <1>2
  <2>2. i < j \/ i = j \/ j < i
    BY <2>1
  <2> QED  BY <1>3, <2>1, <2>2
<1> QED  BY <1>2, <1>4

\* A line carried over is under the header it was under.
LEMMA HeadersCarried ==
  ASSUME NEW was, NEW is, NEW places, NEW to, Carries(was, is, places, to), NEW i \in places
  PROVE  /\ HeaderOver(was, i) \subseteq places
         /\ HeaderOver(is, to[i]) = {to[j] : j \in HeaderOver(was, i)}
         /\ Above(is, to[i]) = Above(was, i)
<1>1. Len(was) \in Nat /\ DOMAIN was = 1 .. Len(was) /\ Len(is) \in Nat /\ DOMAIN is = 1 .. Len(is)
  BY Numbered DEF Carries
<1>2. /\ \A j \in places : is[to[j]] = was[j]
      /\ \A j \in DOMAIN was : j \notin places => was[j].k = "entry"
      /\ \A h \in Fresh(is, places, to) : IsHeader(is[h]) => \A j \in places : to[j] < h
  BY DEF Carries
<1>3. \A j \in DOMAIN was : IsHeader(was[j]) => j \in places
  BY <1>2 DEF IsHeader
<1>4. \A h \in DOMAIN is : IsHeader(is[h]) /\ h <= to[i] => \E j \in places : h = to[j]
  <2>1. SUFFICES ASSUME NEW h \in DOMAIN is, IsHeader(is[h]), h <= to[i] PROVE \E j \in places : h = to[j]
    OBVIOUS
  <2>2. CASE h \in Fresh(is, places, to)
    <3>1. to[i] < h
      BY <1>2, <2>1, <2>2
    <3>2. to[i] \in Int /\ h \in Int
      BY <1>1, InOrder
    <3> QED  BY <2>1, <3>1, <3>2
  <2> QED  BY <2>2 DEF Fresh
<1>5. i \in 1 .. Len(was) /\ to[i] \in 1 .. Len(is)
  BY <1>1, InOrder
<1>6. HeaderOver(was, i) \subseteq places
  BY <1>1, <1>3, <1>5 DEF HeaderOver
<1>7. ASSUME NEW j \in HeaderOver(was, i) PROVE to[j] \in HeaderOver(is, to[i])
  <2>1. j \in places /\ j \in 1 .. i /\ IsHeader(was[j]) /\ \A k \in j + 1 .. i : ~ IsHeader(was[k])
    BY <1>6 DEF HeaderOver
  <2>2. to[j] \in 1 .. to[i] /\ IsHeader(is[to[j]])
    <3>1. to[j] <= to[i] /\ to[j] \in DOMAIN is
      BY <2>1, InOrder
    <3> QED  BY <1>1, <1>2, <1>5, <2>1, <3>1
  <2>3. ASSUME NEW h \in to[j] + 1 .. to[i], IsHeader(is[h]) PROVE FALSE
    <3>1. to[j] \in Int /\ to[i] \in Int /\ h \in DOMAIN is /\ h <= to[i] /\ to[j] < h
      BY <1>1, <1>5, <2>2
    <3>2. PICK k \in places : h = to[k]
      BY <1>4, <2>3, <3>1
    <3>3. j < k /\ k <= i /\ k \in Int /\ j \in Int /\ i \in Int
      BY <2>1, <3>1, <3>2, InOrder
    <3>4. k \in j + 1 .. i
      BY <3>3
    <3>5. IsHeader(was[k])
      BY <1>2, <2>3, <3>2
    <3> QED  BY <2>1, <3>4, <3>5
  <2> QED  BY <2>2, <2>3 DEF HeaderOver
<1>8. ASSUME NEW h \in HeaderOver(is, to[i]) PROVE \E j \in HeaderOver(was, i) : h = to[j]
  <2>1. h \in 1 .. to[i] /\ IsHeader(is[h]) /\ \A k \in h + 1 .. to[i] : ~ IsHeader(is[k])
    BY DEF HeaderOver
  <2>2. h \in DOMAIN is /\ h <= to[i] /\ h \in Int
    BY <1>1, <1>5, <2>1
  <2>3. PICK j \in places : h = to[j]
    BY <1>4, <2>1, <2>2
  <2>4. j <= i /\ j \in 1 .. Len(was) /\ IsHeader(was[j])
    BY <1>1, <1>2, <2>1, <2>2, <2>3, InOrder
  <2>5. ASSUME NEW k \in j + 1 .. i, IsHeader(was[k]) PROVE FALSE
    <3>1. k \in DOMAIN was /\ j < k /\ k <= i
      BY <1>1, <1>5, <2>4
    <3>2. k \in places
      BY <1>3, <2>5, <3>1
    <3>3. to[j] < to[k] /\ to[k] <= to[i] /\ to[j] \in Int /\ to[k] \in Int /\ to[i] \in Int
      BY <2>3, <3>1, <3>2, InOrder
    <3>4. to[k] \in h + 1 .. to[i]
      BY <2>3, <3>3
    <3>5. IsHeader(is[to[k]])
      BY <1>2, <2>5, <3>2
    <3> QED  BY <2>1, <3>4, <3>5
  <2>6. j \in 1 .. i
    BY <1>5, <2>4
  <2> QED  BY <2>3, <2>4, <2>5, <2>6 DEF HeaderOver
<1>9. HeaderOver(is, to[i]) = {to[j] : j \in HeaderOver(was, i)}
  BY <1>7, <1>8
<1>10. Above(is, to[i]) = Above(was, i)
  <2>1. \A j \in HeaderOver(was, i) : is[to[j]] = was[j]
    BY <1>2, <1>6
  <2> QED  BY <1>9, <2>1 DEF Above
<1> QED  BY <1>6, <1>9, <1>10

\* Two sets that an increasing function pairs have as many elements.
LEMMA PairedSizes ==
  ASSUME NEW S, IsFiniteSet(S), NEW T, NEW to, \A i \in S : to[i] \in T, \A i, j \in S : to[i] = to[j] => i = j,
         \A h \in T : \E i \in S : h = to[i]
  PROVE  Cardinality(T) = Cardinality(S)
<1> DEFINE f == [i \in S |-> to[i]]
<1>1. f \in Bijection(S, T)
  BY DEF Bijection, Injection, Surjection, IsInjective
<1>2. ExistsBijection(S, T)
  <2> HIDE DEF f
  <2> QED  BY <1>1 DEF ExistsBijection
<1> QED  BY <1>2, FS_Bijection

\* The comments are as they were.
LEMMA CommentsCarried ==
  ASSUME NEW was, NEW is, NEW places, NEW to, Carries(was, is, places, to)
  PROVE  Kept(is) = Kept(was)
<1> DEFINE P == Comments(was)
           Q == Comments(is)
<1>1. /\ Sequential(was) /\ Len(was) \in Nat /\ DOMAIN was = 1 .. Len(was)
      /\ Sequential(is) /\ Len(is) \in Nat /\ DOMAIN is = 1 .. Len(is)
  BY Numbered DEF Carries
<1>2. P \subseteq 1 .. Len(was) /\ Q \subseteq 1 .. Len(is)
  BY <1>1 DEF Comments
<1>3. /\ Picks(was, P, Kept(was)) /\ Picks(is, Q, Kept(is))
  BY <1>1, KeptPicks
<1>4. \A i \in P : i \in places /\ to[i] \in Q /\ is[to[i]] = was[i] /\ i \in Int
  BY <1>1 DEF Carries, Comments
<1>5. \A h \in Q : \E i \in P : h = to[i]
  <2>1. SUFFICES ASSUME NEW h \in Q PROVE \E i \in P : h = to[i]
    OBVIOUS
  <2>2. h \in DOMAIN is /\ is[h].k = "comment"
    BY DEF Comments
  <2>3. PICK i \in places : h = to[i]
    BY <2>2 DEF Carries, Fresh, Readable
  <2>4. i \in P
    BY <2>2, <2>3 DEF Carries, Comments
  <2> QED  BY <2>3, <2>4
<1>6. IsFiniteSet(P)
  <2>1. IsFiniteSet(1 .. Len(was))
    BY <1>1, FS_Interval
  <2> QED  BY <1>2, <2>1, FS_Subset
<1> HIDE DEF P, Q
<1>7. ASSUME NEW i \in P PROVE Rank(Q, to[i]) = Rank(P, i)
  <2> DEFINE S == {j \in P : j <= i}
             T == {h \in Q : h <= to[i]}
  <2>1. \A j \in P : to[j] <= to[i] <=> j <= i
    BY <1>4, InOrder
  <2>2. \A j, k \in P : to[j] = to[k] => j = k
    BY <1>4, InOrder
  <2>3. IsFiniteSet(S)
    BY <1>6, FS_Subset
  <2>4. \A j \in S : to[j] \in T
    BY <1>4, <2>1
  <2>5. \A h \in T : \E j \in S : h = to[j]
    BY <1>5, <2>1
  <2>6. \A j, k \in S : to[j] = to[k] => j = k
    BY <2>2
  <2> HIDE DEF S, T
  <2>7. Cardinality(T) = Cardinality(S)
    BY <2>3, <2>4, <2>5, <2>6, PairedSizes
  <2> QED  BY <2>7 DEF Rank, S, T
<1>8. Len(Kept(is)) = Len(Kept(was))
  <2>1. {j \in P : j <= Len(was)} = P /\ {h \in Q : h <= Len(is)} = Q
    <3>1. (\A j \in P : j <= Len(was)) /\ (\A h \in Q : h <= Len(is))
      BY <1>1, <1>2
    <3> QED  BY <3>1
  <2>2. \A j, k \in P : to[j] = to[k] => j = k
    BY <1>4, InOrder
  <2>3. Cardinality(Q) = Cardinality(P)
    BY <1>4, <1>5, <1>6, <2>2, PairedSizes
  <2> QED  BY <1>3, <2>1, <2>3 DEF Picks, Rank
<1>9. ASSUME NEW n \in 1 .. Len(Kept(was)) PROVE Kept(is)[n] = Kept(was)[n]
  <2>1. n \in 1 .. Rank(P, Len(was))
    BY <1>3 DEF Picks
  <2>2. \A k \in 1 .. Rank(P, Len(was)) : \E i \in P : Rank(P, i) = k
    <3>1. Len(was) \in Nat /\ P \subseteq 1 .. Len(was)
      BY <1>1, <1>2
    <3> QED  BY <3>1, RankReaches, Zenon
  <2>3. PICK i \in P : Rank(P, i) = n
    BY <2>1, <2>2
  <2>4. Kept(was)[n] = was[i] /\ Kept(is)[Rank(Q, to[i])] = is[to[i]]
    BY <1>3, <1>4, <2>3 DEF Picks
  <2> QED  BY <1>4, <1>7, <2>3, <2>4
<1>10. PICK A : Kept(was) \in Seq(A)
  BY <1>3 DEF Picks, Sequential
<1>11. PICK B : Kept(is) \in Seq(B)
  BY <1>3 DEF Picks, Sequential
<1> DEFINE C == A \cup B
<1>12. Kept(was) \in Seq(C) /\ Kept(is) \in Seq(C)
  BY <1>10, <1>11, SeqMonotonic
<1> HIDE DEF C
<1> QED  BY <1>8, <1>9, <1>12, SeqEqual

Entries(lines) == {i \in DOMAIN lines : lines[i].k = "entry"}
Row(lines, i) == <<Above(lines, i), lines[i].key, lines[i].value>>

LEMMA TableRows == \A lines : Table(lines) = {Row(lines, i) : i \in Entries(lines)}
  BY DEF Table, Row, Entries, Above

\* A line of the new text is one that was carried over, with its row, or a fresh one.
LEMMA OldOrFresh ==
  ASSUME NEW was, NEW is, NEW places, NEW to, Carries(was, is, places, to)
  PROVE  /\ \A h \in DOMAIN is : h \in Fresh(is, places, to) \/ \E i \in places : h = to[i]
         /\ \A i \in places : is[to[i]] = was[i] /\ Above(is, to[i]) = Above(was, i) /\ Row(is, to[i]) = Row(was, i)
         /\ \A i \in places : i \in Entries(was) <=> to[i] \in Entries(is)
<1>1. \A h \in DOMAIN is : h \in Fresh(is, places, to) \/ \E i \in places : h = to[i]
  BY DEF Fresh
<1>2. \A i \in places : is[to[i]] = was[i] /\ i \in DOMAIN was /\ to[i] \in DOMAIN is
  BY DEF Carries
<1>3. \A i \in places : Above(is, to[i]) = Above(was, i)
  BY HeadersCarried
<1> QED  BY <1>1, <1>2, <1>3 DEF Row, Entries

\* The new text is a table file if the old one is and what is fresh is not there yet.
LEMMA TomlCarried ==
  ASSUME NEW was, NEW is, NEW places, NEW to, Carries(was, is, places, to), IsToml(was),
         \A g, h \in Fresh(is, places, to) : g # h => ~ (IsHeader(is[g]) /\ IsHeader(is[h])),
         \A g, h \in Fresh(is, places, to) : g # h => ~ (is[g].k = "entry" /\ is[h].k = "entry"),
         \A h \in Fresh(is, places, to) : IsHeader(is[h]) => \A i \in DOMAIN was : was[i] # is[h],
         \A h \in Fresh(is, places, to) : is[h].k = "entry" =>
           \A i \in places : was[i].k = "entry" /\ was[i].key = is[h].key => Above(was, i) # Above(is, h),
         \A h \in Fresh(is, places, to) : is[h] # Torn
  PROVE  IsToml(is)
<1> DEFINE new == Fresh(is, places, to)
<1>1. /\ \A h \in DOMAIN is : h \in new \/ \E i \in places : h = to[i]
      /\ \A i \in places : is[to[i]] = was[i] /\ i \in DOMAIN was /\ to[i] \in DOMAIN is
      /\ \A i, j \in places : to[i] = to[j] <=> i = j
  BY OldOrFresh, InOrder
<1>2. ASSUME NEW h \in DOMAIN is, NEW g \in DOMAIN is, h # g, is[h] = is[g]
      PROVE  is[h].k \notin {"header"} \/ is[h].section = Bins
  <2>1. SUFFICES ASSUME is[h].k = "header" PROVE is[h].section = Bins
    OBVIOUS
  <2>2. IsHeader(is[h]) /\ IsHeader(is[g])
    BY <1>2, <2>1 DEF IsHeader
  <2>3. h \notin new /\ g \notin new
    <3>1. ~ (h \in new /\ g \in new)
      BY <1>2, <2>2
    <3>2. ASSUME h \in new, g \notin new PROVE FALSE
      <4>1. PICK i \in places : g = to[i]
        BY <1>1, <3>2
      <4> QED  BY <1>1, <1>2, <2>2, <3>2, <4>1
    <3>3. ASSUME g \in new, h \notin new PROVE FALSE
      <4>1. PICK i \in places : h = to[i]
        BY <1>1, <3>3
      <4> QED  BY <1>1, <1>2, <2>2, <3>3, <4>1
    <3> QED  BY <3>1, <3>2, <3>3
  <2>4. PICK i \in places, j \in places : h = to[i] /\ g = to[j]
    BY <1>1, <2>3
  <2>5. i # j /\ was[i] = was[j] /\ was[i] = is[h]
    BY <1>1, <1>2, <2>4
  <2>6. i \in DOMAIN was /\ j \in DOMAIN was /\ was[i].k = "header"
    BY <1>1, <2>1, <2>5
  <2>7. was[i].k \notin {"header"} \/ was[i].section = Bins
    BY <2>5, <2>6 DEF IsToml
  <2> QED  BY <2>5, <2>6, <2>7
<1>3. ASSUME NEW h \in DOMAIN is, NEW g \in DOMAIN is, h # g, is[h].k = "entry", is[g].k = "entry", is[h].key = is[g].key
      PROVE  HeaderOver(is, h) # HeaderOver(is, g)
  <2>1. ASSUME NEW i \in places, NEW q \in new, is[q].k = "entry", was[i].k = "entry", was[i].key = is[q].key
        PROVE  HeaderOver(is, to[i]) # HeaderOver(is, q)
    <3>1. Above(was, i) # Above(is, q)
      BY <2>1
    <3>2. Above(is, to[i]) = Above(was, i)
      BY OldOrFresh
    <3>3. HeaderOver(is, to[i]) = HeaderOver(is, q) => Above(is, to[i]) = Above(is, q)
      BY DEF Above
    <3> QED  BY <3>1, <3>2, <3>3
  <2>2. CASE h \in new
    <3>1. g \notin new
      BY <1>3, <2>2
    <3>2. PICK i \in places : g = to[i]
      BY <1>1, <3>1
    <3> QED  BY <1>1, <1>3, <2>1, <2>2, <3>2
  <2>3. CASE h \notin new
    <3>1. PICK i \in places : h = to[i]
      BY <1>1, <2>3
    <3>2. CASE g \in new
      BY <1>1, <1>3, <2>1, <3>1, <3>2
    <3>3. CASE g \notin new
      <4>1. PICK j \in places : g = to[j]
        BY <1>1, <3>3
      <4>2. i # j /\ was[i].k = "entry" /\ was[j].k = "entry" /\ was[i].key = was[j].key
        BY <1>1, <1>3, <3>1, <4>1
      <4>3. HeaderOver(was, i) # HeaderOver(was, j)
        BY <1>1, <4>2 DEF IsToml
      <4>4. /\ HeaderOver(was, i) \subseteq places /\ HeaderOver(is, to[i]) = {to[x] : x \in HeaderOver(was, i)}
            /\ HeaderOver(was, j) \subseteq places /\ HeaderOver(is, to[j]) = {to[x] : x \in HeaderOver(was, j)}
        BY HeadersCarried
      <4>5. ASSUME {to[x] : x \in HeaderOver(was, i)} = {to[x] : x \in HeaderOver(was, j)} PROVE FALSE
        <5>1. ASSUME NEW x \in HeaderOver(was, i) PROVE x \in HeaderOver(was, j)
          <6>1. to[x] \in {to[y] : y \in HeaderOver(was, j)}
            BY <4>5
          <6>2. PICK y \in HeaderOver(was, j) : to[x] = to[y]
            BY <6>1
          <6> QED  BY <1>1, <4>4, <6>2
        <5>2. ASSUME NEW x \in HeaderOver(was, j) PROVE x \in HeaderOver(was, i)
          <6>1. to[x] \in {to[y] : y \in HeaderOver(was, i)}
            BY <4>5
          <6>2. PICK y \in HeaderOver(was, i) : to[x] = to[y]
            BY <6>1
          <6> QED  BY <1>1, <4>4, <6>2
        <5> QED  BY <4>3, <5>1, <5>2
      <4> QED  BY <3>1, <4>1, <4>4, <4>5
    <3> QED  BY <3>2, <3>3
  <2> QED  BY <2>2, <2>3
<1>4. Torn \notin ToSet(is)
  <2>1. \A i \in DOMAIN was : was[i] # Torn
    BY DEF IsToml, ToSet
  <2>2. \A h \in DOMAIN is : is[h] # Torn
    BY <1>1, <2>1
  <2> QED  BY <2>2 DEF ToSet
<1> HIDE DEF new
<1> QED  BY <1>2, <1>3, <1>4 DEF IsToml

\* izelc deps reads the new text if it read the old one.
LEMMA ParsesAsBefore ==
  ASSUME NEW was, NEW is, NEW places, NEW to, Carries(was, is, places, to),
         \A h \in Fresh(is, places, to) : is[h] # Header(Bins)
  PROVE  parse_manifest(is).ok = parse_manifest(was).ok
<1> DEFINE Unread(lines) == \E i \in DOMAIN lines : lines[i].k \notin Readable \/ lines[i] = Header(Bins)
<1>1. \A lines : parse_manifest(lines).ok = ~ Unread(lines)
  BY DEF parse_manifest
<1>2. "entry" \in Readable /\ Header(Bins).k = "header"
  BY DEF Readable, Header
<1>3. /\ \A h \in Fresh(is, places, to) : is[h].k \in Readable
      /\ \A i \in DOMAIN was : i \notin places => was[i].k = "entry"
      /\ \A i \in places : is[to[i]] = was[i] /\ i \in DOMAIN was /\ to[i] \in DOMAIN is
      /\ \A h \in DOMAIN is : h \in Fresh(is, places, to) \/ \E i \in places : h = to[i]
  BY OldOrFresh DEF Carries
<1>4. Unread(is) => Unread(was)
  <2>1. SUFFICES ASSUME NEW h \in DOMAIN is, is[h].k \notin Readable \/ is[h] = Header(Bins) PROVE Unread(was)
    OBVIOUS
  <2>2. h \notin Fresh(is, places, to)
    BY <1>2, <1>3, <2>1
  <2>3. PICK i \in places : h = to[i]
    BY <1>3, <2>2
  <2> QED  BY <1>3, <2>1, <2>3
<1>5. Unread(was) => Unread(is)
  <2>1. SUFFICES ASSUME NEW i \in DOMAIN was, was[i].k \notin Readable \/ was[i] = Header(Bins) PROVE Unread(is)
    OBVIOUS
  <2>2. i \in places
    BY <1>2, <1>3, <2>1
  <2> QED  BY <1>3, <2>1, <2>2
<1> HIDE DEF Unread
<1> QED  BY <1>1, <1>4, <1>5

-----------------------------------------------------------------------------
(* Sections *)

LEMMA LeastPlace ==
  ASSUME NEW S, S \subseteq Nat, S # {}
  PROVE  Min(S) \in S /\ \A i \in S : Min(S) <= i
<1>1. \E n \in S : \A i \in S : n <= i
  BY LeastNatural
<1> QED  BY <1>1 DEF Min

LEMMA GreatestPlace ==
  ASSUME NEW m \in Nat, NEW S, S \subseteq 1 .. m, S # {}
  PROVE  Max(S) \in S /\ \A i \in S : i <= Max(S)
<1> DEFINE T == {m - i : i \in S}
<1>1. \A i \in S : i \in 1 .. m /\ m - i \in Nat /\ m - (m - i) = i
  OBVIOUS
<1>2. T \subseteq Nat /\ T # {}
  BY <1>1
<1> HIDE DEF T
<1>3. PICK n \in T : \A k \in T : n <= k
  BY <1>2, LeastNatural
<1>4. PICK i \in S : n = m - i
  BY <1>3 DEF T
<1>5. \A k \in S : i >= k
  <2>1. \A k \in S : m - i <= m - k
    BY <1>3, <1>4 DEF T
  <2> QED  BY <1>1, <2>1
<1>6. \E x \in S : \A k \in S : x >= k
  BY <1>5
<1>7. Max(S) \in S /\ \A k \in S : Max(S) >= k
  BY <1>6 DEF Max
<1> QED  BY <1>1, <1>7

\* A line is under at most one header, the last one up to it.
LEMMA OneHeader ==
  ASSUME NEW lines, Sequential(lines), NEW i \in DOMAIN lines
  PROVE  \/ HeaderOver(lines, i) = {} /\ {j \in 1 .. i : IsHeader(lines[j])} = {}
         \/ \E x \in 1 .. i : /\ HeaderOver(lines, i) = {x} /\ IsHeader(lines[x])
                              /\ Max({j \in 1 .. i : IsHeader(lines[j])}) = x
                              /\ {j \in 1 .. i : IsHeader(lines[j])} # {}
<1> DEFINE S == {j \in 1 .. i : IsHeader(lines[j])}
<1>1. i \in Nat
  BY Numbered
<1>2. CASE S = {}
  BY <1>2 DEF HeaderOver
<1>3. CASE S # {}
  <2> DEFINE x == Max(S)
  <2>1. S \subseteq 1 .. i
    OBVIOUS
  <2> HIDE DEF S
  <2>2. x \in S /\ \A j \in S : j <= x
    BY <1>1, <1>3, <2>1, GreatestPlace
  <2> HIDE DEF x
  <2>3. x \in 1 .. i /\ IsHeader(lines[x])
    BY <2>2 DEF S
  <2>4. x \in HeaderOver(lines, i)
    <3>1. ASSUME NEW k \in x + 1 .. i, IsHeader(lines[k]) PROVE FALSE
      <4>1. k \in 1 .. i /\ x \in Int /\ x < k /\ k \in Int
        BY <1>1, <2>3
      <4>2. k \in S
        BY <3>1, <4>1 DEF S
      <4> QED  BY <2>2, <4>1, <4>2
    <3> QED  BY <2>3, <3>1 DEF HeaderOver
  <2>5. ASSUME NEW j \in HeaderOver(lines, i) PROVE j = x
    <3>1. j \in 1 .. i /\ IsHeader(lines[j]) /\ \A k \in j + 1 .. i : ~ IsHeader(lines[k])
      BY DEF HeaderOver
    <3>2. j \in S
      BY <3>1 DEF S
    <3>3. x \notin j + 1 .. i
      BY <2>3, <3>1
    <3>4. j <= x
      BY <2>2, <3>2
    <3> QED  BY <1>1, <2>3, <3>1, <3>3, <3>4
  <2>6. HeaderOver(lines, i) = {x}
    BY <2>4, <2>5
  <2> QED  BY <1>3, <2>3, <2>6 DEF S, x
<1> QED  BY <1>2, <1>3

\* A line is in the section of the header it is under.
LEMMA SectionsAgree ==
  ASSUME NEW lines, Sequential(lines), NEW i \in DOMAIN lines, NEW section, section # ""
  PROVE  SectionOf(lines, i) = section <=> Above(lines, i) = {section}
<1> DEFINE S == {j \in 1 .. i : IsHeader(lines[j])}
<1>1. SectionOf(lines, i) = IF S = {} THEN "" ELSE lines[Max(S)].section
  BY DEF SectionOf
<1>2. CASE HeaderOver(lines, i) = {} /\ S = {}
  <2>1. Above(lines, i) = {}
    BY <1>2 DEF Above
  <2> QED  BY <1>1, <1>2, <2>1
<1>3. ASSUME NEW x, HeaderOver(lines, i) = {x}, Max(S) = x, S # {}
      PROVE  SectionOf(lines, i) = section <=> Above(lines, i) = {section}
  <2>1. Above(lines, i) = {lines[x].section}
    BY <1>3 DEF Above
  <2>2. SectionOf(lines, i) = lines[x].section
    BY <1>1, <1>3
  <2> HIDE DEF S
  <2> QED  BY <2>1, <2>2
<1> QED  BY <1>2, <1>3, OneHeader

-----------------------------------------------------------------------------
(* izel remove *)

\* What remove_dependency_from_section keeps is carried over and nothing is fresh.
LEMMA RemoveCarries ==
  ASSUME NEW was, Sequential(was), NEW section, NEW package
  PROVE  LET places == Stays(was, section, package)
             is     == remove_dependency_from_section(was, section, package)
         IN \E to : Carries(was, is, places, to) /\ Fresh(is, places, to) = {}
<1> DEFINE places == Stays(was, section, package)
           is     == remove_dependency_from_section(was, section, package)
           to     == [i \in places |-> Rank(places, i)]
<1>1. Picks(was, places, is)
  BY RemovePicks
<1>2. Len(was) \in Nat /\ DOMAIN was = 1 .. Len(was)
  BY Numbered
<1>3. places \subseteq 1 .. Len(was) /\ \A i \in DOMAIN was : i \notin places => was[i].k = "entry"
  BY <1>2 DEF Stays
<1> HIDE DEF places, is
<1>4. Sequential(is) /\ Len(is) = Rank(places, Len(was)) /\ \A i \in places : is[Rank(places, i)] = was[i]
  BY <1>1 DEF Picks
<1>5. DOMAIN is = 1 .. Len(is)
  BY <1>4, Numbered
<1>6. /\ \A i \in 0 .. Len(was) : Rank(places, i) \in Nat
      /\ \A i \in 1 .. Len(was) : Rank(places, i) = IF i \in places THEN Rank(places, i - 1) + 1 ELSE Rank(places, i - 1)
  BY <1>2, <1>3, RankSteps
<1>7. /\ \A i, j \in 0 .. Len(was) : i <= j => Rank(places, i) <= Rank(places, j)
      /\ \A i, j \in places : i < j => Rank(places, i) < Rank(places, j)
  BY <1>2, <1>3, RankGrows
<1>8. ASSUME NEW i \in places PROVE Rank(places, i) \in DOMAIN is
  <2>1. i \in 1 .. Len(was) /\ i - 1 \in 0 .. Len(was) /\ i \in 0 .. Len(was) /\ Len(was) \in 0 .. Len(was) /\ i <= Len(was)
    BY <1>2, <1>3
  <2>2. Rank(places, i) = Rank(places, i - 1) + 1 /\ Rank(places, i - 1) \in Nat /\ Rank(places, i) \in Nat
    BY <1>6, <2>1
  <2>3. Rank(places, i) <= Len(is)
    BY <1>4, <1>7, <2>1
  <2>4. Len(is) \in Nat
    BY <1>4, <1>6, <2>1
  <2> QED  BY <1>5, <2>2, <2>3, <2>4
<1>9. to \in [places -> DOMAIN is] /\ \A i \in places : to[i] = Rank(places, i)
  BY <1>8
<1>10. Fresh(is, places, to) = {}
  <2>1. \A n \in 1 .. Rank(places, Len(was)) : \E i \in places : Rank(places, i) = n
    BY <1>2, <1>3, RankReaches
  <2>2. \A n \in DOMAIN is : \E i \in places : to[i] = n
    BY <1>4, <1>5, <1>9, <2>1
  <2> HIDE DEF to
  <2> QED  BY <2>2 DEF Fresh
<1> HIDE DEF to
<1>11. Carries(was, is, places, to)
  BY <1>2, <1>3, <1>4, <1>7, <1>9, <1>10 DEF Carries
<1> QED  BY <1>10, <1>11 DEF places, is

\* One section is rid of the package, and the rest is as it was.
LEMMA RemoveDoes ==
  ASSUME NEW was, Sequential(was), NEW section, section # "", NEW package, IsToml(was)
  PROVE  LET is == remove_dependency_from_section(was, section, package)
         IN /\ Sequential(is) /\ IsToml(is) /\ Kept(is) = Kept(was)
            /\ Table(is) = {row \in Table(was) : row[1] # {section} \/ row[2] # package}
            /\ parse_manifest(is).ok = parse_manifest(was).ok
<1> DEFINE places == Stays(was, section, package)
           is     == remove_dependency_from_section(was, section, package)
<1>1. PICK to : Carries(was, is, places, to) /\ Fresh(is, places, to) = {}
  BY RemoveCarries
<1>2. \A i \in Entries(was) : i \in places <=> ~ (was[i].key = package /\ Above(was, i) = {section})
  BY SectionsAgree DEF Stays, Entries
<1> HIDE DEF places, is
<1>3. Sequential(is) /\ places \subseteq DOMAIN was
  BY <1>1 DEF Carries
<1>4. IsToml(is)
  BY <1>1, TomlCarried
<1>5. Kept(is) = Kept(was)
  BY <1>1, CommentsCarried
<1>6. parse_manifest(is).ok = parse_manifest(was).ok
  BY <1>1, ParsesAsBefore
<1>7. /\ \A h \in DOMAIN is : \E i \in places : h = to[i]
      /\ \A i \in places : Row(is, to[i]) = Row(was, i)
      /\ \A i \in places : i \in Entries(was) <=> to[i] \in Entries(is)
  <2>1. /\ \A h \in DOMAIN is : h \in Fresh(is, places, to) \/ \E i \in places : h = to[i]
        /\ \A i \in places : Row(is, to[i]) = Row(was, i)
        /\ \A i \in places : i \in Entries(was) <=> to[i] \in Entries(is)
    <3>1. Carries(was, is, places, to)
      BY <1>1
    <3>2. /\ \A h \in DOMAIN is : h \in Fresh(is, places, to) \/ \E i \in places : h = to[i]
          /\ \A i \in places : is[to[i]] = was[i] /\ Above(is, to[i]) = Above(was, i) /\ Row(is, to[i]) = Row(was, i)
          /\ \A i \in places : i \in Entries(was) <=> to[i] \in Entries(is)
      BY <3>1, OldOrFresh, Zenon
    <3> QED  BY <3>2
  <2>2. \A h \in DOMAIN is : h \notin Fresh(is, places, to)
    BY <1>1
  <2> QED  BY <2>1, <2>2
<1>8. \A i : Row(was, i)[1] = Above(was, i) /\ Row(was, i)[2] = was[i].key
  BY DEF Row
<1>9. ASSUME NEW row \in Table(is) PROVE row \in Table(was) /\ (row[1] # {section} \/ row[2] # package)
  <2>1. PICK h \in Entries(is) : row = Row(is, h)
    BY TableRows
  <2>2. PICK i \in places : h = to[i]
    BY <1>7, <2>1 DEF Entries
  <2>3. i \in Entries(was) /\ row = Row(was, i)
    BY <1>7, <2>1, <2>2
  <2> QED  BY <1>2, <1>8, <2>2, <2>3, TableRows
<1>10. ASSUME NEW row \in Table(was), row[1] # {section} \/ row[2] # package PROVE row \in Table(is)
  <2>1. PICK i \in Entries(was) : row = Row(was, i)
    BY TableRows
  <2>2. i \in places
    BY <1>2, <1>8, <1>10, <2>1
  <2>3. to[i] \in Entries(is) /\ row = Row(is, to[i])
    BY <1>7, <2>1, <2>2
  <2> QED  BY <2>3, TableRows
<1>11. Table(is) = {row \in Table(was) : row[1] # {section} \/ row[2] # package}
  BY <1>9, <1>10
<1> QED  BY <1>3, <1>4, <1>5, <1>6, <1>11 DEF is

LEMMA Removed ==
  ASSUME NEW was, Sequential(was), IsToml(was), NEW c, c.do = "remove"
  PROVE  LET is == Edited(c, was)
         IN /\ IsToml(is) /\ Kept(is) = Kept(was)
            /\ Table(is) = Wanted(c, Table(was))
            /\ parse_manifest(is).ok = parse_manifest(was).ok
<1> DEFINE half == remove_dependency_from_section(was, "dependencies", c.package)
           is   == remove_dependency_from_section(half, "dev-dependencies", c.package)
<1>1. Edited(c, was) = is
  BY DEF Edited
<1>2. /\ Sequential(half) /\ IsToml(half) /\ Kept(half) = Kept(was)
      /\ Table(half) = {row \in Table(was) : row[1] # {"dependencies"} \/ row[2] # c.package}
      /\ parse_manifest(half).ok = parse_manifest(was).ok
  BY RemoveDoes, "dependencies" # ""
<1> HIDE DEF half
<1>3. /\ IsToml(is) /\ Kept(is) = Kept(half)
      /\ Table(is) = {row \in Table(half) : row[1] # {"dev-dependencies"} \/ row[2] # c.package}
      /\ parse_manifest(is).ok = parse_manifest(half).ok
  <2>1. "dev-dependencies" # ""
    OBVIOUS
  <2>2. Sequential(half) /\ IsToml(half)
    BY <1>2
  <2>3. /\ Sequential(is) /\ IsToml(is) /\ Kept(is) = Kept(half)
        /\ Table(is) = {row \in Table(half) : row[1] # {"dev-dependencies"} \/ row[2] # c.package}
        /\ parse_manifest(is).ok = parse_manifest(half).ok
    BY <2>1, <2>2, RemoveDoes, Zenon
  <2> QED  BY <2>3
<1> HIDE DEF is
<1>4. Wanted(c, Table(was)) =
        {row \in Table(was) : row[1] \notin {{"dependencies"}, {"dev-dependencies"}} \/ row[2] # c.package}
  BY "remove" # "add" DEF Wanted
<1>5. Table(is) = Wanted(c, Table(was))
  BY <1>2, <1>3, <1>4
<1> QED  BY <1>1, <1>2, <1>3, <1>5

-----------------------------------------------------------------------------
(* izel add *)

\* An edit has one fresh entry, in the section, where no other of its key is carried over
\* and only such as these are not; beside it there may be the section's header, if it is new.
Addition(was, is, places, to, q, section, package, value) ==
  /\ Carries(was, is, places, to)
  /\ q \in Fresh(is, places, to) /\ is[q] = Entry(package, value) /\ Above(is, q) = {section}
  /\ \A h \in Fresh(is, places, to) : h = q \/ is[h] = Blank \/ is[h] = Header(section)
  /\ \A g, h \in Fresh(is, places, to) : g # h => ~ (IsHeader(is[g]) /\ IsHeader(is[h]))
  /\ \A h \in Fresh(is, places, to) : IsHeader(is[h]) => \A i \in DOMAIN was : was[i] # Header(section)
  /\ \A i \in places : was[i].k = "entry" /\ was[i].key = package => Above(was, i) # {section}
  /\ \A i \in DOMAIN was : i \notin places => was[i].key = package /\ Above(was, i) = {section}

LEMMA Kinds ==
  \A package, value, section :
    /\ Entry(package, value).k = "entry" /\ Entry(package, value).key = package /\ Entry(package, value).value = value
    /\ Header(section).k = "header" /\ Header(section).section = section
    /\ Blank.k = "blank" /\ Torn.k = "torn"
    /\ ~ IsHeader(Entry(package, value)) /\ ~ IsHeader(Blank) /\ IsHeader(Header(section))
  BY DEF Entry, Header, Blank, Torn, Line, IsHeader

LEMMA AddDoes ==
  ASSUME NEW was, NEW is, NEW places, NEW to, NEW q, NEW section, NEW package, NEW value,
         Addition(was, is, places, to, q, section, package, value), IsToml(was), section # Bins
  PROVE  /\ IsToml(is) /\ Kept(is) = Kept(was)
         /\ Table(is) = {row \in Table(was) : row[1] # {section} \/ row[2] # package}
                          \cup {<<{section}, package, value>>}
         /\ parse_manifest(is).ok = parse_manifest(was).ok
<1> DEFINE new == Fresh(is, places, to)
           entry == Entry(package, value)
<1>1. /\ Carries(was, is, places, to)
      /\ q \in new /\ is[q] = entry /\ Above(is, q) = {section}
      /\ \A h \in new : h = q \/ is[h] = Blank \/ is[h] = Header(section)
      /\ \A g, h \in new : g # h => ~ (IsHeader(is[g]) /\ IsHeader(is[h]))
      /\ \A h \in new : IsHeader(is[h]) => \A i \in DOMAIN was : was[i] # Header(section)
      /\ \A i \in places : was[i].k = "entry" /\ was[i].key = package => Above(was, i) # {section}
      /\ \A i \in DOMAIN was : i \notin places => was[i].key = package /\ Above(was, i) = {section}
  BY Zenon DEF Addition
<1>2. /\ entry.k = "entry" /\ entry.key = package /\ entry.value = value
      /\ Header(section).k = "header" /\ Header(section).section = section
      /\ Blank.k = "blank" /\ Torn.k = "torn"
      /\ ~ IsHeader(entry) /\ ~ IsHeader(Blank) /\ IsHeader(Header(section))
  BY Kinds
<1>3. /\ \A h \in DOMAIN is : h \in new \/ \E i \in places : h = to[i]
      /\ \A i \in places : is[to[i]] = was[i] /\ Above(is, to[i]) = Above(was, i) /\ Row(is, to[i]) = Row(was, i)
      /\ \A i \in places : i \in Entries(was) <=> to[i] \in Entries(is)
  BY <1>1, OldOrFresh, Zenon
<1>4. \A i \in places : i \in DOMAIN was
  BY <1>1 DEF Carries
<1>5. q \in DOMAIN is
  BY <1>1 DEF Fresh
<1> HIDE DEF new, entry
<1>6. \A h \in new : is[h].k = "entry" => h = q
  BY <1>1, <1>2
<1>7. \A h \in new : IsHeader(is[h]) => is[h] = Header(section)
  BY <1>1, <1>2
<1>8. IsToml(is)
  <2>1. \A g, h \in new : g # h => ~ (is[g].k = "entry" /\ is[h].k = "entry")
    BY <1>6
  <2>2. \A h \in new : IsHeader(is[h]) => \A i \in DOMAIN was : was[i] # is[h]
    BY <1>1, <1>7
  <2>3. \A h \in new : is[h].k = "entry" =>
          \A i \in places : was[i].k = "entry" /\ was[i].key = is[h].key => Above(was, i) # Above(is, h)
    BY <1>1, <1>2, <1>6
  <2>4. \A h \in new : is[h] # Torn
    BY <1>1, <1>2
  <2>5. \A g, h \in new : g # h => ~ (IsHeader(is[g]) /\ IsHeader(is[h]))
    BY <1>1
  <2> QED  BY <1>1, <2>1, <2>2, <2>3, <2>4, <2>5, TomlCarried, Zenon DEF new
<1>9. Kept(is) = Kept(was)
  BY <1>1, CommentsCarried
<1>10. parse_manifest(is).ok = parse_manifest(was).ok
  <2>1. \A h \in new : is[h] # Header(Bins)
    <3>1. Header(Bins).k = "header" /\ Header(Bins).section = Bins
      BY Kinds
    <3> QED  BY <1>1, <1>2, <3>1
  <2> QED  BY <1>1, <2>1, ParsesAsBefore, Zenon DEF new
<1>11. \A i : /\ Row(was, i)[1] = Above(was, i) /\ Row(was, i)[2] = was[i].key
              /\ Row(is, i) = <<Above(is, i), is[i].key, is[i].value>>
  BY DEF Row
<1>12. Row(is, q) = <<{section}, package, value>> /\ q \in Entries(is)
  BY <1>1, <1>2, <1>5, <1>11 DEF Entries
<1>13. \A i \in Entries(was) : i \in places <=> ~ (was[i].key = package /\ Above(was, i) = {section})
  BY <1>1 DEF Entries
<1>14. ASSUME NEW row \in Table(is)
       PROVE  row = <<{section}, package, value>> \/ (row \in Table(was) /\ (row[1] # {section} \/ row[2] # package))
  <2>1. PICK h \in Entries(is) : row = Row(is, h)
    BY TableRows
  <2>2. CASE h = q
    BY <1>12, <2>1, <2>2
  <2>3. CASE h # q
    <3>1. h \notin new
      BY <1>6, <2>1, <2>3 DEF Entries
    <3>2. PICK i \in places : h = to[i]
      BY <1>3, <2>1, <3>1 DEF Entries
    <3>3. i \in Entries(was) /\ row = Row(was, i)
      BY <1>3, <2>1, <3>2
    <3> QED  BY <1>11, <1>13, <3>2, <3>3, TableRows
  <2> QED  BY <2>2, <2>3
<1>15. ASSUME NEW row \in Table(was), row[1] # {section} \/ row[2] # package PROVE row \in Table(is)
  <2>1. PICK i \in Entries(was) : row = Row(was, i)
    BY TableRows
  <2>2. i \in places
    BY <1>11, <1>13, <1>15, <2>1
  <2>3. to[i] \in Entries(is) /\ row = Row(is, to[i])
    BY <1>3, <2>1, <2>2
  <2> QED  BY <2>3, TableRows
<1>16. <<{section}, package, value>> \in Table(is)
  BY <1>12, TableRows
<1>17. Table(is) = {row \in Table(was) : row[1] # {section} \/ row[2] # package} \cup {<<{section}, package, value>>}
  BY <1>14, <1>15, <1>16
<1> QED  BY <1>8, <1>9, <1>10, <1>17

\* izelc deps finds the version that was added.
LEMMA AddedIsRead ==
  ASSUME NEW was, NEW is, NEW places, NEW to, NEW q, NEW package, NEW value,
         Addition(was, is, places, to, q, "dependencies", package, value)
  PROVE  parse_manifest(is).dependencies[package] = value
<1> DEFINE section == "dependencies"
           here == {i \in DOMAIN is : is[i].k = "entry" /\ SectionOf(is, i) = section}
           of   == {i \in here : is[i].key = package}
<1>1. /\ Carries(was, is, places, to)
      /\ q \in Fresh(is, places, to) /\ is[q] = Entry(package, value) /\ Above(is, q) = {section}
      /\ \A h \in Fresh(is, places, to) : h = q \/ is[h] = Blank \/ is[h] = Header(section)
      /\ \A i \in places : was[i].k = "entry" /\ was[i].key = package => Above(was, i) # {section}
  BY Zenon DEF Addition
<1>2. Sequential(is) /\ q \in DOMAIN is
  BY <1>1 DEF Carries, Fresh
<1>3. \A i \in DOMAIN is : SectionOf(is, i) = section <=> Above(is, i) = {section}
  BY <1>2, SectionsAgree, "dependencies" # ""
<1>4. q \in of
  BY <1>1, <1>2, <1>3, Kinds
<1>5. ASSUME NEW h \in of PROVE h = q
  <2>1. is[h].k = "entry" /\ is[h].key = package /\ h \in DOMAIN is /\ Above(is, h) = {section}
    BY <1>3
  <2>2. h \notin Fresh(is, places, to) \/ h = q
    BY <1>1, <2>1, Kinds
  <2>3. ASSUME NEW i \in places, h = to[i] PROVE FALSE
    <3>1. is[to[i]] = was[i] /\ Above(is, to[i]) = Above(was, i)
      BY <1>1, OldOrFresh
    <3> QED  BY <1>1, <2>1, <2>3, <3>1
  <2> QED  BY <2>1, <2>2, <2>3 DEF Fresh
<1>6. of = {q}
  BY <1>4, <1>5
<1>7. q \in Nat
  BY <1>2, Numbered
<1>8. Max({q}) = q
  <2>1. \E x \in {q} : \A y \in {q} : x >= y
    BY <1>7
  <2> QED  BY <2>1 DEF Max
<1>9. q \in here /\ is[q].key = package /\ is[q].value = value
  BY <1>1, <1>4, Kinds
<1>10. parse_manifest(is).dependencies =
         [key \in {is[i].key : i \in here} |-> is[Max({i \in here : is[i].key = key})].value]
  BY DEF parse_manifest
<1> HIDE DEF here
<1>11. parse_manifest(is).dependencies[package] = is[Max(of)].value
  BY <1>9, <1>10
<1> QED  BY <1>6, <1>8, <1>9, <1>11

\* Of the lines of a text that is a table file, those in a section are under its one header.
LEMMA OneSection ==
  ASSUME NEW was, IsText(was), IsToml(was), NEW section, section # Bins,
         NEW start \in DOMAIN was, was[start] = Header(section), NEW i \in DOMAIN was
  PROVE  Above(was, i) = {section} <=> HeaderOver(was, i) = {start}
<1>1. Sequential(was)
  BY DEF IsText, Sequential
<1>2. DOMAIN was = 1 .. Len(was) /\ Len(was) \in Nat
  BY <1>1, Numbered
<1>3. HeaderOver(was, i) = {start} => Above(was, i) = {section}
  BY Kinds DEF Above
<1>4. ASSUME Above(was, i) = {section} PROVE HeaderOver(was, i) = {start}
  <2>1. HeaderOver(was, i) # {}
    BY <1>4 DEF Above
  <2>2. PICK x \in 1 .. i : HeaderOver(was, i) = {x} /\ IsHeader(was[x])
    BY <1>1, <2>1, OneHeader
  <2>3. x \in DOMAIN was /\ was[x].section = section
    BY <1>2, <1>4, <2>2 DEF Above
  <2>4. was[x] = Header(section)
    BY <2>2, <2>3 DEF IsText
  <2>5. x = start
    <3>1. was[x] = was[start] /\ was[x].k = "header" /\ was[x].section # Bins
      BY <2>3, <2>4, Kinds
    <3> QED  BY <2>3, <3>1 DEF IsToml
  <2> QED  BY <2>2, <2>5
<1> QED  BY <1>3, <1>4

\* The entry that has the key is replaced.
LEMMA Replaces ==
  ASSUME NEW was, IsText(was), IsToml(was), NEW section, section # Bins, NEW package, NEW value,
         NEW start \in DOMAIN was, was[start] = Header(section),
         NEW r \in DOMAIN was, was[r].k = "entry", was[r].key = package, HeaderOver(was, r) = {start}
  PROVE  LET is == [was EXCEPT ![r] = Entry(package, value)]
         IN \E places, to : Addition(was, is, places, to, r, section, package, value)
<1> DEFINE entry  == Entry(package, value)
           is     == [was EXCEPT ![r] = entry]
           places == DOMAIN was \ {r}
           to     == [i \in places |-> i]
<1>1. PICK T : was \in Seq(T)
  BY DEF IsText
<1> DEFINE U == T \cup {entry}
<1>2. was \in Seq(U) /\ entry \in U
  BY <1>1, SeqMonotonic
<1> HIDE DEF U, entry
<1>3. is \in Seq(U) /\ DOMAIN is = DOMAIN was /\ is[r] = entry /\ \A i \in DOMAIN was : i # r => is[i] = was[i]
  BY <1>2, ExceptSeq
<1>4. DOMAIN was = 1 .. Len(was) /\ Len(was) \in Nat /\ Sequential(was) /\ Sequential(is)
  <2>1. Sequential(was) /\ Sequential(is)
    BY <1>1, <1>3 DEF Sequential
  <2> QED  BY <2>1, Numbered
<1> HIDE DEF is
<1>5. entry.k = "entry" /\ ~ IsHeader(entry) /\ ~ IsHeader(was[r])
  BY Kinds DEF entry, IsHeader
<1>6. \A i \in DOMAIN was : IsHeader(is[i]) <=> IsHeader(was[i])
  BY <1>3, <1>5
<1>7. HeaderOver(is, r) = HeaderOver(was, r)
  <2>1. \A j \in 1 .. r : j \in DOMAIN was
    BY <1>4
  <2> QED  BY <1>6, <2>1 DEF HeaderOver
<1>8. Above(is, r) = {section}
  <2>1. start # r
    BY <1>5, Kinds
  <2>2. is[start] = Header(section) /\ Header(section).section = section
    BY <1>3, <2>1, Kinds
  <2>3. HeaderOver(is, r) = {start}
    BY <1>7
  <2>4. {is[j].section : j \in {start}} = {section}
    BY <2>2
  <2> QED  BY <2>3, <2>4, Zenon DEF Above
<1>9. \A i \in places : to[i] = i /\ i \in DOMAIN was
  OBVIOUS
<1>10. places \subseteq DOMAIN was /\ to \in [places -> DOMAIN is]
  BY <1>3
<1>11. \A i \in DOMAIN was : i \notin places => i = r
  OBVIOUS
<1>12. Fresh(is, places, to) = {r}
  <2>1. {to[i] : i \in places} = places
    BY <1>9
  <2> QED  BY <1>3, <2>1 DEF Fresh
<1>13. \A i \in places : i # r
  OBVIOUS
<1> HIDE DEF places, to
<1>14. Carries(was, is, places, to)
  BY <1>3, <1>4, <1>5, <1>9, <1>10, <1>11, <1>12, <1>13 DEF Carries, Readable
<1>15. \A i \in places : was[i].k = "entry" /\ was[i].key = package => Above(was, i) # {section}
  <2>1. SUFFICES ASSUME NEW i \in places, was[i].k = "entry", was[i].key = package, Above(was, i) = {section} PROVE FALSE
    OBVIOUS
  <2>2. i \in DOMAIN was /\ i # r
    BY <1>9, <1>13
  <2>3. HeaderOver(was, i) = {start}
    BY <2>1, <2>2, OneSection
  <2>4. HeaderOver(was, i) # HeaderOver(was, r)
    BY <2>1, <2>2 DEF IsToml
  <2> QED  BY <2>3, <2>4
<1>16. Above(was, r) = {section}
  BY OneSection
<1>17. Addition(was, is, places, to, r, section, package, value)
  BY <1>3, <1>5, <1>8, <1>11, <1>12, <1>14, <1>15, <1>16 DEF Addition, entry
<1> QED  BY <1>17 DEF is, entry

\* An entry is put in, before the next header.
LEMMA Inserts ==
  ASSUME NEW was, IsText(was), IsToml(was), NEW section, section # Bins, NEW package, NEW value,
         NEW start \in DOMAIN was, was[start] = Header(section),
         NEW end \in 1 .. Len(was) + 1, start < end, \A i \in start + 1 .. end - 1 : ~ IsHeader(was[i]),
         \A i \in DOMAIN was : HeaderOver(was, i) = {start} => ~ (was[i].k = "entry" /\ was[i].key = package),
         end \in DOMAIN was => IsHeader(was[end])
  PROVE  LET is == InsertAt(was, end, Entry(package, value))
         IN \E places, to : Addition(was, is, places, to, end, section, package, value)
<1> DEFINE entry  == Entry(package, value)
           is     == InsertAt(was, end, entry)
           n      == Len(was)
           places == DOMAIN was
           to     == [i \in places |-> IF i < end THEN i ELSE i + 1]
<1>1. PICK T : was \in Seq(T)
  BY DEF IsText
<1> DEFINE U == T \cup {entry}
<1>2. was \in Seq(U) /\ entry \in U
  BY <1>1, SeqMonotonic
<1>3. n \in Nat /\ DOMAIN was = 1 .. n /\ Sequential(was) /\ end \in Int
  <2>1. Sequential(was)
    BY <1>1 DEF Sequential
  <2> QED  BY <2>1, Numbered
<1> HIDE DEF U, entry
<1>4. /\ is \in Seq(U) /\ Len(is) = n + 1
      /\ \A i \in 1 .. n + 1 : is[i] = IF i < end THEN was[i] ELSE IF i = end THEN entry ELSE was[i - 1]
  <2> DEFINE a == SubSeq(was, 1, end - 1)
             b == <<entry>>
             c == SubSeq(was, end, n)
  <2>1. is = a \o b \o c
    BY DEF InsertAt
  <2>2. a \in Seq(U) /\ Len(a) = end - 1 /\ \A i \in 1 .. end - 1 : a[i] = was[i]
    BY <1>2, <1>3, SubSeqProperties
  <2>3. b \in Seq(U) /\ Len(b) = 1 /\ b[1] = entry
    BY <1>2
  <2>4. c \in Seq(U) /\ Len(c) = n + 1 - end /\ \A i \in 1 .. n + 1 - end : c[i] = was[end + i - 1]
    BY <1>2, <1>3, SubSeqProperties
  <2> HIDE DEF a, b, c
  <2> DEFINE ab == a \o b
  <2>5. ab \in Seq(U) /\ Len(ab) = end /\ \A i \in 1 .. end : ab[i] = IF i < end THEN was[i] ELSE entry
    <3>1. /\ ab \in Seq(U) /\ Len(ab) = Len(a) + Len(b)
          /\ \A i \in 1 .. Len(a) + Len(b) : ab[i] = IF i <= Len(a) THEN a[i] ELSE b[i - Len(a)]
      BY <2>2, <2>3, ConcatProperties
    <3> HIDE DEF ab
    <3>2. \A i \in 1 .. end : ab[i] = IF i <= end - 1 THEN a[i] ELSE b[i - (end - 1)]
      BY <1>3, <2>2, <2>3, <3>1
    <3>3. ASSUME NEW i \in 1 .. end PROVE ab[i] = IF i < end THEN was[i] ELSE entry
      <4>1. CASE i < end
        BY <1>3, <2>2, <3>2, <4>1
      <4>2. CASE ~ (i < end)
        <5>1. i = end /\ ~ (i <= end - 1) /\ i - (end - 1) = 1
          BY <1>3, <4>2
        <5> QED  BY <2>3, <3>2, <4>2, <5>1
      <4> QED  BY <4>1, <4>2
    <3> QED  BY <1>3, <2>2, <2>3, <3>1, <3>3
  <2> HIDE DEF ab
  <2>6. /\ ab \o c \in Seq(U) /\ Len(ab \o c) = Len(ab) + Len(c)
        /\ \A i \in 1 .. Len(ab) + Len(c) : (ab \o c)[i] = IF i <= Len(ab) THEN ab[i] ELSE c[i - Len(ab)]
    BY <2>4, <2>5, ConcatProperties
  <2>7. Len(ab) + Len(c) = n + 1
    BY <1>3, <2>4, <2>5
  <2>8. ASSUME NEW i \in 1 .. n + 1
        PROVE  (ab \o c)[i] = IF i < end THEN was[i] ELSE IF i = end THEN entry ELSE was[i - 1]
    <3>1. (ab \o c)[i] = IF i <= end THEN ab[i] ELSE c[i - end]
      BY <2>5, <2>6, <2>7
    <3>2. CASE i <= end
      BY <1>3, <2>5, <3>1, <3>2
    <3>3. CASE ~ (i <= end)
      <4>1. i - end \in 1 .. n + 1 - end /\ end + (i - end) - 1 = i - 1 /\ ~ (i < end) /\ i # end
        BY <1>3, <3>3
      <4>2. c[i - end] = was[end + (i - end) - 1]
        BY <2>4, <4>1
      <4> QED  BY <3>1, <3>3, <4>1, <4>2
    <3> QED  BY <3>2, <3>3
  <2> QED  BY <2>1, <2>6, <2>7, <2>8 DEF ab
<1> HIDE DEF is
<1>5. Sequential(is) /\ DOMAIN is = 1 .. n + 1
  <2>1. Sequential(is)
    BY <1>4 DEF Sequential
  <2> QED  BY <1>4, <2>1, Numbered
<1>6. entry.k = "entry" /\ ~ IsHeader(entry)
  BY Kinds DEF entry
<1> HIDE DEF n
<1>7. /\ \A i \in places : to[i] = (IF i < end THEN i ELSE i + 1) /\ to[i] \in 1 .. n + 1 /\ to[i] # end
      /\ \A i, j \in places : i < j => to[i] < to[j]
  BY <1>3
<1>8. places \subseteq DOMAIN was /\ to \in [places -> DOMAIN is] /\ \A i \in DOMAIN was : i \in places
  BY <1>5, <1>7
<1>9. \A i \in places : is[to[i]] = was[i]
  <2>1. SUFFICES ASSUME NEW i \in places PROVE is[to[i]] = was[i]
    OBVIOUS
  <2>2. i \in 1 .. n
    BY <1>3
  <2>3. CASE i < end
    BY <1>4, <1>7, <2>2, <2>3
  <2>4. CASE ~ (i < end)
    <3>1. PICK j \in 1 .. n + 1 : j = i + 1 /\ ~ (j < end) /\ j # end /\ j - 1 = i
      BY <1>3, <2>2, <2>4
    <3>2. to[i] = j
      BY <1>7, <2>4, <3>1
    <3> HIDE DEF to, places
    <3>3. is[j] = was[j - 1]
      BY <1>4, <3>1
    <3> QED  BY <3>1, <3>2, <3>3
  <2> QED  BY <2>3, <2>4
<1>10. Fresh(is, places, to) = {end}
  <2>1. ASSUME NEW h \in 1 .. n + 1, h # end PROVE \E i \in places : h = to[i]
    <3>1. CASE h < end
      <4>1. h \in places
        BY <1>3, <3>1
      <4> QED  BY <1>7, <3>1, <4>1
    <3>2. CASE ~ (h < end)
      <4>1. h - 1 \in places /\ ~ (h - 1 < end) /\ h - 1 + 1 = h
        BY <1>3, <2>1, <3>2
      <4>2. to[h - 1] = h
        BY <1>7, <4>1
      <4> QED  BY <4>1, <4>2
    <3> QED  BY <3>1, <3>2
  <2>2. end \in 1 .. n + 1
    BY DEF n
  <2> HIDE DEF to, places
  <2> QED  BY <1>5, <1>7, <2>1, <2>2 DEF Fresh
<1> HIDE DEF to, places
<1>11. is[end] = entry
  <2>1. end \in 1 .. n + 1 /\ ~ (end < end)
    BY <1>3 DEF n
  <2> QED  BY <1>4, <2>1
<1>12. Carries(was, is, places, to)
  BY <1>3, <1>5, <1>6, <1>7, <1>8, <1>9, <1>10, <1>11 DEF Carries, Readable
<1>13. Above(is, end) = {section}
  <2>1. start \in 1 .. n /\ start \in 1 .. n + 1 /\ start \in 1 .. end /\ end \in 1 .. n + 1
    BY <1>3 DEF n
  <2>2. is[start] = Header(section) /\ IsHeader(is[start])
    BY <1>4, <2>1, Kinds
  <2>3. ASSUME NEW k \in start + 1 .. end PROVE ~ IsHeader(is[k])
    <3>1. CASE k = end
      BY <1>6, <1>11, <3>1
    <3>2. CASE k # end
      <4>1. k \in start + 1 .. end - 1 /\ k < end /\ k \in 1 .. n + 1
        BY <1>3, <2>1, <3>2
      <4> QED  BY <1>4, <4>1
    <3> QED  BY <3>1, <3>2
  <2>4. start \in HeaderOver(is, end)
    BY <2>1, <2>2, <2>3 DEF HeaderOver
  <2>5. HeaderOver(is, end) = {start}
    <3>1. \E x \in 1 .. end : HeaderOver(is, end) = {x}
      BY <1>5, <2>1, <2>4, OneHeader
    <3> QED  BY <2>4, <3>1
  <2>6. {is[j].section : j \in {start}} = {section}
    BY <2>2, Kinds
  <2> QED  BY <2>5, <2>6, Zenon DEF Above
<1>14. \A i \in places : was[i].k = "entry" /\ was[i].key = package => Above(was, i) # {section}
  <2>1. \A i \in places : i \in DOMAIN was
    BY <1>8
  <2> QED  BY <2>1, OneSection
<1>15. Addition(was, is, places, to, end, section, package, value)
  BY <1>6, <1>8, <1>10, <1>11, <1>12, <1>13, <1>14 DEF Addition, entry
<1> QED  BY <1>15 DEF is, entry

\* The section is put at the end, with the entry in it.
LEMMA Appends ==
  ASSUME NEW was, IsText(was), NEW section, NEW package, NEW value,
         \A i \in DOMAIN was : was[i] # Header(section), NEW gap \in {<<>>, <<Blank>>}
  PROVE  LET is == was \o gap \o <<Header(section), Entry(package, value)>>
         IN \E places, to, q : Addition(was, is, places, to, q, section, package, value)
<1> DEFINE entry  == Entry(package, value)
           header == Header(section)
           both   == <<header, entry>>
           is     == was \o gap \o both
           n      == Len(was)
           g      == Len(gap)
           places == DOMAIN was
           to     == [i \in places |-> i]
           q      == n + g + 2
<1>1. PICK T : was \in Seq(T)
  BY DEF IsText
<1> DEFINE U == T \cup {header, entry, Blank}
<1>2. was \in Seq(U) /\ header \in U /\ entry \in U /\ Blank \in U
  BY <1>1, SeqMonotonic
<1>3. n \in Nat /\ DOMAIN was = 1 .. n /\ Sequential(was)
  <2>1. Sequential(was)
    BY <1>1 DEF Sequential
  <2> QED  BY <2>1, Numbered
<1>4. gap \in Seq(U) /\ g \in {0, 1} /\ \A i \in 1 .. g : gap[i] = Blank
  <2>1. CASE gap = <<>>
    BY <2>1
  <2>2. CASE gap = <<Blank>>
    BY <1>2, <2>2
  <2> QED  BY <2>1, <2>2
<1> HIDE DEF U, entry, header
<1>5. both \in Seq(U) /\ Len(both) = 2 /\ both[1] = header /\ both[2] = entry
  BY <1>2
<1> HIDE DEF both
<1> DEFINE ab == was \o gap
<1>6. ab \in Seq(U) /\ Len(ab) = n + g /\ \A i \in 1 .. n + g : ab[i] = IF i <= n THEN was[i] ELSE Blank
  <2>1. /\ ab \in Seq(U) /\ Len(ab) = n + g
        /\ \A i \in 1 .. n + g : ab[i] = IF i <= n THEN was[i] ELSE gap[i - n]
    BY <1>2, <1>4, ConcatProperties
  <2> HIDE DEF ab
  <2>2. ASSUME NEW i \in 1 .. n + g PROVE ab[i] = IF i <= n THEN was[i] ELSE Blank
    <3>1. ~ (i <= n) => i - n \in 1 .. g
      BY <1>3, <1>4
    <3> HIDE DEF n, g
    <3> QED  BY <1>4, <2>1, <3>1
  <2> QED  BY <2>1, <2>2
<1> HIDE DEF ab, n, g
<1>7. /\ is \in Seq(U) /\ Len(is) = q
      /\ \A i \in 1 .. q : is[i] = IF i <= n THEN was[i] ELSE IF i <= n + g THEN Blank ELSE both[i - (n + g)]
  <2>1. /\ ab \o both \in Seq(U) /\ Len(ab \o both) = Len(ab) + Len(both)
        /\ \A i \in 1 .. Len(ab) + Len(both) : (ab \o both)[i] = IF i <= Len(ab) THEN ab[i] ELSE both[i - Len(ab)]
    BY <1>5, <1>6, ConcatProperties
  <2>2. Len(ab) + Len(both) = q
    BY <1>3, <1>4, <1>5, <1>6
  <2>3. is = ab \o both
    BY DEF ab
  <2> HIDE DEF is, q
  <2>4. ASSUME NEW i \in 1 .. q
        PROVE  is[i] = IF i <= n THEN was[i] ELSE IF i <= n + g THEN Blank ELSE both[i - (n + g)]
    <3>1. is[i] = IF i <= n + g THEN ab[i] ELSE both[i - (n + g)]
      BY <1>6, <2>1, <2>2, <2>3
    <3>2. (i <= n => i <= n + g) /\ (i <= n + g => i \in 1 .. n + g)
      BY <1>3, <1>4
    <3> QED  BY <1>6, <3>1, <3>2
  <2> QED  BY <2>1, <2>2, <2>3, <2>4
<1> HIDE DEF is
<1>8. q \in Nat /\ q - 1 \in 1 .. q /\ q \in 1 .. q /\ n < q - 1 /\ n + g < q - 1
  BY <1>3, <1>4
<1>9. is[q - 1] = header /\ is[q] = entry
  <2>1. /\ q - 1 - (n + g) = 1 /\ ~ (q - 1 <= n) /\ ~ (q - 1 <= n + g)
        /\ q - (n + g) = 2 /\ ~ (q <= n) /\ ~ (q <= n + g)
    BY <1>3, <1>4
  <2> HIDE DEF q
  <2>2. is[q - 1] = both[q - 1 - (n + g)]
    BY <1>7, <1>8, <2>1
  <2>3. is[q] = both[q - (n + g)]
    BY <1>7, <1>8, <2>1
  <2> QED  BY <1>5, <2>1, <2>2, <2>3
<1>10. ASSUME NEW i \in 1 .. q, i # q, i # q - 1 PROVE i <= n + g /\ (i > n => is[i] = Blank)
  <2>1. i <= n + g
    BY <1>3, <1>4, <1>10
  <2> HIDE DEF q
  <2> QED  BY <1>3, <1>7, <2>1
<1>11. Sequential(is) /\ DOMAIN is = 1 .. q
  <2>1. Sequential(is)
    BY <1>7 DEF Sequential
  <2> QED  BY <1>7, <2>1, Numbered
<1>12. \A i \in places : to[i] = i /\ i \in 1 .. q /\ i <= n /\ is[i] = was[i] /\ i \in Int
  <2>1. \A i \in places : i \in 1 .. q /\ i <= n /\ i \in Int
    BY <1>3, <1>8
  <2> HIDE DEF q
  <2> QED  BY <1>7, <2>1
<1>13. /\ entry.k = "entry" /\ ~ IsHeader(entry)
       /\ IsHeader(header) /\ header.section = section /\ header.k = "header"
       /\ ~ IsHeader(Blank) /\ Blank.k = "blank"
  BY Kinds DEF entry, header
<1> HIDE DEF q
<1>14. Fresh(is, places, to) = (n + 1) .. q
  <2>1. {to[i] : i \in places} = 1 .. n
    BY <1>3, <1>12
  <2>2. (1 .. q) \ (1 .. n) = (n + 1) .. q
    BY <1>3, <1>8
  <2> QED  BY <1>11, <2>1, <2>2, Zenon DEF Fresh
<1>15. to \in [places -> DOMAIN is] /\ places \subseteq DOMAIN was /\ \A i \in DOMAIN was : i \in places
  BY <1>11, <1>12
<1>16. \A h \in Fresh(is, places, to) : h \in 1 .. q /\ h > n /\ h \in Int
  BY <1>3, <1>8, <1>14
<1>17. \A h \in Fresh(is, places, to) : h = q \/ h = q - 1 \/ is[h] = Blank
  BY <1>10, <1>16
<1> HIDE DEF to, places
<1>18. Carries(was, is, places, to)
  <2>1. \A i, j \in places : i < j => to[i] < to[j]
    BY <1>12
  <2>2. \A h \in Fresh(is, places, to) : is[h].k \in Readable /\ \A i \in places : to[i] < h
    BY <1>3, <1>9, <1>12, <1>13, <1>16, <1>17 DEF Readable
  <2> QED  BY <1>3, <1>11, <1>12, <1>15, <2>1, <2>2 DEF Carries
<1>19. Above(is, q) = {section}
  <2>1. q - 1 \in HeaderOver(is, q)
    <3>1. \A k \in (q - 1) + 1 .. q : k = q
      BY <1>8
    <3> QED  BY <1>8, <1>9, <1>13, <3>1 DEF HeaderOver
  <2>2. HeaderOver(is, q) = {q - 1}
    <3>1. \E x \in 1 .. q : HeaderOver(is, q) = {x}
      BY <1>8, <1>11, <2>1, OneHeader
    <3> QED  BY <2>1, <3>1
  <2>3. {is[j].section : j \in {q - 1}} = {section}
    BY <1>9, <1>13
  <2> QED  BY <2>2, <2>3, Zenon DEF Above
<1>20. ASSUME NEW i \in DOMAIN was PROVE Above(was, i) # {section}
  <2>1. SUFFICES ASSUME Above(was, i) = {section} PROVE FALSE
    OBVIOUS
  <2>2. HeaderOver(was, i) # {}
    BY <2>1 DEF Above
  <2>3. PICK x \in 1 .. i : HeaderOver(was, i) = {x} /\ IsHeader(was[x])
    BY <1>3, <2>2, OneHeader
  <2>4. x \in DOMAIN was /\ was[x].section = section
    BY <1>3, <2>1, <2>3 DEF Above
  <2> QED  BY <2>3, <2>4 DEF IsText
<1>21. Addition(was, is, places, to, q, section, package, value)
  <2>1. q \in Fresh(is, places, to)
    BY <1>3, <1>8, <1>14
  <2>2. \A h, f \in Fresh(is, places, to) : h # f => ~ (IsHeader(is[h]) /\ IsHeader(is[f]))
    BY <1>9, <1>13, <1>17
  <2>3. \A i \in places : i \in DOMAIN was
    BY <1>15
  <2>4. \A h \in Fresh(is, places, to) : h = q \/ is[h] = Blank \/ is[h] = header
    BY <1>9, <1>17
  <2> QED  BY <1>9, <1>15, <1>18, <1>19, <1>20, <2>1, <2>2, <2>3, <2>4 DEF Addition, entry, header
<1> QED  BY <1>21 DEF is, both, entry, header

\* What upsert_dependency makes is an addition.
LEMMA Upserts ==
  ASSUME NEW was, IsText(was), IsToml(was), NEW section, section # Bins, NEW package, NEW value
  PROVE  LET is == upsert_dependency(was, section, package, value)
         IN \E places, to, q : Addition(was, is, places, to, q, section, package, value)
<1> DEFINE n      == Len(was)
           starts == {i \in DOMAIN was : was[i] = Header(section)}
           start  == Min(starts)
           ends   == {i \in DOMAIN was : i > start /\ IsHeader(was[i])}
           end    == IF ends = {} THEN n + 1 ELSE Min(ends)
           same   == {i \in start + 1 .. end - 1 : was[i].k = "entry" /\ was[i].key = package}
           gap    == IF was = <<>> \/ Last(was) = Blank THEN <<>> ELSE <<Blank>>
           is     == upsert_dependency(was, section, package, value)
<1>1. is = IF starts = {} THEN was \o gap \o <<Header(section), Entry(package, value)>>
           ELSE IF same # {} THEN [was EXCEPT ![Min(same)] = Entry(package, value)]
           ELSE InsertAt(was, end, Entry(package, value))
  BY DEF upsert_dependency
<1>2. Sequential(was) /\ n \in Nat /\ DOMAIN was = 1 .. n
  <2>1. Sequential(was)
    BY DEF IsText, Sequential
  <2> QED  BY <2>1, Numbered
<1> HIDE DEF is, n
<1>3. CASE starts = {}
  <2>1. \A i \in DOMAIN was : was[i] # Header(section)
    BY <1>3
  <2>2. gap \in {<<>>, <<Blank>>}
    OBVIOUS
  <2>3. is = was \o gap \o <<Header(section), Entry(package, value)>>
    BY <1>1, <1>3
  <2> HIDE DEF gap, starts
  <2>4. \E places, to, q : Addition(was, was \o gap \o <<Header(section), Entry(package, value)>>, places, to, q, section, package, value)
    BY <2>1, <2>2, Appends, Zenon
  <2> QED  BY <2>3, <2>4 DEF is
<1>4. CASE starts # {}
  <2>1. start \in DOMAIN was /\ was[start] = Header(section) /\ start \in 1 .. n
    <3>1. starts \subseteq Nat
      BY <1>2
    <3>2. Min(starts) \in starts
      BY <1>4, <3>1, LeastPlace
    <3> QED  BY <1>2, <3>2
  <2> HIDE DEF start, starts
  <2>2. /\ end \in 1 .. n + 1 /\ start < end /\ (end \in DOMAIN was => IsHeader(was[end]))
        /\ \A i \in start + 1 .. end - 1 : ~ IsHeader(was[i])
        /\ \A i \in DOMAIN was : i >= end => end \in start + 1 .. i
    <3>1. CASE ends = {}
      <4>1. end = n + 1
        BY <3>1
      <4>2. \A i \in start + 1 .. n : ~ IsHeader(was[i])
        <5>1. \A i \in start + 1 .. n : i \in DOMAIN was /\ i > start
          BY <1>2, <2>1
        <5> QED  BY <3>1, <5>1
      <4> QED  BY <1>2, <2>1, <4>1, <4>2
    <3>2. CASE ends # {}
      <4>1. ends \subseteq Nat
        BY <1>2
      <4>2. end \in ends /\ \A i \in ends : end <= i
        BY <3>2, <4>1, LeastPlace
      <4>3. end \in 1 .. n /\ end > start /\ IsHeader(was[end])
        BY <1>2, <4>2
      <4>4. ASSUME NEW i \in start + 1 .. end - 1, IsHeader(was[i]) PROVE FALSE
        <5>1. i \in 1 .. n /\ i > start /\ i < end
          BY <1>2, <2>1, <4>3
        <5>2. i \in ends
          BY <1>2, <4>4, <5>1
        <5> HIDE DEF end, ends
        <5> QED  BY <4>2, <4>3, <5>1, <5>2
      <4> HIDE DEF end
      <4> QED  BY <1>2, <2>1, <4>3, <4>4
    <3> QED  BY <3>1, <3>2
  <2> HIDE DEF end, ends
  <2>3. ASSUME NEW i \in start + 1 .. end - 1 PROVE i \in DOMAIN was /\ HeaderOver(was, i) = {start}
    <3>1. i \in 1 .. n /\ start \in 1 .. i
      BY <1>2, <2>1, <2>2
    <3>2. IsHeader(was[start])
      BY <2>1, Kinds
    <3>3. \A k \in start + 1 .. i : ~ IsHeader(was[k])
      <4>1. \A k \in start + 1 .. i : k \in start + 1 .. end - 1
        BY <1>2, <2>1, <2>2
      <4> QED  BY <2>2, <4>1
    <3>4. start \in HeaderOver(was, i)
      BY <3>1, <3>2, <3>3 DEF HeaderOver
    <3>5. \E x \in 1 .. i : HeaderOver(was, i) = {x}
      BY <1>2, <3>1, <3>4, OneHeader
    <3> QED  BY <1>2, <3>1, <3>4, <3>5
  <2>4. ASSUME NEW i \in DOMAIN was, HeaderOver(was, i) = {start}, i # start PROVE i \in start + 1 .. end - 1
    <3>1. start \in 1 .. i /\ \A k \in start + 1 .. i : ~ IsHeader(was[k])
      BY <2>4 DEF HeaderOver
    <3>2. ~ (i >= end)
      <4>1. SUFFICES ASSUME i >= end PROVE FALSE
        OBVIOUS
      <4>2. end \in start + 1 .. i
        BY <2>2, <4>1
      <4>3. end \in DOMAIN was
        BY <1>2, <2>2, <4>2
      <4> QED  BY <2>2, <3>1, <4>2, <4>3
    <3> QED  BY <1>2, <2>1, <2>2, <2>4, <3>1, <3>2
  <2>5. CASE same # {}
    <3> DEFINE r == Min(same)
    <3>1. same \subseteq Nat
      BY <2>1, <2>2
    <3>2. r \in same
      BY <2>5, <3>1, LeastPlace
    <3> HIDE DEF r
    <3>3. r \in DOMAIN was /\ was[r].k = "entry" /\ was[r].key = package /\ HeaderOver(was, r) = {start}
      BY <2>3, <3>2
    <3>4. is = [was EXCEPT ![r] = Entry(package, value)]
      BY <1>1, <1>4, <2>5 DEF r, start, starts, end, ends
    <3>5. \E places, to : Addition(was, [was EXCEPT ![r] = Entry(package, value)], places, to, r, section, package, value)
      BY <2>1, <3>3, Replaces, Zenon
    <3> QED  BY <3>4, <3>5 DEF is
  <2>6. CASE same = {}
    <3>1. ASSUME NEW i \in DOMAIN was, HeaderOver(was, i) = {start}, was[i].k = "entry", was[i].key = package
          PROVE  FALSE
      <4>1. i # start
        BY <2>1, <3>1, Kinds
      <4>2. i \in start + 1 .. end - 1
        BY <2>4, <3>1, <4>1
      <4> QED  BY <2>6, <3>1, <4>2
    <3>2. is = InsertAt(was, end, Entry(package, value))
      BY <1>1, <1>4, <2>6 DEF start, starts, end, ends
    <3> HIDE DEF same
    <3>3. end \in 1 .. Len(was) + 1
      BY <2>2 DEF n
    <3>4. \E places, to : Addition(was, InsertAt(was, end, Entry(package, value)), places, to, end, section, package, value)
      BY <2>1, <2>2, <3>1, <3>3, Inserts
    <3> QED  BY <3>2, <3>4 DEF is
  <2> QED  BY <2>5, <2>6
<1> QED  BY <1>3, <1>4 DEF is

\* What izel add makes of a table file.
LEMMA Added ==
  ASSUME NEW was, IsText(was), IsToml(was), NEW c, c.do = "add"
  PROVE  LET is == Edited(c, was)
         IN /\ IsToml(is) /\ Kept(is) = Kept(was)
            /\ Table(is) = Wanted(c, Table(was))
            /\ parse_manifest(is).ok = parse_manifest(was).ok
            /\ ~ c.dev => parse_manifest(is).dependencies[c.package] = Version(c)
<1> DEFINE section == Section(c)
           value   == Version(c)
           is      == upsert_dependency(was, section, c.package, value)
<1>1. Edited(c, was) = is
  BY DEF Edited, Section, Version
<1>2. section # Bins
  BY DEF Section, Bins
<1>3. ~ c.dev => section = "dependencies"
  BY DEF Section
<1> HIDE DEF section, value
<1>4. PICK places, to, q : Addition(was, is, places, to, q, section, c.package, value)
  BY <1>2, Upserts
<1> HIDE DEF is
<1>5. /\ IsToml(is) /\ Kept(is) = Kept(was)
      /\ Table(is) = {row \in Table(was) : row[1] # {section} \/ row[2] # c.package}
                       \cup {<<{section}, c.package, value>>}
      /\ parse_manifest(is).ok = parse_manifest(was).ok
  BY <1>2, <1>4, AddDoes, Zenon
<1>6. ~ c.dev => parse_manifest(is).dependencies[c.package] = value
  <2>1. SUFFICES ASSUME ~ c.dev PROVE parse_manifest(is).dependencies[c.package] = value
    OBVIOUS
  <2>2. Addition(was, is, places, to, q, "dependencies", c.package, value)
    BY <1>3, <1>4, <2>1
  <2> QED  BY <2>2, AddedIsRead, Zenon
<1>7. Table(is) = Wanted(c, Table(was))
  BY <1>5 DEF Wanted, section, value
<1> QED  BY <1>1, <1>5, <1>6, <1>7 DEF value

\* What an edit makes of a table file is what it was asked for.
LEMMA EditedAsAsked ==
  ASSUME NEW was, IsText(was), IsToml(was), NEW c, c.do \in {"add", "remove"}
  PROVE  JustAsAsked(c, was, Edited(c, was))
<1> DEFINE is == Edited(c, was)
<1>1. Sequential(was)
  BY DEF IsText, Sequential
<1>2. c.do = "add"
        => /\ IsToml(is) /\ Kept(is) = Kept(was) /\ Table(is) = Wanted(c, Table(was))
           /\ parse_manifest(is).ok = parse_manifest(was).ok
           /\ ~ c.dev => parse_manifest(is).dependencies[c.package] = Version(c)
  BY Added, Zenon
<1>3. c.do = "remove"
        => /\ IsToml(is) /\ Kept(is) = Kept(was) /\ Table(is) = Wanted(c, Table(was))
           /\ parse_manifest(is).ok = parse_manifest(was).ok
  BY <1>1, Removed, Zenon
<1> HIDE DEF is
<1>4. c.do = "add" => JustAsAsked(c, was, is)
  BY <1>2, Zenon DEF JustAsAsked
<1>5. c.do = "remove" => JustAsAsked(c, was, is)
  BY <1>3, Zenon, "remove" # "add" DEF JustAsAsked
<1> QED  BY <1>4, <1>5 DEF is

-----------------------------------------------------------------------------
(* Texts *)

\* A line that is a header is that and no more.
Proper(line) == IsHeader(line) => line = Header(line.section)

LEMMA TextOf ==
  ASSUME NEW S, \A line \in S : Proper(line), NEW lines \in Seq(S)
  PROVE  IsText(lines)
<1>1. \A i \in DOMAIN lines : lines[i] \in S
  OBVIOUS
<1>2. lines \in Seq({lines[i] : i \in DOMAIN lines})
  <2>1. Len(lines) \in Nat /\ DOMAIN lines = 1 .. Len(lines)
    BY LenProperties
  <2> QED  BY <2>1
<1> QED  BY <1>1, <1>2 DEF IsText, Proper

LEMMA OfText ==
  ASSUME NEW lines, IsText(lines)
  PROVE  \E S : lines \in Seq(S) /\ \A line \in S : Proper(line)
<1> DEFINE S == {lines[i] : i \in DOMAIN lines}
<1>1. lines \in Seq(S)
  BY DEF IsText
<1>2. \A line \in S : Proper(line)
  BY DEF IsText, Proper
<1> HIDE DEF S
<1> QED  BY <1>1, <1>2

LEMMA NoText == IsText(<<>>)
<1>1. <<>> \in Seq({})
  OBVIOUS
<1> QED  BY <1>1, TextOf

LEMMA TextsJoined ==
  ASSUME NEW s, NEW t, IsText(s), IsText(t)
  PROVE  IsText(s \o t)
<1>1. PICK S : s \in Seq(S) /\ \A line \in S : Proper(line)
  BY OfText
<1>2. PICK T : t \in Seq(T) /\ \A line \in T : Proper(line)
  BY OfText
<1>3. s \in Seq(S \cup T) /\ t \in Seq(S \cup T)
  BY <1>1, <1>2, SeqMonotonic
<1>4. s \o t \in Seq(S \cup T)
  BY <1>3, ConcatProperties
<1>5. \A line \in S \cup T : Proper(line)
  BY <1>1, <1>2
<1> HIDE DEF Proper
<1> QED  BY <1>4, <1>5, TextOf

LEMMA PartOfText ==
  ASSUME NEW lines, IsText(lines), NEW m \in 1 .. Len(lines) + 1, NEW n \in m - 1 .. Len(lines)
  PROVE  IsText(SubSeq(lines, m, n))
<1>1. PICK S : lines \in Seq(S) /\ \A line \in S : Proper(line)
  BY OfText
<1>2. SubSeq(lines, m, n) \in Seq(S)
  BY <1>1, SubSeqProperties
<1> QED  BY <1>1, <1>2, TextOf

LEMMA ProperLines ==
  \A section, package, value, text :
    /\ Proper(Header(section)) /\ Proper(Entry(package, value)) /\ Proper(Blank)
    /\ text # "header" => Proper(Line(text))
  BY DEF Proper, Header, Entry, Blank, Line, IsHeader

LEMMA OneLine ==
  ASSUME NEW line, Proper(line)
  PROVE  IsText(<<line>>)
<1>1. <<line>> \in Seq({line})
  OBVIOUS
<1> QED  BY <1>1, TextOf

\* What upsert_dependency makes of a text is a text.
LEMMA UpsertedText ==
  ASSUME NEW was, IsText(was), NEW section, NEW package, NEW value
  PROVE  IsText(upsert_dependency(was, section, package, value))
<1> DEFINE n      == Len(was)
           entry  == Entry(package, value)
           starts == {i \in DOMAIN was : was[i] = Header(section)}
           start  == Min(starts)
           ends   == {i \in DOMAIN was : i > start /\ IsHeader(was[i])}
           end    == IF ends = {} THEN n + 1 ELSE Min(ends)
           same   == {i \in start + 1 .. end - 1 : was[i].k = "entry" /\ was[i].key = package}
           gap    == IF was = <<>> \/ Last(was) = Blank THEN <<>> ELSE <<Blank>>
           is     == upsert_dependency(was, section, package, value)
<1>1. is = IF starts = {} THEN was \o gap \o <<Header(section), entry>>
           ELSE IF same # {} THEN [was EXCEPT ![Min(same)] = entry]
           ELSE InsertAt(was, end, entry)
  BY DEF upsert_dependency
<1>2. PICK S : was \in Seq(S) /\ \A line \in S : Proper(line)
  BY OfText
<1>3. n \in Nat /\ DOMAIN was = 1 .. n /\ was \in [1 .. n -> S]
  BY <1>2, LenProperties
<1>4. Proper(entry) /\ Proper(Header(section)) /\ IsText(<<Blank>>) /\ IsText(<<entry>>)
  BY ProperLines, OneLine
<1> HIDE DEF is, entry
<1>5. IsText(was \o gap \o <<Header(section), entry>>)
  <2>1. <<Header(section), entry>> \in Seq({Header(section), entry})
    OBVIOUS
  <2>2. IsText(<<Header(section), entry>>)
    BY <1>4, <2>1, TextOf
  <2>3. IsText(gap)
    BY <1>4, NoText
  <2> HIDE DEF gap
  <2>4. IsText(was \o gap)
    BY <2>3, TextsJoined
  <2> QED  BY <2>2, <2>4, TextsJoined
<1>6. ASSUME NEW r PROVE IsText([was EXCEPT ![r] = entry])
  <2> DEFINE U == S \cup {entry}
  <2> DEFINE other == [was EXCEPT ![r] = entry]
  <2>1. other \in [1 .. n -> U]
    BY <1>3
  <2>2. \A line \in U : Proper(line)
    BY <1>2, <1>4
  <2> HIDE DEF U
  <2> HIDE DEF other, n
  <2>3. other \in Seq(U)
    BY <1>3, <2>1
  <2>4. IsText(other)
    BY <2>2, <2>3, TextOf
  <2> QED  BY <2>4 DEF other
<1>7. ASSUME starts # {} PROVE IsText(InsertAt(was, end, entry))
  <2>1. end \in 1 .. n + 1
    <3>1. CASE ends = {}
      BY <1>3, <3>1
    <3>2. CASE ends # {}
      <4>1. ends \subseteq Nat
        BY <1>3
      <4>2. Min(ends) \in ends
        BY <3>2, <4>1, LeastPlace
      <4> QED  BY <1>3, <3>2, <4>2
    <3> QED  BY <3>1, <3>2
  <2> HIDE DEF end
  <2>2. IsText(SubSeq(was, 1, end - 1)) /\ IsText(SubSeq(was, end, n))
    <3>1. 1 \in 1 .. n + 1 /\ end - 1 \in 1 - 1 .. n /\ end \in 1 .. n + 1 /\ n \in end - 1 .. n
      BY <1>3, <2>1
    <3> QED  BY <3>1, PartOfText
  <2>3. IsText(SubSeq(was, 1, end - 1) \o <<entry>>)
    BY <1>4, <2>2, TextsJoined
  <2>4. IsText(SubSeq(was, 1, end - 1) \o <<entry>> \o SubSeq(was, end, n))
    BY <2>2, <2>3, TextsJoined
  <2> QED  BY <2>4 DEF InsertAt
<1> HIDE DEF starts, end, same, gap
<1> QED  BY <1>1, <1>5, <1>6, <1>7 DEF is

\* So is what remove_dependency_from_section makes of it.
LEMMA RemovedText ==
  ASSUME NEW was, IsText(was), NEW section, NEW package
  PROVE  IsText(remove_dependency_from_section(was, section, package))
<1> DEFINE places == Stays(was, section, package)
           is     == remove_dependency_from_section(was, section, package)
<1>1. PICK S : was \in Seq(S) /\ \A line \in S : Proper(line)
  BY OfText
<1>2. Sequential(was)
  BY <1>1 DEF Sequential
<1>3. PICK to : Carries(was, is, places, to) /\ Fresh(is, places, to) = {}
  BY <1>2, RemoveCarries
<1> HIDE DEF is, places
<1>4. ASSUME NEW h \in DOMAIN is PROVE is[h] \in S
  <2>1. PICK i \in places : h = to[i]
    BY <1>3 DEF Fresh
  <2>2. is[h] = was[i] /\ i \in DOMAIN was
    BY <1>3, <2>1 DEF Carries
  <2> QED  BY <1>1, <2>2
<1>5. is \in Seq(S)
  <2>1. PICK T : is \in Seq(T)
    BY <1>3 DEF Carries, Sequential
  <2>2. Len(is) \in Nat /\ DOMAIN is = 1 .. Len(is) /\ is \in [1 .. Len(is) -> T]
    BY <2>1, LenProperties
  <2>3. is \in [1 .. Len(is) -> S]
    BY <1>4, <2>2
  <2> QED  BY <2>2, <2>3
<1>6. IsText(is)
  BY <1>1, <1>5, TextOf
<1> QED  BY <1>6 DEF is

LEMMA EditedText ==
  ASSUME NEW was, IsText(was), NEW command
  PROVE  IsText(Edited(command, was))
  BY UpsertedText, RemovedText DEF Edited

\* What a new project's files are filled with is a text.
LEMMA NewText ==
  /\ \A kind : IsText(NewManifest(kind))
  /\ \A kind \in {"bin", "lib"} : IsText(Template[kind])
  /\ IsText(<<Own>>) /\ IsText(<<Torn>>)
<1>1. ASSUME NEW kind PROVE IsText(NewManifest(kind))
  <2> DEFINE h == Header("workspace")
             e == Entry("members", "[]")
             a == Header("package")
             b == Entry("name", "app")
             c == Entry("version", "0.1.0")
             d == Header("dependencies")
  <2>1. /\ Proper(h) /\ Proper(e) /\ Proper(a) /\ Proper(b) /\ Proper(c) /\ Proper(d) /\ Proper(Blank)
    BY ProperLines
  <2>2. NewManifest(kind) = <<h, e>> \/ NewManifest(kind) = <<a, b, c, Blank, d>>
    BY DEF NewManifest
  <2> HIDE DEF a, b, c, d, e, h
  <2>3. <<h, e>> \in Seq({h, e}) /\ <<a, b, c, Blank, d>> \in Seq({a, b, c, Blank, d})
    OBVIOUS
  <2>4. IsText(<<h, e>>) /\ IsText(<<a, b, c, Blank, d>>)
    BY <2>1, <2>3, TextOf
  <2> QED  BY <2>2, <2>4
<1>2. \A text : text # "header" => IsText(<<Line(text)>>)
  BY ProperLines, OneLine
<1>3. IsText(<<Own>>) /\ IsText(<<Torn>>)
  BY <1>2 DEF Own, Torn
<1>4. ASSUME NEW kind \in {"bin", "lib"} PROVE IsText(Template[kind])
  <2> DEFINE main == <<Line("forge main")>>
             hello == <<Line("open forge hello")>>
  <2>1. IsText(main) /\ IsText(hello)
    BY <1>2
  <2>2. Template = [bin |-> main, lib |-> hello]
    BY DEF Template
  <2> HIDE DEF main, hello
  <2>3. Template["bin"] = main /\ Template["lib"] = hello
    BY <2>2
  <2> QED  BY <2>1, <2>3
<1> QED  BY <1>1, <1>3, <1>4

-----------------------------------------------------------------------------
(* What is the user's *)

\* Nothing of the user's is opened or filled by the steps, nor by what is tried otherwise,
\* and what files are to be filled with is a text.
Safe(step, users) ==
  /\ step.op \in {"open", "fill"} => step.path \notin users
  /\ step.op \in {"unless", "fill"} => IsText(step.lines)
  /\ step.op = "start" => step.otherwise \in {<<>>, <<Start("clippy")>>}
Spares(steps, users) == \A i \in DOMAIN steps : Safe(steps[i], users)

Harmless(steps, users) == Sequential(steps) /\ Spares(steps, users)

Fields == {"command", "steps", "is", "why", "alone", "before", "ready"}

\* Every file is a text.
AllTexts == \A path \in DOMAIN files : IsText(files[path])

\* Every process spares what is the user's, which is there as the user wrote it.
Spared ==
  /\ mine \subseteq Sources /\ AllTexts
  /\ OwnFilesSurvive
  /\ DOMAIN proc = Processes
  /\ \A p \in Processes :
       DOMAIN proc[p] = Fields /\ (Running(p) => proc[p].steps # <<>> /\ Harmless(proc[p].steps, mine))

-----------------------------------------------------------------------------
(* Sequences of steps *)

\* The items of a sequence are those of either of two.
HasBoth(st, s, t) ==
  /\ Sequential(st)
  /\ \A i \in DOMAIN st : (\E j \in DOMAIN s : st[i] = s[j]) \/ (\E j \in DOMAIN t : st[i] = t[j])
  /\ \A j \in DOMAIN s : \E i \in DOMAIN st : st[i] = s[j]
  /\ \A j \in DOMAIN t : \E i \in DOMAIN st : st[i] = t[j]

LEMMA ItemsJoined ==
  ASSUME NEW s, Sequential(s), NEW t, Sequential(t)
  PROVE  HasBoth(s \o t, s, t)
<1>1. PICK S : s \in Seq(S)
  BY DEF Sequential
<1>2. PICK T : t \in Seq(T)
  BY DEF Sequential
<1> DEFINE U == S \cup T
<1>3. s \in Seq(U) /\ t \in Seq(U)
  BY <1>1, <1>2, SeqMonotonic
<1> HIDE DEF U
<1>4. /\ s \o t \in Seq(U) /\ Len(s) \in Nat /\ Len(t) \in Nat
      /\ DOMAIN s = 1 .. Len(s) /\ DOMAIN t = 1 .. Len(t) /\ DOMAIN (s \o t) = 1 .. Len(s) + Len(t)
      /\ \A i \in 1 .. Len(s) + Len(t) : (s \o t)[i] = IF i <= Len(s) THEN s[i] ELSE t[i - Len(s)]
  BY <1>3, ConcatProperties, LenProperties
<1>5. ASSUME NEW i \in DOMAIN (s \o t)
      PROVE  (\E j \in DOMAIN s : (s \o t)[i] = s[j]) \/ (\E j \in DOMAIN t : (s \o t)[i] = t[j])
  <2>1. CASE i <= Len(s)
    BY <1>4, <2>1
  <2>2. CASE ~ (i <= Len(s))
    <3>1. i - Len(s) \in DOMAIN t
      BY <1>4, <2>2
    <3> QED  BY <1>4, <2>2, <3>1
  <2> QED  BY <2>1, <2>2
<1>6. ASSUME NEW j \in DOMAIN s PROVE j \in DOMAIN (s \o t) /\ (s \o t)[j] = s[j]
  BY <1>4
<1>7. ASSUME NEW j \in DOMAIN t PROVE j + Len(s) \in DOMAIN (s \o t) /\ (s \o t)[j + Len(s)] = t[j]
  <2>1. j + Len(s) - Len(s) = j /\ ~ (j + Len(s) <= Len(s)) /\ j + Len(s) \in 1 .. Len(s) + Len(t)
    BY <1>4
  <2> QED  BY <1>4, <2>1
<1> QED  BY <1>4, <1>5, <1>6, <1>7 DEF HasBoth, Sequential

\* The items of a sequence are its first and those of the rest.
LEMMA FirstOrLater ==
  ASSUME NEW s, Sequential(s), s # <<>>
  PROVE  /\ Sequential(Tail(s))
         /\ 1 \in DOMAIN s /\ Head(s) = s[1]
         /\ \A i \in DOMAIN Tail(s) : i + 1 \in DOMAIN s /\ Tail(s)[i] = s[i + 1]
         /\ \A i \in DOMAIN s : i = 1 \/ (i - 1 \in DOMAIN Tail(s) /\ Tail(s)[i - 1] = s[i])
         /\ Len(s) # 1 => Tail(s) # <<>>
         /\ Len(s) = 1 => DOMAIN s = {1}
<1>1. PICK S : s \in Seq(S)
  BY DEF Sequential
<1>2. /\ Tail(s) \in Seq(S) /\ Len(s) \in Nat /\ Len(s) >= 1 /\ Head(s) = s[1]
      /\ DOMAIN s = 1 .. Len(s) /\ DOMAIN Tail(s) = 1 .. Len(s) - 1
      /\ \A i \in 1 .. Len(s) - 1 : Tail(s)[i] = s[i + 1]
  BY <1>1, HeadTailProperties, LenProperties, EmptySeq
<1>3. ASSUME NEW i \in DOMAIN s PROVE i = 1 \/ (i - 1 \in DOMAIN Tail(s) /\ Tail(s)[i - 1] = s[i])
  BY <1>2
<1>4. ASSUME Len(s) # 1 PROVE Tail(s) # <<>>
  <2>1. 1 \in DOMAIN Tail(s)
    BY <1>2, <1>4
  <2>2. DOMAIN <<>> = {}
    OBVIOUS
  <2> QED  BY <2>1, <2>2
<1> QED  BY <1>2, <1>3, <1>4 DEF Sequential

LEMMA Concatenated ==
  ASSUME NEW users, NEW s, Harmless(s, users), NEW t, Harmless(t, users)
  PROVE  Harmless(s \o t, users)
<1> DEFINE st == s \o t
<1>1. HasBoth(st, s, t)
  BY ItemsJoined, Zenon DEF Harmless
<1> HIDE DEF st
<1>2. Harmless(st, users)
  BY <1>1 DEF HasBoth, Harmless, Spares
<1> QED  BY <1>2 DEF st

\* The first step of a harmless sequence is harmless, and so is the rest.
LEMMA FirstAndRest ==
  ASSUME NEW users, NEW s, Harmless(s, users), s # <<>>
  PROVE  /\ Harmless(Tail(s), users)
         /\ Safe(Head(s), users)
  BY FirstOrLater DEF Harmless, Spares

LEMMA OneStep ==
  ASSUME NEW users, NEW step, Safe(step, users)
  PROVE  Harmless(<<step>>, users)
<1>1. <<step>> \in Seq({step})
  OBVIOUS
<1>2. DOMAIN <<step>> = {1} /\ <<step>>[1] = step
  OBVIOUS
<1>3. QED
  BY <1>1, <1>2 DEF Harmless, Sequential, Spares

LEMMA NoStep == \A users : Harmless(<<>>, users)
<1>1. <<>> \in Seq({})
  OBVIOUS
<1>2. QED
  BY <1>1 DEF Harmless, Sequential, Spares

Makes(command) == command.do = "new" /\ command.kind # "workspace"

\* A new for a binary or a library is one for either.
LEMMA NewKinds ==
  ASSUME NEW line, line \in Seq({line[i] : i \in DOMAIN line}), Makes(Asked(line))
  PROVE  Asked(line).kind \in {"bin", "lib"}
<1> DEFINE c == IF line = <<>> THEN "help" ELSE line[1].t
           a == Tail(line)
<1>1. Asked(line) = parse_command(line)
  BY DEF Asked, Makes, Ask
<1>2. /\ parse_build_command(a).do # "new" /\ parse_test_command(a).do # "new"
      /\ parse_add_command(a).do # "new" /\ Refused.do # "new" /\ \A do : Ask(do).do = do
  BY DEF parse_build_command, parse_test_command, parse_add_command, Refused, Ask
<1>3. c = "new" /\ parse_command(line) = parse_new_command(a)
  <2>1. "new" \notin Alone /\ "new" \notin DOMAIN Flag
    BY DEF Alone, Flag
  <2>2. ASSUME c # "new" PROVE parse_command(line).do # "new"
    BY <1>2, <2>1, <2>2 DEF parse_command
  <2>3. ASSUME c = "new" PROVE parse_command(line) = parse_new_command(a)
    BY <2>1, <2>3 DEF parse_command
  <2> QED  BY <1>1, <2>2, <2>3 DEF Makes
<1>4. line # <<>> /\ a \in Seq({line[i] : i \in DOMAIN line})
  <2>1. line # <<>>
    BY <1>3
  <2> QED  BY <2>1, HeadTailProperties
<1> HIDE DEF a
<1>5. /\ Len(a) \in {1, 2} /\ Only(Tail(a), {KindOf[k] : k \in DOMAIN KindOf})
      /\ parse_new_command(a).kind = IF Len(a) = 1 THEN "bin" ELSE CHOOSE k \in DOMAIN KindOf : KindOf[k] = a[2].t
  <2>1. parse_new_command(a) # Refused
    BY <1>1, <1>2, <1>3 DEF Makes
  <2>2. Len(a) \in Nat /\ (Len(a) = 0 <=> a = <<>>)
    <3>1. PICK S : a \in Seq(S)
      BY <1>4
    <3> QED  BY <3>1, EmptySeq, LenProperties
  <2>3. a # <<>> /\ ~ (Len(a) > 2)
    BY <2>1, Zenon DEF parse_new_command
  <2>4. Only(Tail(a), {KindOf[k] : k \in DOMAIN KindOf})
    BY <2>1, Zenon DEF parse_new_command
  <2> DEFINE kind == IF Len(a) = 1 THEN "bin" ELSE CHOOSE k \in DOMAIN KindOf : KindOf[k] = a[2].t
  <2>5. parse_new_command(a) = [do |-> "new", kind |-> kind]
    BY <2>3, <2>4, Zenon DEF parse_new_command
  <2>6. parse_new_command(a).kind = kind
    <3> HIDE DEF kind
    <3> QED  BY <2>5
  <2>7. Len(a) \in {1, 2}
    <3>1. Len(a) \in Nat /\ Len(a) # 0 /\ ~ (Len(a) > 2)
      BY <2>2, <2>3, Zenon
    <3>2. \A n \in Nat : n # 0 /\ ~ (n > 2) => n \in {1, 2}
      OBVIOUS
    <3> QED  BY <3>1, <3>2, Zenon
  <2> QED  BY <2>4, <2>6, <2>7, Zenon
<1>6. DOMAIN KindOf = {"bin", "lib", "workspace"}
  BY DEF KindOf
<1>7. CASE Len(a) = 1
  BY <1>1, <1>3, <1>5, <1>7
<1>8. CASE Len(a) = 2
  <2>1. 1 \in DOMAIN Tail(a) /\ Tail(a)[1] = a[2]
    <3>1. PICK S : a \in Seq(S)
      BY <1>4
    <3>3. a # <<>>
      BY <1>8, EmptySeq
    <3>2. /\ Tail(a) \in Seq(S) /\ Len(Tail(a)) = 1
          /\ \A i \in 1 .. Len(Tail(a)) : Tail(a)[i] = a[i + 1]
      BY <1>8, <3>1, <3>3, HeadTailProperties
    <3>4. DOMAIN Tail(a) = 1 .. 1
      BY <3>2, LenProperties
    <3> QED  BY <3>2, <3>4
  <2>2. a[2].t \in {KindOf[k] : k \in DOMAIN KindOf}
    BY <1>5, <2>1 DEF Only
  <2>3. parse_new_command(a).kind \in DOMAIN KindOf
    BY <1>5, <1>8, <2>2
  <2> QED  BY <1>1, <1>3, <1>6, <2>3 DEF Makes
<1> QED  BY <1>5, <1>7, <1>8

\* A command begins by looking and starting, never by writing.
LEMMA CommandsLookFirst ==
  ASSUME NEW users, NEW command, Makes(command) => command.kind \in {"bin", "lib"}
  PROVE  Harmless(StepsOf(command), users)
<1>1. ASSUME NEW op, op \notin {"unless", "open", "fill", "start"} PROVE Harmless(Just(op), users)
  BY <1>1, OneStep DEF Just, Safe
<1>3. ASSUME NEW program PROVE Harmless(<<Start(program)>>, users)
  BY OneStep DEF Start, Safe
<1>4. ASSUME NEW path, NEW lines, IsText(lines) PROVE Harmless(<<Unless(path, lines)>>, users)
  BY <1>4, OneStep DEF Unless, Safe
<1>5. ASSUME NEW kind, kind # "workspace" => kind \in {"bin", "lib"} PROVE Harmless(create_project(kind), users)
  <2>1. Harmless(Just("mkdir"), users)
    BY <1>1
  <2>2. Harmless(Just("mkdir") \o <<Unless(Manifest, NewManifest(kind))>>, users)
    BY <1>4, <2>1, NewText, Concatenated
  <2>3. kind # "workspace" => Harmless(Just("mkdir") \o <<Unless(SourceOf[kind], Template[kind])>>, users)
    BY <1>4, <1>5, <2>1, NewText, Concatenated
  <2>4. Harmless(IF kind = "workspace" THEN <<>> ELSE Just("mkdir") \o <<Unless(SourceOf[kind], Template[kind])>>, users)
    BY <2>3, NoStep
  <2>5. QED
    BY <2>2, <2>4, Concatenated DEF create_project
<1>6. Harmless(<<Start("doc")>> \o (IF command.flag THEN Just("browse") ELSE <<>>), users)
  <2>1. Harmless(Just("browse"), users)
    BY <1>1
  <2>2. Harmless(IF command.flag THEN Just("browse") ELSE <<>>, users)
    BY <2>1, NoStep
  <2>3. QED
    BY <1>3, <2>2, Concatenated
<1>7. Harmless(Just("edit"), users) /\ Harmless(Just("layout"), users) /\ Harmless(Just("resolve"), users)
  BY <1>1
<1>8. Harmless(Lint, users)
  <2> DEFINE step == [Start("clippy --workspace") EXCEPT !.otherwise = <<Start("clippy")>>]
  <2>1. step.op = "start" /\ step.otherwise = <<Start("clippy")>>
    BY DEF Start
  <2>2. Safe(step, users)
    BY <2>1 DEF Safe
  <2> HIDE DEF step
  <2>3. Harmless(<<step>>, users)
    BY <2>2, OneStep
  <2>4. QED
    BY <2>3 DEF Lint, step
<1>9. /\ command.do = "new" => Harmless(create_project(command.kind), users)
      /\ Harmless(<<Start(command.do)>>, users) /\ Harmless(<<>>, users)
  BY <1>3, <1>5, NoStep DEF Makes
<1>10. \/ command.do = "new" /\ StepsOf(command) = create_project(command.kind)
       \/ StepsOf(command) \in {Just("edit"), Just("layout"), Just("resolve"), Lint, <<>>, <<Start(command.do)>>}
       \/ StepsOf(command) = <<Start("doc")>> \o (IF command.flag THEN Just("browse") ELSE <<>>)
  BY Zenon DEF StepsOf
<1>11. QED
  BY <1>6, <1>7, <1>8, <1>9, <1>10

-----------------------------------------------------------------------------
(* Processes *)

LEMMA Paths == Manifest \notin Sources
  BY DEF Manifest, Sources, Main, Library, Flat

LEMMA InitSpared == Init => Spared
<1> SUFFICES ASSUME Init PROVE Spared
  OBVIOUS
<1>1. mine \subseteq Sources /\ OwnFilesSurvive /\ AllTexts
  BY ProjectsAssumption DEF Init, OwnFilesSurvive, Exists, AllTexts
<1>2. DOMAIN Idle = Fields /\ Idle.is # "running"
  BY DEF Idle, Fields
<1>3. QED
  BY <1>1, <1>2 DEF Init, Spared, Running

\* A process that goes on with harmless steps, or stops, spares what it spared.
LEMMA ProcessGoesOn ==
  ASSUME Spared, NEW p \in Processes, mine' = mine,
         \/ \E steps : Continue(p, steps) /\ Harmless(steps, mine)
         \/ \E is \in {"failed", "ok"} : \E why : Stop(p, is, why)
  PROVE  /\ DOMAIN proc' = Processes
         /\ \A q \in Processes :
              DOMAIN proc'[q] = Fields /\ (proc'[q].is = "running" => proc'[q].steps # <<>> /\ Harmless(proc'[q].steps, mine))
<1>1. DOMAIN proc = Processes /\ DOMAIN proc[p] = Fields
  BY DEF Spared
<1>2. ASSUME NEW is \in {"failed", "ok"}, NEW why
      PROVE  DOMAIN Over(p, is, why) = Fields /\ Over(p, is, why).is = is
  BY DEF Over, Idle, Fields
<1>3. ASSUME NEW is \in {"failed", "ok"}, NEW why, Stop(p, is, why)
      PROVE  /\ DOMAIN proc' = Processes
             /\ \A q \in Processes :
                  DOMAIN proc'[q] = Fields /\ (proc'[q].is = "running" => proc'[q].steps # <<>> /\ Harmless(proc'[q].steps, mine))
  <2>1. /\ DOMAIN proc' = Processes
        /\ proc'[p] = Over(p, is, why) /\ \A q \in Processes \ {p} : proc'[q] = proc[q]
    BY <1>1, <1>3 DEF Stop
  <2>2. DOMAIN proc'[p] = Fields /\ proc'[p].is # "running"
    BY <1>2, <2>1
  <2>3. QED
    BY <2>1, <2>2 DEF Spared, Running
<1>4. ASSUME NEW steps, steps # <<>>, Harmless(steps, mine), proc' = [proc EXCEPT ![p].steps = steps]
      PROVE  /\ DOMAIN proc' = Processes
             /\ \A q \in Processes :
                  DOMAIN proc'[q] = Fields /\ (proc'[q].is = "running" => proc'[q].steps # <<>> /\ Harmless(proc'[q].steps, mine))
  <2> DEFINE next == [proc[p] EXCEPT !.steps = steps]
  <2>1. DOMAIN next = Fields /\ next.steps = steps
    BY <1>1 DEF Fields
  <2>2. proc' = [proc EXCEPT ![p] = next]
    BY <1>4
  <2> HIDE DEF next
  <2>3. /\ DOMAIN proc' = Processes
        /\ proc'[p] = next /\ \A q \in Processes \ {p} : proc'[q] = proc[q]
    BY <1>1, <2>2
  <2>4. QED
    BY <1>4, <2>1, <2>3 DEF Spared, Running
<1>5. QED
  BY <1>3, <1>4 DEF Continue

\* A command is read.
LEMMA TypeSpares ==
  ASSUME Spared, NEW p \in Processes, NEW line \in CommandLines[p], Type(p, Asked(line))
  PROVE  Spared'
<1> DEFINE command == Asked(line)
           others == {q \in Processes : Running(q)}
           steps  == IF command = Refused THEN <<>> ELSE StepsOf(command)
           begun  == [command |-> command, steps |-> steps, why |-> "",
                      is |-> IF command = Refused THEN "failed" ELSE IF steps = <<>> THEN "ok" ELSE "running",
                      alone |-> others = {}, before |-> LinesOf(Manifest), ready |-> \E q \in Processes : proc[q].ready]
<1>1. /\ proc' = [q \in Processes |->
                   IF q = p THEN begun ELSE IF q \in others THEN [proc[q] EXCEPT !.alone = FALSE] ELSE proc[q]]
      /\ UNCHANGED <<files, mine>>
  BY DEF Type
<1>2. Harmless(steps, mine)
  <2>1. Makes(command) => command.kind \in {"bin", "lib"}
    BY NewKinds, CommandLinesAssumption
  <2> HIDE DEF command
  <2> QED  BY <2>1, CommandsLookFirst, NoStep
<1>3. DOMAIN begun = Fields /\ begun.steps = steps /\ (begun.is = "running" => steps # <<>>)
  BY DEF Fields
<1> HIDE DEF steps, begun, others
<1>4. ASSUME NEW q \in Processes
      PROVE  DOMAIN proc'[q] = Fields /\ (proc'[q].is = "running" => proc'[q].steps # <<>> /\ Harmless(proc'[q].steps, mine))
  <2>1. CASE q = p
    BY <1>1, <1>2, <1>3, <2>1
  <2>2. CASE q # p
    <3>1. DOMAIN proc[q] = Fields /\ (proc[q].is = "running" => proc[q].steps # <<>> /\ Harmless(proc[q].steps, mine))
      BY DEF Spared, Running
    <3>2. proc'[q] = [proc[q] EXCEPT !.alone = FALSE] \/ proc'[q] = proc[q]
      BY <1>1, <2>2
    <3>3. /\ DOMAIN [proc[q] EXCEPT !.alone = FALSE] = Fields
          /\ [proc[q] EXCEPT !.alone = FALSE].is = proc[q].is
          /\ [proc[q] EXCEPT !.alone = FALSE].steps = proc[q].steps
      BY <3>1 DEF Fields
    <3>4. QED
      BY <3>1, <3>2, <3>3
  <2>3. QED
    BY <2>1, <2>2
<1>5. QED
  BY <1>1, <1>4 DEF Spared, Running, OwnFilesSurvive, Exists, AllTexts

\* Writing a text to a path that is not the user's keeps what is.
LEMMA PutSpares ==
  ASSUME OwnFilesSurvive, AllTexts, NEW path, path \notin mine, NEW lines, IsText(lines),
         Put(path, lines), mine' = mine
  PROVE  OwnFilesSurvive' /\ AllTexts'
<1>1. QED
  BY DEF OwnFilesSurvive, Put, Exists, AllTexts

\* The user writes a source while nothing runs.
LEMMA WriteByHandSpares ==
  ASSUME Spared, NEW path \in Sources, WriteByHand(path)
  PROVE  Spared'
<1>1. /\ (\A p \in Processes : ~ Running(p))
      /\ proc' = proc /\ mine' = mine \cup {path}
      /\ files' = [f \in DOMAIN files \cup {path} |-> IF f = path THEN <<Own>> ELSE files[f]]
  BY DEF WriteByHand, Put
<1>2. OwnFilesSurvive' /\ AllTexts'
  BY <1>1, NewText DEF Spared, OwnFilesSurvive, Exists, AllTexts
<1>3. QED
  BY <1>1, <1>2 DEF Spared, Running

-----------------------------------------------------------------------------
(* One step of a process *)

\* A running process's steps are harmless, the first one and the rest.
LEMMA RunningIsHarmless ==
  ASSUME Spared, NEW p \in Processes, Running(p)
  PROVE  Harmless(Rest(p), mine) /\ Safe(Step(p), mine)
<1>1. QED
  BY FirstAndRest DEF Spared, Rest, Step

\* However a process goes on, what it has left to do is harmless.
LEMMA WorkGoesOn ==
  ASSUME Spared, NEW p \in Processes, Works(p)
  PROVE  \/ \E steps : Continue(p, steps) /\ Harmless(steps, mine)
         \/ \E is \in {"failed", "ok"} : \E why : Stop(p, is, why)
<1>1. Running(p)
  BY DEF Works, CreateDirectory, LookBeforeWriting, OpenEmpty, FillFile, ReadToEdit, DetectLayout, ListEntries,
         FindEntry, RunCompiler, RunProgram, OpenDocs, ResolveDependencies, Due
<1>2. Harmless(Rest(p), mine) /\ Safe(Step(p), mine) /\ Harmless(<<>>, mine)
  BY <1>1, RunningIsHarmless, NoStep
<1>3. ASSUME NEW path, path \notin mine, NEW lines, IsText(lines) PROVE Harmless(WriteOut(path, lines), mine)
  <2>1. Safe(Open(path), mine) /\ Safe(Fill(path, lines), mine)
    BY <1>3 DEF Open, Fill, Safe
  <2>2. \A i \in DOMAIN WriteOut(path, lines) : Safe(WriteOut(path, lines)[i], mine)
    BY <2>1 DEF WriteOut
  <2>3. WriteOut(path, lines) \in Seq({Open(path), Fill(path, lines)})
    BY DEF WriteOut
  <2>4. QED
    BY <2>2, <2>3 DEF Harmless, Sequential, Spares
<1>4. ASSUME NEW program PROVE Harmless(Just("entry"), mine) /\ Harmless(<<Start(program)>>, mine)
  BY OneStep DEF Just, Start, Safe
<1>5. ASSUME NEW paths, NEW entry PROVE Harmless(<<Find(paths)>>, mine) /\ Harmless(<<Compile(entry, paths)>>, mine)
  BY OneStep DEF Find, Compile, Safe
<1>6. ASSUME LookBeforeWriting(p) PROVE \E steps : Continue(p, steps) /\ Harmless(steps, mine)
  <2>1. CASE Exists(Step(p).path)
    <3>1. Continue(p, <<>> \o Rest(p))
      BY <1>6, <2>1 DEF LookBeforeWriting
    <3>2. QED
      BY <1>2, <3>1, Concatenated
  <2>2. CASE ~ Exists(Step(p).path)
    <3>1. Continue(p, WriteOut(Step(p).path, Step(p).lines) \o Rest(p))
      BY <1>6, <2>2 DEF LookBeforeWriting
    <3>2. Step(p).path \notin mine /\ IsText(Step(p).lines)
      <4>1. Step(p).op = "unless"
        BY <1>6 DEF LookBeforeWriting, Due, Step
      <4> QED  BY <1>2, <2>2, <4>1 DEF Spared, OwnFilesSurvive, Safe
    <3>3. QED
      BY <1>2, <1>3, <3>1, <3>2, Concatenated
  <2>3. QED
    BY <2>1, <2>2
<1>7. ASSUME ReadToEdit(p)
      PROVE  \/ \E steps : Continue(p, steps) /\ Harmless(steps, mine)
             \/ \E is \in {"failed", "ok"} : \E why : Stop(p, is, why)
  <2>1. Manifest \notin mine
    BY Paths DEF Spared
  <2>2. Exists(Manifest) => IsText(Edited(proc[p].command, files[Manifest]))
    BY EditedText DEF Spared, AllTexts, Exists
  <2>3. QED
    BY <1>3, <1>7, <2>1, <2>2 DEF ReadToEdit
<1>8. ASSUME RunProgram(p)
      PROVE  \/ \E steps : Continue(p, steps) /\ Harmless(steps, mine)
             \/ \E is \in {"failed", "ok"} : \E why : Stop(p, is, why)
  <2>1. Step(p).op = "start"
    BY <1>8 DEF RunProgram, Due, Step
  <2>2. Harmless(Step(p).otherwise, mine)
    BY <1>2, <1>4, <2>1 DEF Safe
  <2>3. QED
    BY <1>2, <1>8, <2>2 DEF RunProgram
<1>9. DetectLayout(p)
        => \/ \E steps : Continue(p, steps) /\ Harmless(steps, mine)
           \/ \E is \in {"failed", "ok"} : \E why : Stop(p, is, why)
  BY <1>4 DEF DetectLayout
<1>10. ListEntries(p) => \E steps : Continue(p, steps) /\ Harmless(steps, mine)
  BY <1>5 DEF ListEntries
<1>11. FindEntry(p) \/ RunCompiler(p)
         => \/ \E steps : Continue(p, steps) /\ Harmless(steps, mine)
            \/ \E is \in {"failed", "ok"} : \E why : Stop(p, is, why)
  BY <1>2, <1>5 DEF FindEntry, RunCompiler
<1>12. CreateDirectory(p) \/ OpenEmpty(p) \/ FillFile(p) \/ OpenDocs(p) \/ ResolveDependencies(p)
         => \/ \E steps : Continue(p, steps) /\ Harmless(steps, mine)
            \/ \E is \in {"failed", "ok"} : \E why : Stop(p, is, why)
  BY <1>2 DEF CreateDirectory, OpenEmpty, FillFile, OpenDocs, ResolveDependencies
<1>13. QED
  BY <1>6, <1>7, <1>8, <1>9, <1>10, <1>11, <1>12 DEF Works

\* What a process writes, at work or as it breaks off, is a text, and not the user's.
LEMMA WritesSpare ==
  ASSUME Spared, NEW p \in Processes, mine' = mine, Works(p) \/ DiskFails(p) \/ Killed(p)
  PROVE  OwnFilesSurvive' /\ AllTexts'
<1>1. CASE files' = files
  BY <1>1 DEF Spared, OwnFilesSurvive, Exists, AllTexts
<1>2. ASSUME Running(p), Step(p).op \in {"open", "fill"}, NEW lines, IsText(lines), Put(Step(p).path, lines)
      PROVE  OwnFilesSurvive' /\ AllTexts'
  <2>1. Step(p).path \notin mine
    BY <1>2, RunningIsHarmless DEF Safe
  <2>2. QED
    BY <1>2, <2>1, PutSpares DEF Spared
<1>3. CASE OpenEmpty(p)
  <2>1. Running(p) /\ Step(p).op \in {"open", "fill"} /\ Put(Step(p).path, <<>>)
    BY <1>3 DEF OpenEmpty, Due, Step
  <2>2. QED
    BY <1>2, <2>1, NoText
<1>4. ASSUME Running(p), Step(p).op = "fill" PROVE IsText(Step(p).lines) /\ IsText(LinesOf(Step(p).path))
  BY <1>4, RunningIsHarmless, NoText DEF Safe, Spared, AllTexts, LinesOf, Exists
<1>5. CASE FillFile(p)
  <2> DEFINE lines == Step(p).lines
             there == LinesOf(Step(p).path)
             Mixed(n) == lines \o <<Torn>> \o SubSeq(there, Len(there) + 1 - n, Len(there))
  <2>1. /\ Running(p) /\ Step(p).op = "fill"
        /\ \/ Put(Step(p).path, lines)
           \/ \E n \in {c \in Cuts : c <= Len(there)} : Put(Step(p).path, Mixed(n))
    BY <1>5 DEF FillFile, Due, Step
  <2>2. IsText(lines) /\ IsText(there)
    BY <1>4, <2>1
  <2> HIDE DEF there, lines
  <2>3. ASSUME NEW n \in Cuts, n <= Len(there) PROVE IsText(Mixed(n))
    <3>1. Len(there) \in Nat /\ n \in Nat
      BY <2>2, Numbered, CutsAssumption DEF IsText, Sequential
    <3>2. Len(there) + 1 - n \in 1 .. Len(there) + 1 /\ Len(there) \in Len(there) + 1 - n - 1 .. Len(there)
      BY <2>3, <3>1
    <3>3. IsText(SubSeq(there, Len(there) + 1 - n, Len(there)))
      BY <2>2, <3>2, PartOfText
    <3>4. IsText(lines \o <<Torn>>)
      BY <2>2, NewText, TextsJoined
    <3> QED  BY <3>3, <3>4, TextsJoined
  <2> HIDE DEF Mixed
  <2>4. \E out : IsText(out) /\ Put(Step(p).path, out)
    BY <2>1, <2>2, <2>3
  <2>5. QED
    BY <1>2, <2>1, <2>4
<1>6. CASE DiskFails(p) \/ Killed(p)
  <2> DEFINE lines == Step(p).lines
  <2>1. Running(p) /\ LeaveHalf(p)
    BY <1>6 DEF DiskFails, Killed
  <2>2. CASE Step(p).op = "fill"
    <3>1. PICK n \in Cuts, torn \in {<<>>, <<Torn>>} :
            n < Len(lines) /\ Put(Step(p).path, SubSeq(lines, 1, n) \o torn)
      BY <2>1, <2>2 DEF LeaveHalf
    <3>2. IsText(lines)
      BY <1>4, <2>1, <2>2
    <3> HIDE DEF lines
    <3>3. Len(lines) \in Nat /\ n \in Nat
      BY <3>2, Numbered, CutsAssumption DEF IsText, Sequential
    <3>4. 1 \in 1 .. Len(lines) + 1 /\ n \in 1 - 1 .. Len(lines)
      BY <3>1, <3>3
    <3>5. IsText(SubSeq(lines, 1, n))
      BY <3>2, <3>4, PartOfText
    <3>6. IsText(SubSeq(lines, 1, n) \o torn)
      BY <3>5, NewText, NoText, TextsJoined
    <3> QED  BY <1>2, <2>1, <2>2, <3>1, <3>6
  <2>3. QED
    BY <1>1, <2>1, <2>2 DEF LeaveHalf
<1>7. QED
  BY <1>1, <1>3, <1>5, <1>6 DEF Works, CreateDirectory, LookBeforeWriting, ReadToEdit, DetectLayout, ListEntries,
         FindEntry, RunCompiler, RunProgram, OpenDocs, ResolveDependencies

LEMMA NextSpared == Spared /\ [Next]_vars => Spared'
<1> SUFFICES ASSUME Spared, [Next]_vars PROVE Spared'
  OBVIOUS
<1>1. CASE UNCHANGED vars
  BY <1>1 DEF vars, Spared, Running, OwnFilesSurvive, Exists, AllTexts
<1>2. ASSUME NEW p \in Processes, mine' = mine, Works(p) \/ DiskFails(p) \/ Killed(p) PROVE Spared'
  <2>1. OwnFilesSurvive' /\ AllTexts'
    BY <1>2, WritesSpare
  <2>2. \/ \E steps : Continue(p, steps) /\ Harmless(steps, mine)
        \/ \E is \in {"failed", "ok"} : \E why : Stop(p, is, why)
    BY <1>2, WorkGoesOn DEF DiskFails, Killed
  <2>3. /\ DOMAIN proc' = Processes
        /\ \A q \in Processes :
             DOMAIN proc'[q] = Fields /\ (proc'[q].is = "running" => proc'[q].steps # <<>> /\ Harmless(proc'[q].steps, mine))
    BY <1>2, <2>2, ProcessGoesOn
  <2>4. QED
    BY <1>2, <2>1, <2>3 DEF Spared, Running
<1>3. QED
  BY <1>1, <1>2, TypeSpares, WriteByHandSpares DEF Next

\* What the user wrote in a source stays as it is, for any processes running any commands
\* in any order, beside each other, failing or killed.
THEOREM OwnFilesAreSpared == Spec => []OwnFilesSurvive
<1>1. Spared => OwnFilesSurvive
  BY DEF Spared
<1>2. QED
  BY <1>1, InitSpared, NextSpared, PTL DEF Spec

-----------------------------------------------------------------------------
(* What izel new has made can be built *)

(* No file is ever removed, so a project that was made stays one.  A command that makes    *)
(* one still has, for each of its two files, a step that makes it or the file itself; a    *)
(* command that looks for a source still has one in view.                                  *)

MakeOps == {"mkdir", "unless", "open", "fill"}

\* Of the paths D there are, and the steps left, one is path or makes it.
Promised(D, steps, path) ==
  path \in D \/ \E i \in DOMAIN steps : steps[i].op \in {"unless", "open"} /\ steps[i].path = path

Made(D) == Manifest \in D /\ (Main \in D \/ Library \in D)

\* A step that looks for a source, of a command begun in a project, has one in view.
InView(D, ready, step) ==
  step.op = "find" =>
    /\ Sequential(step.paths) /\ step.paths # <<>>
    /\ ready => \E i \in DOMAIN step.paths : step.paths[i] \in D

\* The steps a command has left lead to what it is to find or to make.
Leads(D, ready, command, steps) ==
  /\ \A i \in DOMAIN steps : InView(D, ready, steps[i])
  /\ Makes(command) => /\ \A i \in DOMAIN steps : steps[i].op \in MakeOps
                       /\ Promised(D, steps, Manifest)
                       /\ Promised(D, steps, Main) \/ Promised(D, steps, Library)

Buildable ==
  \A p \in Processes :
    /\ proc[p].ready => Made(DOMAIN files)
    /\ proc[p].ready => proc[p].why \notin {"layout", "entry"}
    /\ Running(p) => Leads(DOMAIN files, proc[p].ready, proc[p].command, proc[p].steps)

\* The paths where a source is looked for hold those of the templates.
LEMMA TemplatesAreCandidates ==
  ASSUME NEW lines
  PROVE  /\ Sequential(entry_candidates(lines)) /\ entry_candidates(lines) # <<>>
         /\ \A path \in {Main, Library} : \E i \in DOMAIN entry_candidates(lines) : entry_candidates(lines)[i] = path
<1> DEFINE own == parse_bin_path_from_manifest(lines)
<1>1. PICK S : own \in Seq(S) /\ Len(own) \in {0, 1}
  <2>1. own = <<>> \/ \E path : own = <<path>>
    BY DEF parse_bin_path_from_manifest
  <2> HIDE DEF own
  <2>2. CASE own = <<>>
    <3>1. own \in Seq({}) /\ Len(own) = 0
      BY <2>2
    <3> QED  BY <3>1
  <2>3. ASSUME NEW path, own = <<path>> PROVE \E S : own \in Seq(S) /\ Len(own) \in {0, 1}
    <3>1. own \in Seq({path}) /\ Len(own) = 1
      BY <2>3
    <3> QED  BY <3>1
  <2> QED  BY <2>1, <2>2, <2>3
<1> HIDE DEF own
<1> DEFINE fixed == <<Main, Flat, Library>>
           U == S \cup {Main, Flat, Library}
<1>2. own \in Seq(U) /\ fixed \in Seq(U) /\ Len(fixed) = 3 /\ fixed[1] = Main /\ fixed[3] = Library
  BY <1>1, SeqMonotonic
<1> HIDE DEF fixed, U
<1>3. /\ own \o fixed \in Seq(U) /\ DOMAIN (own \o fixed) = 1 .. Len(own) + 3
      /\ (own \o fixed)[Len(own) + 1] = Main /\ (own \o fixed)[Len(own) + 3] = Library
  <2>1. /\ own \o fixed \in Seq(U) /\ Len(own \o fixed) = Len(own) + Len(fixed)
        /\ \A i \in 1 .. Len(own) + Len(fixed) :
             (own \o fixed)[i] = IF i <= Len(own) THEN own[i] ELSE fixed[i - Len(own)]
    BY <1>2, ConcatProperties
  <2>2. DOMAIN (own \o fixed) = 1 .. Len(own) + 3
    BY <1>2, <2>1, LenProperties
  <2> QED  BY <1>1, <1>2, <2>1, <2>2
<1>4. entry_candidates(lines) = own \o fixed
  BY DEF entry_candidates, own, fixed
<1>5. own \o fixed # <<>>
  BY <1>1, <1>3, EmptySeq
<1> QED  BY <1>1, <1>3, <1>4, <1>5 DEF Sequential

\* What is there stays there.
LEMMA LeadsOn ==
  ASSUME NEW D, NEW E, D \subseteq E, NEW ready, NEW command, NEW steps, Leads(D, ready, command, steps)
  PROVE  Leads(E, ready, command, steps)
  BY DEF Leads, InView, Promised

\* The first step is done: a file it was to make is there, or a step that makes it takes
\* its place.
LEMMA StepDone ==
  ASSUME NEW D, NEW E, D \subseteq E, NEW ready, NEW command,
         NEW steps, Sequential(steps), steps # <<>>, Leads(D, ready, command, steps),
         Head(steps).op \in {"unless", "open"} => Head(steps).path \in E
  PROVE  Leads(E, ready, command, Tail(steps))
<1>1. ASSUME NEW path, Promised(D, steps, path) PROVE Promised(E, Tail(steps), path)
  <2>1. CASE path \in D
    BY <2>1 DEF Promised
  <2>2. ASSUME NEW i \in DOMAIN steps, steps[i].op \in {"unless", "open"}, steps[i].path = path
        PROVE  Promised(E, Tail(steps), path)
    <3>1. i = 1 \/ (i - 1 \in DOMAIN Tail(steps) /\ Tail(steps)[i - 1] = steps[i])
      BY FirstOrLater
    <3>2. Head(steps) = steps[1]
      BY FirstOrLater
    <3>3. CASE i = 1
      <4>1. path \in E
        BY <2>2, <3>2, <3>3
      <4> QED  BY <4>1 DEF Promised
    <3>4. CASE i - 1 \in DOMAIN Tail(steps) /\ Tail(steps)[i - 1] = steps[i]
      BY <2>2, <3>4 DEF Promised
    <3> QED  BY <3>1, <3>3, <3>4
  <2> QED  BY <1>1, <2>1, <2>2 DEF Promised
<1>2. \A i \in DOMAIN Tail(steps) : InView(E, ready, Tail(steps)[i])
  BY FirstOrLater DEF Leads, InView
<1>3. Makes(command) => \A i \in DOMAIN Tail(steps) : Tail(steps)[i].op \in MakeOps
  BY FirstOrLater DEF Leads
<1> QED  BY <1>1, <1>2, <1>3 DEF Leads

\* The steps of two sequences lead where either leads.
LEMMA LeadsJoined ==
  ASSUME NEW D, NEW ready, NEW command, NEW s, NEW t, NEW st, HasBoth(st, s, t),
         \A i \in DOMAIN s : InView(D, ready, s[i]), \A i \in DOMAIN t : InView(D, ready, t[i]),
         Makes(command) =>
           /\ \A i \in DOMAIN s : s[i].op \in MakeOps
           /\ \A i \in DOMAIN t : t[i].op \in MakeOps
           /\ Promised(D, s, Manifest) \/ Promised(D, t, Manifest)
           /\ \E path \in {Main, Library} : Promised(D, s, path) \/ Promised(D, t, path)
  PROVE  Leads(D, ready, command, st)
<1>1. ASSUME NEW path, Promised(D, s, path) \/ Promised(D, t, path) PROVE Promised(D, st, path)
  BY <1>1 DEF HasBoth, Promised
<1>2. \A i \in DOMAIN st : InView(D, ready, st[i])
  BY DEF HasBoth
<1>3. Makes(command) => \A i \in DOMAIN st : st[i].op \in MakeOps
  BY DEF HasBoth
<1> QED  BY <1>1, <1>2, <1>3 DEF Leads

\* However a process goes on or breaks off, what is made stays made and what it has left
\* leads on.
LEMMA ProcessLeadsOn ==
  ASSUME Spared, Buildable, NEW p \in Processes, DOMAIN files \subseteq DOMAIN files',
         \/ \E steps : Continue(p, steps) /\ Leads(DOMAIN files', proc[p].ready, proc[p].command, steps)
         \/ \E why : Stop(p, "failed", why) /\ (proc[p].ready => why \notin {"layout", "entry"})
  PROVE  Buildable'
<1>1. DOMAIN proc = Processes /\ DOMAIN proc[p] = Fields
  BY DEF Spared
<1>2. Made(DOMAIN files) => Made(DOMAIN files')
  BY DEF Made
<1>3. ASSUME NEW q \in Processes, proc'[q] = proc[q]
      PROVE  /\ proc'[q].ready => Made(DOMAIN files')
             /\ proc'[q].ready => proc'[q].why \notin {"layout", "entry"}
             /\ proc'[q].is = "running" => Leads(DOMAIN files', proc'[q].ready, proc'[q].command, proc'[q].steps)
  BY <1>2, <1>3, LeadsOn DEF Buildable, Running
<1>4. ASSUME NEW steps, steps # <<>>, proc' = [proc EXCEPT ![p].steps = steps],
             Leads(DOMAIN files', proc[p].ready, proc[p].command, steps)
      PROVE  Buildable'
  <2> DEFINE next == [proc[p] EXCEPT !.steps = steps]
  <2>1. /\ next.steps = steps /\ next.ready = proc[p].ready /\ next.why = proc[p].why
        /\ next.command = proc[p].command
    BY <1>1 DEF Fields
  <2>2. proc' = [proc EXCEPT ![p] = next]
    BY <1>4
  <2> HIDE DEF next
  <2>3. proc'[p] = next /\ \A q \in Processes \ {p} : proc'[q] = proc[q]
    BY <1>1, <2>2
  <2>4. ASSUME NEW q \in Processes
        PROVE  /\ proc'[q].ready => Made(DOMAIN files')
               /\ proc'[q].ready => proc'[q].why \notin {"layout", "entry"}
               /\ proc'[q].is = "running" => Leads(DOMAIN files', proc'[q].ready, proc'[q].command, proc'[q].steps)
    <3>1. CASE q = p
      BY <1>2, <1>4, <2>1, <2>3, <3>1 DEF Buildable
    <3> QED  BY <1>3, <2>3, <3>1
  <2> QED  BY <2>4 DEF Buildable, Running
<1>5. ASSUME NEW is \in {"ok", "failed"}, NEW why, Stop(p, is, why),
             proc[p].ready \/ (is = "ok" /\ Makes(proc[p].command)) => why \notin {"layout", "entry"},
             is = "ok" /\ Makes(proc[p].command) => Made(DOMAIN files')
      PROVE  Buildable'
  <2>1. /\ Over(p, is, why).is = is /\ Over(p, is, why).why = why
        /\ Over(p, is, why).ready <=> (proc[p].ready \/ (is = "ok" /\ Makes(proc[p].command)))
    BY DEF Over, Idle, Makes
  <2>2. proc'[p] = Over(p, is, why) /\ \A q \in Processes \ {p} : proc'[q] = proc[q]
    BY <1>1, <1>5 DEF Stop
  <2>3. ASSUME NEW q \in Processes
        PROVE  /\ proc'[q].ready => Made(DOMAIN files')
               /\ proc'[q].ready => proc'[q].why \notin {"layout", "entry"}
               /\ proc'[q].is = "running" => Leads(DOMAIN files', proc'[q].ready, proc'[q].command, proc'[q].steps)
    <3>1. CASE q = p
      BY <1>2, <1>5, <2>1, <2>2, <3>1 DEF Buildable
    <3> QED  BY <1>3, <2>2, <3>1
  <2> QED  BY <2>3 DEF Buildable, Running
<1>6. ASSUME Leads(DOMAIN files', proc[p].ready, proc[p].command, <<>>), Stop(p, "ok", "") PROVE Buildable'
  <2>1. DOMAIN <<>> = {}
    OBVIOUS
  <2>2. \A path : Promised(DOMAIN files', <<>>, path) => path \in DOMAIN files'
    BY <2>1 DEF Promised
  <2>3. Makes(proc[p].command) => Made(DOMAIN files')
    BY <1>6, <2>2 DEF Leads, Made
  <2> QED  BY <1>5, <1>6, <2>3
<1>7. ASSUME NEW why, Stop(p, "failed", why), proc[p].ready => why \notin {"layout", "entry"} PROVE Buildable'
  BY <1>5, <1>7
<1> QED  BY <1>4, <1>6, <1>7 DEF Continue

\* The steps are all of some kinds.
OfOps(steps, ops) == Sequential(steps) /\ \A i \in DOMAIN steps : steps[i].op \in ops

LEMMA OneOfOps ==
  ASSUME NEW step, NEW ops, step.op \in ops
  PROVE  OfOps(<<step>>, ops) /\ DOMAIN <<step>> = {1} /\ <<step>>[1] = step
<1>1. <<step>> \in Seq({step}) /\ DOMAIN <<step>> = {1} /\ <<step>>[1] = step
  OBVIOUS
<1> QED  BY <1>1 DEF OfOps, Sequential

LEMMA NoneOfOps == \A ops : OfOps(<<>>, ops)
<1>1. <<>> \in Seq({}) /\ DOMAIN <<>> = {}
  OBVIOUS
<1> QED  BY <1>1 DEF OfOps, Sequential

LEMMA JoinedOps ==
  ASSUME NEW ops, NEW s, OfOps(s, ops), NEW t, OfOps(t, ops)
  PROVE  OfOps(s \o t, ops) /\ HasBoth(s \o t, s, t)
<1> DEFINE st == s \o t
<1>1. HasBoth(st, s, t)
  BY ItemsJoined, Zenon DEF OfOps
<1> HIDE DEF st
<1>2. OfOps(st, ops)
  BY <1>1 DEF HasBoth, OfOps
<1> QED  BY <1>1, <1>2 DEF st

\* What begins a project makes its manifest, and its source if it is to have one.
LEMMA ProjectIsMade ==
  ASSUME NEW kind, NEW D
  PROVE  /\ OfOps(create_project(kind), MakeOps)
         /\ Promised(D, create_project(kind), Manifest)
         /\ kind # "workspace" => Promised(D, create_project(kind), SourceOf[kind])
<1> DEFINE toml    == Unless(Manifest, NewManifest(kind))
           source  == Unless(SourceOf[kind], Template[kind])
           first   == Just("mkdir") \o <<toml>>
           second  == Just("mkdir") \o <<source>>
           third   == IF kind = "workspace" THEN <<>> ELSE second
           all     == first \o third
<1>1. /\ toml.op = "unless" /\ toml.path = Manifest
      /\ source.op = "unless" /\ source.path = SourceOf[kind]
  BY DEF Unless
<1>2. create_project(kind) = all
  BY DEF create_project
<1> HIDE DEF toml, source
<1>3. /\ OfOps(Just("mkdir"), MakeOps) /\ OfOps(<<toml>>, MakeOps) /\ OfOps(<<source>>, MakeOps)
      /\ DOMAIN <<toml>> = {1} /\ <<toml>>[1] = toml /\ DOMAIN <<source>> = {1} /\ <<source>>[1] = source
  BY <1>1, OneOfOps DEF Just, MakeOps
<1>4. OfOps(first, MakeOps) /\ HasBoth(first, Just("mkdir"), <<toml>>)
  BY <1>3, JoinedOps, Zenon
<1>5. OfOps(second, MakeOps) /\ HasBoth(second, Just("mkdir"), <<source>>)
  BY <1>3, JoinedOps, Zenon
<1> HIDE DEF first, second
<1>6. OfOps(third, MakeOps)
  BY <1>5, NoneOfOps
<1>7. kind # "workspace" => third = second
  OBVIOUS
<1> HIDE DEF third
<1>8. OfOps(all, MakeOps) /\ HasBoth(all, first, third)
  BY <1>4, <1>6, JoinedOps, Zenon
<1> HIDE DEF all
<1>9. \E i \in DOMAIN all : all[i] = toml
  <2>1. \E i \in DOMAIN first : first[i] = toml
    BY <1>3, <1>4 DEF HasBoth
  <2> QED  BY <1>8, <2>1 DEF HasBoth
<1>10. kind # "workspace" => \E i \in DOMAIN all : all[i] = source
  <2>1. \E i \in DOMAIN second : second[i] = source
    BY <1>3, <1>5 DEF HasBoth
  <2> QED  BY <1>7, <1>8, <2>1 DEF HasBoth
<1> QED  BY <1>1, <1>2, <1>8, <1>9, <1>10 DEF Promised

\* A command sets out on steps that lead to what it is to make.
LEMMA StepsLead ==
  ASSUME NEW D, NEW ready, NEW command, Makes(command) => command.kind \in {"bin", "lib"}
  PROVE  Leads(D, ready, command, StepsOf(command))
<1> DEFINE steps == StepsOf(command)
           others == {"mkdir", "unless", "start", "browse", "edit", "layout", "resolve"}
<1>1. ASSUME NEW s, NEW ops, ops \subseteq others, OfOps(s, ops) PROVE \A i \in DOMAIN s : InView(D, ready, s[i])
  BY <1>1 DEF OfOps, InView
<1>2. CASE command.do = "new"
  <2>1. steps = create_project(command.kind)
    BY <1>2 DEF StepsOf
  <2> HIDE DEF steps
  <2>2. /\ \A i \in DOMAIN steps : steps[i].op \in MakeOps
        /\ Promised(D, steps, Manifest)
        /\ command.kind # "workspace" => Promised(D, steps, SourceOf[command.kind])
    BY <2>1, ProjectIsMade DEF OfOps
  <2>3. \A i \in DOMAIN steps : InView(D, ready, steps[i])
    BY <2>2 DEF InView, MakeOps
  <2>4. Makes(command) => Promised(D, steps, Main) \/ Promised(D, steps, Library)
    <3>1. SourceOf["bin"] = Main /\ SourceOf["lib"] = Library
      BY DEF SourceOf
    <3> QED  BY <2>2, <3>1
  <2> QED  BY <2>2, <2>3, <2>4 DEF Leads, steps
<1>3. CASE command.do # "new"
  <2>1. \A op \in others : OfOps(Just(op), others)
    BY OneOfOps DEF Just
  <2>2. \A program : OfOps(<<Start(program)>>, others)
    BY OneOfOps DEF Start
  <2>3. OfOps(Lint, others)
    <3> DEFINE step == [Start("clippy --workspace") EXCEPT !.otherwise = <<Start("clippy")>>]
    <3>1. step.op = "start"
      BY DEF Start
    <3> HIDE DEF step
    <3>2. OfOps(<<step>>, others)
      BY <3>1, OneOfOps
    <3> QED  BY <3>2 DEF Lint, step
  <2>4. OfOps(<<Start("doc")>> \o (IF command.flag THEN Just("browse") ELSE <<>>), others)
    <3>1. OfOps(IF command.flag THEN Just("browse") ELSE <<>>, others)
      BY <2>1, NoneOfOps
    <3> QED  BY <2>2, <3>1, JoinedOps
  <2>5. \/ steps \in {Just("edit"), Just("layout"), Just("resolve"), Lint, <<>>, <<Start(command.do)>>}
        \/ steps = <<Start("doc")>> \o (IF command.flag THEN Just("browse") ELSE <<>>)
    BY <1>3, Zenon DEF StepsOf
  <2>6. OfOps(steps, others)
    <3>1. OfOps(<<>>, others) /\ OfOps(Just("edit"), others) /\ OfOps(Just("layout"), others) /\ OfOps(Just("resolve"), others)
      BY <2>1, NoneOfOps
    <3> HIDE DEF steps, others
    <3> QED  BY <2>2, <2>3, <2>4, <2>5, <3>1, Zenon
  <2> HIDE DEF steps
  <2>7. \A i \in DOMAIN steps : InView(D, ready, steps[i])
    BY <1>1, <2>6
  <2> QED  BY <1>3, <2>7 DEF Leads, Makes, steps
<1> QED  BY <1>2, <1>3

LEMMA InitBuildable == Init => Buildable
<1>1. Idle.ready = FALSE /\ Idle.is = "idle"
  BY DEF Idle
<1> QED  BY <1>1 DEF Init, Buildable, Running

\* A command is read.
LEMMA TypeBuilds ==
  ASSUME Spared, Buildable, NEW p \in Processes, NEW line \in CommandLines[p], Type(p, Asked(line))
  PROVE  Buildable'
<1> DEFINE command == Asked(line)
           others == {q \in Processes : Running(q)}
           steps  == IF command = Refused THEN <<>> ELSE StepsOf(command)
           begun  == [command |-> command, steps |-> steps, why |-> "",
                      is |-> IF command = Refused THEN "failed" ELSE IF steps = <<>> THEN "ok" ELSE "running",
                      alone |-> others = {}, before |-> LinesOf(Manifest), ready |-> \E q \in Processes : proc[q].ready]
<1>1. /\ proc' = [q \in Processes |->
                   IF q = p THEN begun ELSE IF q \in others THEN [proc[q] EXCEPT !.alone = FALSE] ELSE proc[q]]
      /\ UNCHANGED files
  BY DEF Type
<1>2. Makes(command) => command.kind \in {"bin", "lib"}
  BY NewKinds, CommandLinesAssumption
<1>3. /\ begun.why = "" /\ begun.command = command /\ begun.steps = steps
      /\ begun.ready <=> \E q \in Processes : proc[q].ready
      /\ begun.is = "running" => steps = StepsOf(command)
  OBVIOUS
<1> HIDE DEF command, steps, begun, others
<1>4. ASSUME NEW q \in Processes
      PROVE  /\ proc'[q].ready => Made(DOMAIN files)
             /\ proc'[q].ready => proc'[q].why \notin {"layout", "entry"}
             /\ proc'[q].is = "running" => Leads(DOMAIN files, proc'[q].ready, proc'[q].command, proc'[q].steps)
  <2>1. CASE q = p
    <3>1. proc'[q] = begun
      BY <1>1, <2>1
    <3>2. begun.is = "running" => Leads(DOMAIN files, begun.ready, command, steps)
      BY <1>2, <1>3, StepsLead
    <3> QED  BY <1>3, <3>1, <3>2 DEF Buildable
  <2>2. CASE q # p
    <3>1. DOMAIN proc[q] = Fields
      BY DEF Spared
    <3>2. proc'[q] = [proc[q] EXCEPT !.alone = FALSE] \/ proc'[q] = proc[q]
      BY <1>1, <2>2
    <3>3. /\ [proc[q] EXCEPT !.alone = FALSE].is = proc[q].is
          /\ [proc[q] EXCEPT !.alone = FALSE].steps = proc[q].steps
          /\ [proc[q] EXCEPT !.alone = FALSE].why = proc[q].why
          /\ [proc[q] EXCEPT !.alone = FALSE].ready = proc[q].ready
          /\ [proc[q] EXCEPT !.alone = FALSE].command = proc[q].command
      BY <3>1 DEF Fields
    <3>4. /\ proc'[q].is = proc[q].is /\ proc'[q].steps = proc[q].steps /\ proc'[q].why = proc[q].why
          /\ proc'[q].ready = proc[q].ready /\ proc'[q].command = proc[q].command
      BY <3>2, <3>3
    <3> QED  BY <3>4 DEF Buildable, Running
  <2> QED  BY <2>1, <2>2
<1> QED  BY <1>1, <1>4 DEF Buildable, Running

\* Files are written, none is removed.
LEMMA FilesStay ==
  ASSUME NEW p \in Processes, Works(p) \/ DiskFails(p) \/ Killed(p)
  PROVE  DOMAIN files \subseteq DOMAIN files'
<1>1. ASSUME NEW path, NEW lines, Put(path, lines) PROVE DOMAIN files \subseteq DOMAIN files'
  BY <1>1 DEF Put
<1>2. CASE files' = files
  BY <1>2
<1>3. CASE OpenEmpty(p) \/ FillFile(p)
  BY <1>1, <1>3 DEF OpenEmpty, FillFile
<1>4. CASE DiskFails(p) \/ Killed(p)
  BY <1>1, <1>2, <1>4 DEF DiskFails, Killed, LeaveHalf
<1> QED
  BY <1>2, <1>3, <1>4 DEF Works, CreateDirectory, LookBeforeWriting, ReadToEdit, DetectLayout, ListEntries,
         FindEntry, RunCompiler, RunProgram, OpenDocs, ResolveDependencies

\* The steps of a command that makes a project are of its kind.
LEMMA MakersMake ==
  ASSUME Spared, Buildable, NEW p \in Processes, Running(p), Step(p).op \notin MakeOps
  PROVE  ~ Makes(proc[p].command)
<1>1. Leads(DOMAIN files, proc[p].ready, proc[p].command, proc[p].steps)
  BY DEF Buildable
<1>2. 1 \in DOMAIN proc[p].steps /\ Step(p) = proc[p].steps[1]
  BY FirstOrLater DEF Spared, Harmless, Step
<1> QED  BY <1>1, <1>2 DEF Leads

\* However a process goes on, what it has left to do leads on, and it does not stop for want
\* of a project or a source where one was made.
LEMMA WorkLeadsOn ==
  ASSUME Spared, Buildable, NEW p \in Processes, Works(p)
  PROVE  \/ \E steps : Continue(p, steps) /\ Leads(DOMAIN files', proc[p].ready, proc[p].command, steps)
         \/ \E why : Stop(p, "failed", why) /\ (proc[p].ready => why \notin {"layout", "entry"})
<1> DEFINE D == DOMAIN files
           E == DOMAIN files'
           ready == proc[p].ready
           command == proc[p].command
           steps == proc[p].steps
           Goes(left) == Continue(p, left) /\ Leads(E, ready, command, left)
           Fails(why) == Stop(p, "failed", why) /\ (ready => why \notin {"layout", "entry"})
<1>1. Running(p)
  BY DEF Works, CreateDirectory, LookBeforeWriting, OpenEmpty, FillFile, ReadToEdit, DetectLayout, ListEntries,
         FindEntry, RunCompiler, RunProgram, OpenDocs, ResolveDependencies, Due
<1>2. /\ Sequential(steps) /\ steps # <<>> /\ Leads(D, ready, command, steps) /\ D \subseteq E
      /\ Step(p) = Head(steps) /\ Rest(p) = Tail(steps)
      /\ ready => Made(D)
  BY <1>1, FilesStay DEF Spared, Buildable, Harmless, Step, Rest
<1>3. ASSUME Step(p).op \in {"unless", "open"} => Step(p).path \in E
      PROVE  Leads(E, ready, command, Rest(p))
  <2> HIDE DEF D, E, ready, command, steps
  <2> QED  BY <1>2, <1>3, StepDone
<1>4. ASSUME NEW op, Due(p, op) PROVE Step(p).op = op
  BY <1>4 DEF Due, Step
<1>5. ASSUME NEW step, step.op \notin {"find"}, Step(p).op \notin MakeOps PROVE Leads(E, ready, command, <<step>>)
  <2>1. ~ Makes(command)
    BY <1>1, <1>5, MakersMake
  <2>2. DOMAIN <<step>> = {1} /\ <<step>>[1] = step
    OBVIOUS
  <2> QED  BY <1>5, <2>1, <2>2 DEF Leads, InView
<1>6. Step(p).op \notin MakeOps => Leads(E, ready, command, <<>>)
  <2>1. DOMAIN <<>> = {}
    OBVIOUS
  <2> QED  BY <1>1, <2>1, MakersMake DEF Leads
<1>7. ASSUME NEW paths, Step(p).op \notin MakeOps, Sequential(paths), paths # <<>>,
             ready => \E i \in DOMAIN paths : paths[i] \in E
      PROVE  Leads(E, ready, command, <<Find(paths)>>)
  <2>1. ~ Makes(command)
    BY <1>1, <1>7, MakersMake
  <2>2. DOMAIN <<Find(paths)>> = {1} /\ <<Find(paths)>>[1] = Find(paths) /\ Find(paths).paths = paths
    BY DEF Find
  <2> QED  BY <1>7, <2>1, <2>2 DEF Leads, InView
<1>8. ASSUME CreateDirectory(p) PROVE \E left : Goes(left)
  <2>1. Leads(E, ready, command, Rest(p))
    BY <1>3, <1>4, <1>8 DEF CreateDirectory
  <2> QED  BY <1>8, <2>1 DEF CreateDirectory
<1>9. ASSUME OpenEmpty(p) PROVE \E left : Goes(left)
  <2>1. Step(p).path \in E
    BY <1>9 DEF OpenEmpty, Put
  <2> QED  BY <1>3, <1>9, <2>1 DEF OpenEmpty
<1>10. ASSUME FillFile(p) PROVE \E left : Goes(left)
  <2>1. Step(p).op = "fill"
    BY <1>4, <1>10 DEF FillFile
  <2> QED  BY <1>3, <1>10, <2>1 DEF FillFile
<1>11. ASSUME OpenDocs(p) \/ RunProgram(p) \/ RunCompiler(p)
       PROVE  (\E left : Goes(left)) \/ Fails("")
  <2>1. Step(p).op \in {"browse", "start", "compile"}
    BY <1>4, <1>11 DEF OpenDocs, RunProgram, RunCompiler
  <2>2. Leads(E, ready, command, Rest(p)) /\ Step(p).op \notin MakeOps
    BY <1>3, <2>1 DEF MakeOps
  <2>3. CASE OpenDocs(p)
    BY <2>2, <2>3 DEF OpenDocs
  <2>4. CASE RunProgram(p)
    <3>1. Step(p).op = "start"
      BY <1>4, <2>4 DEF RunProgram
    <3>2. Leads(E, ready, command, Step(p).otherwise) \/ Step(p).otherwise = <<>>
      <4>1. Safe(Step(p), mine)
        BY <1>1, RunningIsHarmless
      <4>2. Step(p).otherwise \in {<<>>, <<Start("clippy")>>}
        BY <3>1, <4>1 DEF Safe
      <4>3. Leads(E, ready, command, <<Start("clippy")>>)
        BY <1>5, <2>2 DEF Start
      <4> QED  BY <4>2, <4>3
    <3> QED  BY <2>2, <2>4, <3>2 DEF RunProgram
  <2>5. CASE RunCompiler(p)
    <3>1. \A entry, compilers : Leads(E, ready, command, <<Compile(entry, compilers)>>)
      BY <1>5, <2>2 DEF Compile
    <3> QED  BY <2>2, <2>5, <3>1 DEF RunCompiler
  <2> QED  BY <1>11, <2>3, <2>4, <2>5
<1>12. ASSUME DetectLayout(p) PROVE (\E left : Goes(left)) \/ Fails("") \/ Fails("layout")
  <2>1. Step(p).op = "layout" /\ Step(p).op \notin MakeOps
    BY <1>4, <1>12 DEF DetectLayout, MakeOps
  <2>2. \A program : Leads(E, ready, command, <<Start(program)>>)
    BY <1>5, <2>1 DEF Start
  <2>3. Leads(E, ready, command, Just("entry"))
    BY <1>5, <2>1 DEF Just
  <2>4. ~ Exists(Manifest) => ~ ready
    BY <1>2 DEF Made, Exists
  <2> QED  BY <1>12, <2>2, <2>3, <2>4 DEF DetectLayout
<1>13. ASSUME ListEntries(p) PROVE \E left : Goes(left)
  <2> DEFINE paths == entry_candidates(LinesOf(Manifest))
  <2>1. Step(p).op \notin MakeOps
    BY <1>4, <1>13 DEF ListEntries, MakeOps
  <2>2. Sequential(paths) /\ paths # <<>> /\ (\A path \in {Main, Library} : \E i \in DOMAIN paths : paths[i] = path)
    BY TemplatesAreCandidates
  <2>3. Continue(p, <<Find(paths)>>)
    BY <1>13 DEF ListEntries
  <2> HIDE DEF paths
  <2>4. ready => \E i \in DOMAIN paths : paths[i] \in E
    BY <1>2, <2>2 DEF Made
  <2> QED  BY <1>7, <2>1, <2>2, <2>3, <2>4
<1>14. ASSUME FindEntry(p) PROVE (\E left : Goes(left)) \/ Fails("entry")
  <2> DEFINE paths == Step(p).paths
  <2>1. Step(p).op = "find" /\ Step(p).op \notin MakeOps
    BY <1>4, <1>14 DEF FindEntry, MakeOps
  <2>2. Sequential(paths) /\ paths # <<>> /\ (ready => \E i \in DOMAIN paths : paths[i] \in D)
    <3>1. 1 \in DOMAIN steps /\ Step(p) = steps[1]
      BY <1>2, FirstOrLater
    <3> QED  BY <1>2, <2>1, <3>1 DEF Leads, InView
  <2>3. Leads(E, ready, command, <<Compile(paths[1], Compilers)>>)
    BY <1>5, <2>1 DEF Compile
  <2>4. /\ Len(paths) = 1 => DOMAIN paths = {1}
        /\ Len(paths) # 1 => Sequential(Tail(paths)) /\ Tail(paths) # <<>>
        /\ \A i \in DOMAIN paths : i = 1 \/ (i - 1 \in DOMAIN Tail(paths) /\ Tail(paths)[i - 1] = paths[i])
    BY <2>2, FirstOrLater
  <2>5. IF Exists(paths[1]) THEN Continue(p, <<Compile(paths[1], Compilers)>>)
        ELSE IF Len(paths) = 1 THEN Stop(p, "failed", "entry")
        ELSE Continue(p, <<Find(Tail(paths))>>)
    BY <1>14 DEF FindEntry
  <2> HIDE DEF paths
  <2>6. CASE Exists(paths[1])
    BY <2>3, <2>5, <2>6
  <2>7. CASE ~ Exists(paths[1]) /\ Len(paths) = 1
    <3>1. ~ ready
      BY <2>2, <2>4, <2>7 DEF Exists
    <3> QED  BY <2>5, <2>7, <3>1
  <2>8. CASE ~ Exists(paths[1]) /\ Len(paths) # 1
    <3>1. ready => \E i \in DOMAIN Tail(paths) : Tail(paths)[i] \in D
      <4>1. SUFFICES ASSUME ready PROVE \E i \in DOMAIN Tail(paths) : Tail(paths)[i] \in D
        OBVIOUS
      <4>2. PICK i \in DOMAIN paths : paths[i] \in D
        BY <2>2, <4>1
      <4>3. i # 1
        BY <2>8, <4>2 DEF Exists
      <4> QED  BY <2>4, <4>2, <4>3
    <3>2. Leads(E, ready, command, <<Find(Tail(paths))>>)
      BY <1>2, <1>7, <2>1, <2>4, <2>8, <3>1
    <3> QED  BY <2>5, <2>8, <3>2
  <2> QED  BY <2>6, <2>7, <2>8
<1>15. ASSUME LookBeforeWriting(p) PROVE \E left : Goes(left)
  <2>1. Step(p).op = "unless"
    BY <1>4, <1>15 DEF LookBeforeWriting
  <2>2. CASE Exists(Step(p).path)
    <3>1. Continue(p, <<>> \o Rest(p)) /\ Step(p).path \in E
      BY <1>2, <1>15, <2>2 DEF LookBeforeWriting, Exists
    <3>2. <<>> \o Rest(p) = Rest(p)
      <4>1. PICK S : Rest(p) \in Seq(S)
        BY <1>2, FirstOrLater DEF Sequential
      <4> QED  BY <4>1, ConcatEmptySeq
    <3> QED  BY <1>3, <3>1, <3>2
  <2>3. CASE ~ Exists(Step(p).path)
    <3> DEFINE write == WriteOut(Step(p).path, Step(p).lines)
               left  == write \o Rest(p)
    <3>1. Continue(p, left)
      BY <1>15, <2>3 DEF LookBeforeWriting
    <3>2. /\ DOMAIN write = {1, 2} /\ write[1] = Open(Step(p).path) /\ write[2] = Fill(Step(p).path, Step(p).lines)
          /\ Sequential(write)
      <4>1. write \in Seq({Open(Step(p).path), Fill(Step(p).path, Step(p).lines)})
        BY DEF WriteOut
      <4>2. Sequential(write)
        <5> HIDE DEF write
        <5> QED  BY <4>1 DEF Sequential
      <4> QED  BY <4>2 DEF WriteOut
    <3>3. /\ write[1].op = "open" /\ write[1].path = Step(p).path /\ write[2].op = "fill"
          /\ \A i \in DOMAIN write : write[i].op \in {"open", "fill"}
      BY <3>2 DEF Open, Fill
    <3> HIDE DEF write
    <3>4. Sequential(Rest(p))
      BY <1>2, FirstOrLater
    <3>5. HasBoth(left, write, Rest(p))
      BY <3>2, <3>4, ItemsJoined, Zenon
    <3> HIDE DEF left
    <3>6. ASSUME NEW path, Promised(D, steps, path) PROVE Promised(E, write, path) \/ Promised(E, Rest(p), path)
      <4>1. CASE path \in D
        BY <1>2, <4>1 DEF Promised
      <4>2. CASE path = Step(p).path
        BY <3>2, <3>3, <4>2 DEF Promised
      <4>3. ASSUME NEW i \in DOMAIN steps, steps[i].op \in {"unless", "open"}, steps[i].path = path, path # Step(p).path
            PROVE  Promised(E, Rest(p), path)
        <5>1. i # 1
          BY <1>2, <4>3, FirstOrLater
        <5>2. i - 1 \in DOMAIN Rest(p) /\ Rest(p)[i - 1] = steps[i]
          BY <1>2, <5>1, FirstOrLater
        <5> QED  BY <4>3, <5>2 DEF Promised
      <4> QED  BY <3>6, <4>1, <4>2, <4>3 DEF Promised
    <3>7. \A i \in DOMAIN Rest(p) :
            /\ InView(E, ready, Rest(p)[i])
            /\ Makes(command) => Rest(p)[i].op \in MakeOps
      <4>1. \A i \in DOMAIN Rest(p) : i + 1 \in DOMAIN steps /\ Rest(p)[i] = steps[i + 1]
        BY <1>2, FirstOrLater
      <4> HIDE DEF steps, D, E
      <4> QED  BY <1>2, <4>1 DEF Leads, InView
    <3>8. \A i \in DOMAIN write : InView(E, ready, write[i]) /\ write[i].op \in MakeOps
      BY <3>3 DEF InView, MakeOps
    <3>9. Makes(command) => /\ Promised(E, write, Manifest) \/ Promised(E, Rest(p), Manifest)
                            /\ \E path \in {Main, Library} : Promised(E, write, path) \/ Promised(E, Rest(p), path)
      BY <1>2, <3>6 DEF Leads
    <3>10. Leads(E, ready, command, left)
      <4> HIDE DEF E, ready, command
      <4> QED  BY <3>5, <3>7, <3>8, <3>9, LeadsJoined
    <3> QED  BY <3>1, <3>10
  <2> QED  BY <2>2, <2>3
<1>16. ASSUME ReadToEdit(p) PROVE (\E left : Goes(left)) \/ Fails("")
  <2> DEFINE write == WriteOut(Manifest, Edited(command, files[Manifest]))
  <2>1. Step(p).op \notin MakeOps
    BY <1>4, <1>16 DEF ReadToEdit, MakeOps
  <2>2. \A i \in DOMAIN write : write[i].op # "find"
    BY DEF WriteOut, Open, Fill
  <2>3. Continue(p, write) \/ Stop(p, "failed", "")
    BY <1>16 DEF ReadToEdit
  <2> HIDE DEF write
  <2>4. Leads(E, ready, command, write)
    BY <1>1, <2>1, <2>2, MakersMake DEF Leads, InView
  <2> QED  BY <2>3, <2>4
<1>17. ASSUME ResolveDependencies(p) PROVE (\E left : Goes(left)) \/ Fails("")
  <2>1. Step(p).op \notin MakeOps
    BY <1>4, <1>17 DEF ResolveDependencies, MakeOps
  <2> QED  BY <1>6, <1>17, <2>1 DEF ResolveDependencies
<1> QED
  BY <1>8, <1>9, <1>10, <1>11, <1>12, <1>13, <1>14, <1>15, <1>16, <1>17 DEF Works

LEMMA NextBuildable == Spared /\ Buildable /\ [Next]_vars => Buildable'
<1> SUFFICES ASSUME Spared, Buildable, [Next]_vars PROVE Buildable'
  OBVIOUS
<1>1. CASE UNCHANGED vars
  BY <1>1 DEF vars, Buildable, Running
<1>2. ASSUME NEW path \in Sources, WriteByHand(path) PROVE Buildable'
  <2>1. (\A p \in Processes : ~ Running(p)) /\ proc' = proc /\ DOMAIN files \subseteq DOMAIN files'
    BY <1>2 DEF WriteByHand, Put
  <2>2. Made(DOMAIN files) => Made(DOMAIN files')
    BY <2>1 DEF Made
  <2> QED  BY <2>1, <2>2 DEF Buildable, Running
<1>3. ASSUME NEW p \in Processes, Works(p) PROVE Buildable'
  BY <1>3, WorkLeadsOn, FilesStay, ProcessLeadsOn
<1>4. ASSUME NEW p \in Processes, DiskFails(p) \/ Killed(p) PROVE Buildable'
  <2>1. Stop(p, "failed", "")
    BY <1>4 DEF DiskFails, Killed
  <2>2. DOMAIN files \subseteq DOMAIN files'
    BY <1>4, FilesStay
  <2>3. "" \notin {"layout", "entry"}
    OBVIOUS
  <2>4. \E why : Stop(p, "failed", why) /\ (proc[p].ready => why \notin {"layout", "entry"})
    BY <2>1, <2>3, Zenon
  <2> QED  BY <2>2, <2>4, ProcessLeadsOn
<1> QED
  BY <1>1, <1>2, <1>3, <1>4, TypeBuilds DEF Next

\* Once an izel new has ended well, with a binary or a library, no build or run fails for want
\* of a project or of a source: for any processes running any commands in any order, beside
\* each other, failing or killed.
THEOREM NewIsBuilt == Spec => []NewCanBeBuilt
<1>1. Buildable => NewCanBeBuilt
  BY DEF Buildable, NewCanBeBuilt
<1>2. QED
  BY <1>1, InitSpared, NextSpared, InitBuildable, NextBuildable, PTL DEF Spec


-----------------------------------------------------------------------------
(* Edits.  One that runs alone is to read the manifest, or has read it and is to empty     *)
(* it, or has emptied it and is to fill it with what it has made of the lines it read.     *)

Stage(command, was, steps, there) ==
  \/ steps = Just("edit") /\ there = was
  \/ steps = WriteOut(Manifest, Edited(command, was)) /\ there = was
  \/ steps = <<Fill(Manifest, Edited(command, was))>> /\ there = <<>>

Edits(command) == command.do \in {"add", "remove"}

\* Beside a process that has run alone so far no other runs, and an edit is at one of its stages.
Apart ==
  \A p \in Processes : Running(p) /\ proc[p].alone =>
    /\ \A q \in Processes \ {p} : ~ Running(q)
    /\ Edits(proc[p].command) =>
         /\ IsText(proc[p].before)
         /\ Stage(proc[p].command, proc[p].before, proc[p].steps, LinesOf(Manifest))

\* The work of an edit takes it from one stage to the next, to its end or to failure.
LEMMA EditGoesOn ==
  ASSUME NEW p \in Processes, Works(p), NEW was,
         Stage(proc[p].command, was, proc[p].steps, LinesOf(Manifest))
  PROVE  \/ Stop(p, "failed", "")
         \/ Stop(p, "ok", "") /\ files'[Manifest] = Edited(proc[p].command, was)
         \/ \E steps : /\ steps # <<>> /\ proc' = [proc EXCEPT ![p].steps = steps]
                       /\ Stage(proc[p].command, was, steps, LinesOf(Manifest)')
<1> DEFINE out   == Edited(proc[p].command, was)
           steps == proc[p].steps
           open  == Open(Manifest)
           fill  == Fill(Manifest, out)
<1>1. /\ open.op = "open" /\ open.path = Manifest
      /\ fill.op = "fill" /\ fill.path = Manifest /\ fill.lines = out
  BY DEF Open, Fill
<1>2. /\ Step(p).op = "edit" => ReadToEdit(p)
      /\ Step(p).op = "open" => OpenEmpty(p)
      /\ Step(p).op = "fill" => FillFile(p)
  BY DEF Works, CreateDirectory, LookBeforeWriting, OpenEmpty, FillFile, ReadToEdit, DetectLayout, ListEntries,
         FindEntry, RunCompiler, RunProgram, OpenDocs, ResolveDependencies, Due, Step
<1>3. WriteOut(Manifest, out) = <<open, fill>>
  BY DEF WriteOut
<1> HIDE DEF out, open, fill
<1>4. CASE steps = Just("edit") /\ LinesOf(Manifest) = was
  <2>1. Step(p).op = "edit"
    BY <1>4 DEF Step, Just
  <2>2. CASE Exists(Manifest)
    <3>1. Continue(p, <<open, fill>>) /\ files' = files
      BY <1>2, <1>3, <1>4, <2>1, <2>2 DEF ReadToEdit, LinesOf, out
    <3>2. <<open, fill>> # <<>>
      OBVIOUS
    <3>3. Stage(proc[p].command, was, <<open, fill>>, LinesOf(Manifest)')
      BY <1>3, <1>4, <3>1 DEF Stage, out, LinesOf, Exists
    <3> QED  BY <3>1, <3>2, <3>3 DEF Continue
  <2> QED  BY <1>2, <2>1, <2>2 DEF ReadToEdit
<1>5. CASE steps = <<open, fill>> /\ LinesOf(Manifest) = was
  <2>1. Step(p) = open /\ Rest(p) = <<fill>>
    BY <1>5 DEF Step, Rest
  <2>2. Continue(p, <<fill>>) /\ Put(Manifest, <<>>)
    BY <1>1, <1>2, <2>1 DEF OpenEmpty
  <2>3. <<fill>> # <<>>
    OBVIOUS
  <2>4. LinesOf(Manifest)' = <<>>
    BY <2>2 DEF Put, LinesOf, Exists
  <2>5. Stage(proc[p].command, was, <<fill>>, LinesOf(Manifest)')
    BY <2>4 DEF Stage, fill, out
  <2> QED  BY <2>2, <2>3, <2>5 DEF Continue
<1>6. CASE steps = <<fill>> /\ LinesOf(Manifest) = <<>>
  <2>1. Step(p) = fill /\ Rest(p) = <<>>
    BY <1>6 DEF Step, Rest
  <2>2. Continue(p, <<>>) /\ Put(Manifest, out)
    BY <1>1, <1>2, <1>6, <2>1 DEF FillFile
  <2>3. files'[Manifest] = out
    BY <2>2 DEF Put
  <2> QED  BY <2>2, <2>3 DEF Continue, out
<1> QED  BY <1>3, <1>4, <1>5, <1>6 DEF Stage, out, open, fill

\* A command is read.
LEMMA TypeApart ==
  ASSUME Spared, Apart, NEW p \in Processes, NEW command, Type(p, command)
  PROVE  Apart'
<1> DEFINE others == {q \in Processes : Running(q)}
           steps  == IF command = Refused THEN <<>> ELSE StepsOf(command)
           begun  == [command |-> command, steps |-> steps, why |-> "",
                      is |-> IF command = Refused THEN "failed" ELSE IF steps = <<>> THEN "ok" ELSE "running",
                      alone |-> others = {}, before |-> LinesOf(Manifest), ready |-> \E q \in Processes : proc[q].ready]
<1>1. /\ proc' = [q \in Processes |->
                   IF q = p THEN begun ELSE IF q \in others THEN [proc[q] EXCEPT !.alone = FALSE] ELSE proc[q]]
      /\ UNCHANGED files
  BY DEF Type
<1>2. /\ begun.command = command /\ begun.steps = steps /\ begun.before = LinesOf(Manifest)
      /\ begun.alone <=> others = {}
      /\ begun.is = "running" => steps = StepsOf(command)
  OBVIOUS
<1>3. Edits(command) => StepsOf(command) = Just("edit")
  BY DEF Edits, StepsOf
<1>4. IsText(LinesOf(Manifest)) /\ LinesOf(Manifest)' = LinesOf(Manifest)
  BY <1>1, NoText DEF Spared, AllTexts, LinesOf, Exists
<1> HIDE DEF steps, begun
<1>5. ASSUME NEW r \in Processes, proc'[r].is = "running", proc'[r].alone
      PROVE  /\ \A q \in Processes \ {r} : proc'[q].is # "running"
             /\ Edits(proc'[r].command) =>
                  /\ IsText(proc'[r].before)
                  /\ Stage(proc'[r].command, proc'[r].before, proc'[r].steps, LinesOf(Manifest)')
  <2>1. CASE r = p
    <3>1. proc'[r] = begun
      BY <1>1, <2>1
    <3>2. others = {}
      BY <1>2, <1>5, <3>1
    <3>3. \A q \in Processes \ {r} : proc'[q].is # "running"
      BY <1>1, <2>1, <3>2 DEF Running
    <3>4. Edits(command) => Stage(command, LinesOf(Manifest), steps, LinesOf(Manifest)')
      BY <1>2, <1>3, <1>4, <1>5, <3>1 DEF Stage
    <3> QED  BY <1>2, <1>4, <3>1, <3>3, <3>4
  <2>2. CASE r # p
    <3>1. DOMAIN proc[r] = Fields
      BY DEF Spared
    <3>2. ASSUME r \in others PROVE FALSE
      <4>1. proc'[r] = [proc[r] EXCEPT !.alone = FALSE]
        BY <1>1, <2>2, <3>2
      <4>2. [proc[r] EXCEPT !.alone = FALSE].alone = FALSE
        BY <3>1 DEF Fields
      <4> QED  BY <1>5, <4>1, <4>2
    <3>3. proc'[r] = proc[r] /\ ~ Running(r)
      BY <1>1, <2>2, <3>2
    <3> QED  BY <1>5, <3>3 DEF Running
  <2> QED  BY <2>1, <2>2
<1> QED  BY <1>5 DEF Apart, Running


LEMMA InitApart == Init => Apart
<1>1. Idle.is = "idle"
  BY DEF Idle
<1> QED  BY <1>1 DEF Init, Apart, Running

\* A step of a process leaves the others as they are, and goes on or stops.
LEMMA OneMoves ==
  ASSUME Spared, NEW p \in Processes, mine' = mine, Works(p) \/ DiskFails(p) \/ Killed(p)
  PROVE  /\ Running(p)
         /\ \A q \in Processes \ {p} : proc'[q] = proc[q]
         /\ \/ \E is \in {"failed", "ok"} : \E why : Stop(p, is, why)
            \/ \E steps : proc' = [proc EXCEPT ![p].steps = steps]
<1>1. DOMAIN proc = Processes
  BY DEF Spared
<1>2. Running(p)
  BY DEF Works, CreateDirectory, LookBeforeWriting, OpenEmpty, FillFile, ReadToEdit, DetectLayout, ListEntries,
         FindEntry, RunCompiler, RunProgram, OpenDocs, ResolveDependencies, DiskFails, Killed, Due
<1>3. \/ \E is \in {"failed", "ok"} : \E why : Stop(p, is, why)
      \/ \E steps : proc' = [proc EXCEPT ![p].steps = steps]
  <2>1. CASE Works(p)
    <3>1. \/ \E steps : Continue(p, steps)
          \/ \E is \in {"failed", "ok"} : \E why : Stop(p, is, why)
      BY <2>1, WorkGoesOn
    <3>2. ASSUME NEW steps, Continue(p, steps)
          PROVE  Stop(p, "ok", "") \/ \E left : proc' = [proc EXCEPT ![p].steps = left]
      BY <3>2 DEF Continue
    <3> QED  BY <3>1, <3>2
  <2>2. CASE DiskFails(p) \/ Killed(p)
    BY <2>2 DEF DiskFails, Killed
  <2> QED  BY <2>1, <2>2
<1>4. \A q \in Processes \ {p} : proc'[q] = proc[q]
  BY <1>1, <1>3 DEF Stop
<1> QED  BY <1>2, <1>3, <1>4

\* How a process stands after it has stopped, or gone on.
LEMMA AfterMoving ==
  ASSUME Spared, NEW p \in Processes
  PROVE  /\ \A is, why : Stop(p, is, why) => proc'[p].is = is
         /\ \A steps : proc' = [proc EXCEPT ![p].steps = steps] =>
              /\ proc'[p].steps = steps /\ proc'[p].is = proc[p].is /\ proc'[p].command = proc[p].command
              /\ proc'[p].alone = proc[p].alone /\ proc'[p].before = proc[p].before
<1>1. DOMAIN proc = Processes /\ DOMAIN proc[p] = Fields
  BY DEF Spared
<1>2. ASSUME NEW is, NEW why, Stop(p, is, why) PROVE proc'[p].is = is
  <2>1. Over(p, is, why).is = is
    BY DEF Over, Idle
  <2> QED  BY <1>1, <1>2, <2>1 DEF Stop
<1>3. ASSUME NEW steps, proc' = [proc EXCEPT ![p].steps = steps]
      PROVE  /\ proc'[p].steps = steps /\ proc'[p].is = proc[p].is /\ proc'[p].command = proc[p].command
             /\ proc'[p].alone = proc[p].alone /\ proc'[p].before = proc[p].before
  <2>1. proc'[p] = [proc[p] EXCEPT !.steps = steps]
    BY <1>1, <1>3
  <2> QED  BY <1>1, <2>1 DEF Fields
<1> QED  BY <1>2, <1>3

LEMMA NextApart == Spared /\ Apart /\ [Next]_vars => Apart'
<1> SUFFICES ASSUME Spared, Apart, [Next]_vars PROVE Apart'
  OBVIOUS
<1>1. CASE UNCHANGED vars
  BY <1>1 DEF vars, Apart, Running, LinesOf, Exists
<1>2. ASSUME NEW path \in Sources, WriteByHand(path) PROVE Apart'
  BY <1>2 DEF WriteByHand, Apart, Running
<1>3. ASSUME NEW p \in Processes, mine' = mine, Works(p) \/ DiskFails(p) \/ Killed(p) PROVE Apart'
  <2>1. /\ Running(p) /\ \A q \in Processes \ {p} : proc'[q] = proc[q]
        /\ \/ \E is \in {"failed", "ok"} : \E why : Stop(p, is, why)
           \/ \E steps : proc' = [proc EXCEPT ![p].steps = steps]
    BY <1>3, OneMoves
  <2>2. ASSUME NEW r \in Processes, proc'[r].is = "running", proc'[r].alone
        PROVE  /\ \A q \in Processes \ {r} : proc'[q].is # "running"
               /\ Edits(proc'[r].command) =>
                    /\ IsText(proc'[r].before)
                    /\ Stage(proc'[r].command, proc'[r].before, proc'[r].steps, LinesOf(Manifest)')
    <3>1. r = p
      BY <2>1, <2>2 DEF Apart, Running
    <3>2. ~ \E is \in {"failed", "ok"} : \E why : Stop(p, is, why)
      BY <2>2, <3>1, AfterMoving
    <3>3. PICK steps : proc' = [proc EXCEPT ![p].steps = steps]
      BY <2>1, <3>2
    <3>4. /\ proc'[p].command = proc[p].command /\ proc'[p].alone = proc[p].alone
          /\ proc'[p].before = proc[p].before
      BY <3>3, AfterMoving
    <3>5. \A q \in Processes \ {p} : proc'[q].is # "running"
      BY <2>1, <2>2, <3>1, <3>4 DEF Apart, Running
    <3>6. ASSUME Edits(proc[p].command)
          PROVE  /\ IsText(proc[p].before)
                 /\ Stage(proc[p].command, proc[p].before, proc'[p].steps, LinesOf(Manifest)')
      <4>1. IsText(proc[p].before) /\ Stage(proc[p].command, proc[p].before, proc[p].steps, LinesOf(Manifest))
        BY <2>1, <2>2, <3>1, <3>4, <3>6 DEF Apart
      <4>2. Works(p)
        BY <1>3, <3>2 DEF DiskFails, Killed
      <4>3. PICK left : /\ proc' = [proc EXCEPT ![p].steps = left]
                        /\ Stage(proc[p].command, proc[p].before, left, LinesOf(Manifest)')
        BY <3>2, <4>1, <4>2, EditGoesOn
      <4>4. proc'[p].steps = left
        BY <4>3, AfterMoving
      <4> QED  BY <4>1, <4>3, <4>4
    <3> QED  BY <3>1, <3>4, <3>5, <3>6
  <2> QED  BY <2>2 DEF Apart, Running
<1> QED  BY <1>1, <1>2, <1>3, TypeApart DEF Next

\* An edit that ends well has filled the manifest with what it made of the lines it found.
LEMMA EditsEnd ==
  ASSUME Spared, Apart, Next, NEW p \in Processes, Ends(p), Edits(proc[p].command), proc[p].alone
  PROVE  IsText(proc[p].before) /\ files'[Manifest] = Edited(proc[p].command, proc[p].before)
<1>1. /\ Running(p) /\ proc'[p].is = "ok" /\ \A q \in Processes \ {p} : ~ Running(q)
      /\ IsText(proc[p].before) /\ Stage(proc[p].command, proc[p].before, proc[p].steps, LinesOf(Manifest))
  BY DEF Ends, Apart
<1>2. ASSUME NEW q \in Processes, NEW command, Type(q, command) PROVE FALSE
  <2>1. q # p
    BY <1>1, <1>2 DEF Type
  <2>2. proc'[p] = [proc[p] EXCEPT !.alone = FALSE]
    BY <1>1, <1>2, <2>1 DEF Type
  <2>3. [proc[p] EXCEPT !.alone = FALSE].is = proc[p].is
    BY DEF Spared, Fields
  <2> QED  BY <1>1, <2>2, <2>3 DEF Running
<1>3. PICK q \in Processes : mine' = mine /\ (Works(q) \/ DiskFails(q) \/ Killed(q))
  BY <1>1, <1>2 DEF Next, WriteByHand
<1>4. q = p
  BY <1>1, <1>3, OneMoves
<1>5. ~ Stop(p, "failed", "")
  BY <1>1, AfterMoving
<1>6. Works(p)
  BY <1>3, <1>4, <1>5 DEF DiskFails, Killed
<1>7. ~ \E steps : proc' = [proc EXCEPT ![p].steps = steps]
  BY <1>1, AfterMoving DEF Running
<1> QED  BY <1>1, <1>5, <1>6, <1>7, EditGoesOn

\* Every izel add and izel remove that runs alone and ends well leaves the manifest with the
\* table it was asked for, and all else in it as it was: for any manifest, packages and versions.
THEOREM EditsAreDone == Spec => EditsDoTheirWork
<1>1. Spared /\ Apart /\ [Next]_vars
        => [\A p \in Processes :
              LET c == proc[p].command  was == proc[p].before
              IN Ends(p) /\ c.do \in {"add", "remove"} /\ proc[p].alone /\ IsToml(was)
                   => JustAsAsked(c, was, files[Manifest]')]_vars
  BY EditsEnd, EditedAsAsked DEF Edits
<1>2. QED
  BY <1>1, InitSpared, NextSpared, InitApart, NextApart, PTL DEF Spec, EditsDoTheirWork

=============================================================================
