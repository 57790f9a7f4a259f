---------------------------- MODULE Resolver_proofs ----------------------------
(***************************************************************************)
(* Names, for any files, whatever they draw, walked by the compiler or by  *)
(* the server.                                                             *)
(***************************************************************************)
EXTENDS LspAnalysis, IterationTheorems, SequenceTheorems, TLAPS

Sequential(s) == \E S : s \in Seq(S)

-----------------------------------------------------------------------------
(* Sequences *)

LEMMA Places ==
  ASSUME NEW s, Sequential(s)
  PROVE  Len(s) \in Nat /\ DOMAIN s = 1 .. Len(s) /\ (s = <<>> <=> Len(s) = 0)
  BY LenProperties, EmptySeq DEF Sequential

LEMMA Pushed ==
  ASSUME NEW a, Sequential(a), NEW b, Sequential(b)
  PROVE  /\ Sequential(a \o b) /\ Len(a \o b) = Len(a) + Len(b)
         /\ DOMAIN (a \o b) = 1 .. Len(a) + Len(b)
         /\ \A i \in 1 .. Len(a) + Len(b) : (a \o b)[i] = IF i <= Len(a) THEN a[i] ELSE b[i - Len(a)]
<1>1. PICK S, T : a \in Seq(S) /\ b \in Seq(T)
  BY DEF Sequential
<1>2. a \in Seq(S \cup T) /\ b \in Seq(S \cup T)
  BY <1>1, SeqMonotonic
<1>3. /\ a \o b \in Seq(S \cup T) /\ Len(a \o b) = Len(a) + Len(b)
      /\ \A i \in 1 .. Len(a) + Len(b) : (a \o b)[i] = IF i <= Len(a) THEN a[i] ELSE b[i - Len(a)]
  BY <1>2, ConcatProperties
<1> QED  BY <1>3, LenProperties DEF Sequential

LEMMA Popped ==
  ASSUME NEW s, Sequential(s), s # <<>>
  PROVE  /\ 1 \in DOMAIN s /\ Head(s) = s[1]
         /\ Sequential(Tail(s)) /\ Len(Tail(s)) = Len(s) - 1
         /\ DOMAIN Tail(s) = 1 .. Len(s) - 1
         /\ \A i \in 1 .. Len(s) - 1 : Tail(s)[i] = s[i + 1]
<1>1. PICK S : s \in Seq(S)
  BY DEF Sequential
<1>2. /\ Tail(s) \in Seq(S) /\ Len(s) \in Nat /\ Len(s) >= 1 /\ Head(s) = s[1] /\ Len(Tail(s)) = Len(s) - 1
      /\ DOMAIN s = 1 .. Len(s) /\ DOMAIN Tail(s) = 1 .. Len(s) - 1
      /\ \A i \in 1 .. Len(s) - 1 : Tail(s)[i] = s[i + 1]
  BY <1>1, HeadTailProperties, LenProperties, EmptySeq
<1> QED  BY <1>2 DEF Sequential

LEMMA Single ==
  ASSUME NEW x
  PROVE  Sequential(<<x>>) /\ Len(<<x>>) = 1 /\ DOMAIN <<x>> = {1} /\ <<x>>[1] = x /\ <<x>> # <<>>
<1>1. <<x>> \in Seq({x}) /\ Len(<<x>>) = 1 /\ <<x>>[1] = x
  OBVIOUS
<1> DEFINE s == <<x>>
<1>2. s \in Seq({x}) /\ Len(s) = 1
  BY <1>1
<1> HIDE DEF s
<1>3. DOMAIN s = 1 .. 1 /\ s # <<>> /\ Sequential(s)
  BY <1>2, LenProperties, EmptySeq DEF Sequential
<1> QED  BY <1>1, <1>3 DEF s

LEMMA Appended ==
  ASSUME NEW s, Sequential(s), NEW x
  PROVE  /\ Sequential(Append(s, x)) /\ Len(Append(s, x)) = Len(s) + 1
         /\ DOMAIN Append(s, x) = 1 .. Len(s) + 1
         /\ \A i \in 1 .. Len(s) : Append(s, x)[i] = s[i]
         /\ Append(s, x)[Len(s) + 1] = x
<1>1. PICK S : s \in Seq(S)
  BY DEF Sequential
<1>2. s \in Seq(S \cup {x}) /\ x \in S \cup {x}
  BY <1>1, SeqMonotonic
<1>3. /\ Append(s, x) \in Seq(S \cup {x}) /\ Len(Append(s, x)) = Len(s) + 1
      /\ \A i \in 1 .. Len(s) : Append(s, x)[i] = s[i]
      /\ Append(s, x)[Len(s) + 1] = x
  BY <1>2, AppendProperties
<1> QED  BY <1>3, LenProperties DEF Sequential

\* The least of some places.
LEMMA MinIsOne ==
  ASSUME NEW S, S \subseteq Nat, S # {}
  PROVE  Min(S) \in S
<1>1. PICK n \in S : \A k \in S : n <= k
  BY LeastNatural
<1> QED  BY <1>1 DEF Min

LEMMA MaxIsOne ==
  ASSUME NEW m \in Nat, NEW S, S \subseteq 1 .. m, S # {}
  PROVE  Max(S) \in S
<1> DEFINE T == {n \in Nat : n <= m /\ m - n \in S}
<1>1. PICK s \in S : TRUE
  OBVIOUS
<1>2. m - s \in T /\ T \subseteq Nat
  BY <1>1
<1>3. PICK n \in T : \A k \in T : n <= k
  BY <1>2, LeastNatural
<1>4. ASSUME NEW x \in S PROVE m - n >= x
  <2>1. m - x \in T
    BY <1>4
  <2> QED  BY <1>3, <1>4, <2>1
<1>5. m - n \in S
  BY <1>3
<1> QED  BY <1>4, <1>5 DEF Max

\* A step may depend on how many were made before it.
Steps(g, m, start, step) == g[0] = start /\ \A k \in 1 .. m : g[k] = step[k][g[k - 1]]

LEMMA StepsExist ==
  ASSUME NEW m \in Nat, NEW S, NEW start \in S, NEW step \in [1 .. m -> [S -> S]]
  PROVE  \E g \in [0 .. m -> S] : Steps(g, m, start, step)
<1> DEFINE P == (0 .. m) \X S
           next == [p \in P |-> IF p[1] < m THEN <<p[1] + 1, step[p[1] + 1][p[2]]>> ELSE p]
<1>1. next \in [P -> P]
  <2> SUFFICES ASSUME NEW p \in P PROVE (IF p[1] < m THEN <<p[1] + 1, step[p[1] + 1][p[2]]>> ELSE p) \in P
    OBVIOUS
  <2>1. p[1] \in 0 .. m /\ p[2] \in S
    OBVIOUS
  <2>2. CASE p[1] < m
    <3>1. p[1] + 1 \in 1 .. m
      BY <2>1, <2>2
    <3>2. step[p[1] + 1][p[2]] \in S
      BY <2>1, <3>1
    <3> QED  BY <2>1, <2>2, <3>1, <3>2
  <2> QED  BY <2>2
<1>2. <<0, start>> \in P
  OBVIOUS
<1>3. \A p \in P : next[p] = IF p[1] < m THEN <<p[1] + 1, step[p[1] + 1][p[2]]>> ELSE p
  OBVIOUS
<1>4. PICK h \in [0 .. m -> P] : Iterates(h, m, <<0, start>>, next)
  <2> HIDE DEF P, next
  <2> QED  BY <1>1, <1>2, IterationExists
<1> HIDE DEF next
<1> DEFINE Q == {k \in Nat : k <= m => h[k][1] = k}
<1>5. 0 \in Q
  BY <1>4 DEF Iterates
<1>6. ASSUME NEW k \in 1 .. m, k - 1 \in Q PROVE k \in Q /\ h[k] = <<k, step[k][h[k - 1][2]]>>
  <2>1. h[k] = next[h[k - 1]] /\ h[k - 1] \in P /\ h[k - 1][1] = k - 1
    BY <1>4, <1>6 DEF Iterates
  <2>2. h[k] = <<k, step[k][h[k - 1][2]]>>
    <3> DEFINE p == h[k - 1]
    <3>1. p \in P /\ p[1] = k - 1 /\ k - 1 < m /\ p[1] + 1 = k /\ h[k] = next[p]
      BY <2>1
    <3> HIDE DEF p
    <3>2. next[p] = <<p[1] + 1, step[p[1] + 1][p[2]]>>
      BY <1>3, <3>1
    <3>3. h[k] = <<k, step[k][p[2]]>>
      BY <3>1, <3>2
    <3> QED  BY <3>3 DEF p
  <2> QED  BY <2>2
<1>7. 0 .. m \subseteq Q
  <2>1. \A k \in 1 .. m : k - 1 \in Q => k \in Q
    BY <1>6
  <2> HIDE DEF Q
  <2> QED  BY <1>5, <2>1, BoundedInduction
<1>8. \A k \in 1 .. m : h[k] = <<k, step[k][h[k - 1][2]]>>
  <2> SUFFICES ASSUME NEW k \in 1 .. m PROVE h[k] = <<k, step[k][h[k - 1][2]]>>
    OBVIOUS
  <2>1. k - 1 \in 0 .. m
    OBVIOUS
  <2>2. k - 1 \in Q
    BY <1>7, <2>1
  <2> HIDE DEF Q
  <2> QED  BY <1>6, <2>2
<1> DEFINE g == [k \in 0 .. m |-> h[k][2]]
<1>9. g \in [0 .. m -> S] /\ g[0] = start
  BY <1>4 DEF Iterates
<1>10. \A k \in 1 .. m : g[k] = step[k][g[k - 1]]
  <2> SUFFICES ASSUME NEW k \in 1 .. m PROVE g[k] = step[k][g[k - 1]]
    OBVIOUS
  <2>1. k - 1 \in 0 .. m /\ k \in 0 .. m
    OBVIOUS
  <2>2. g[k] = h[k][2] /\ g[k - 1] = h[k - 1][2]
    BY <2>1
  <2>3. h[k][2] = step[k][h[k - 1][2]]
    <3> DEFINE v == step[k][h[k - 1][2]]
    <3>1. h[k] = <<k, v>>
      BY <1>8
    <3> HIDE DEF v
    <3>2. h[k][2] = v
      BY <3>1
    <3> QED  BY <3>2 DEF v
  <2> HIDE DEF g
  <2> QED  BY <2>2, <2>3
<1> HIDE DEF g
<1> QED  BY <1>9, <1>10 DEF Steps


\* What is chosen of a sequence, and all of it.
LEMMA ChosenOnes ==
  ASSUME NEW seq, Sequential(seq), NEW places
  PROVE  /\ Chosen(seq, places) \in Seq({seq[i] : i \in places \cap DOMAIN seq})
         /\ \A i \in places \cap DOMAIN seq : \E j \in DOMAIN Chosen(seq, places) : Chosen(seq, places)[j] = seq[i]
<1> DEFINE m == Len(seq)
           T == {seq[i] : i \in places \cap DOMAIN seq}
           Loop(u) == u = [i \in 0 .. m |-> IF i = 0 THEN <<>>
                                            ELSE IF i \in places THEN Append(u[i - 1], seq[i]) ELSE u[i - 1]]
           run == CHOOSE u : Loop(u)
           step == [i \in 1 .. m |-> [s \in Seq(T) |-> IF i \in places THEN Append(s, seq[i]) ELSE s]]
<1>1. m \in Nat /\ DOMAIN seq = 1 .. m
  BY Places
<1>2. Chosen(seq, places) = run[m]
  BY DEF Chosen
<1> HIDE DEF m
<1>3. \A i \in 1 .. m : i \in places => seq[i] \in T
  BY <1>1
<1> HIDE DEF T
<1>4. step \in [1 .. m -> [Seq(T) -> Seq(T)]]
  <2> SUFFICES ASSUME NEW i \in 1 .. m, NEW s \in Seq(T)
               PROVE  (IF i \in places THEN Append(s, seq[i]) ELSE s) \in Seq(T)
    OBVIOUS
  <2>1. CASE i \in places
    <3>1. seq[i] \in T
      BY <1>3, <2>1
    <3>2. Append(s, seq[i]) \in Seq(T)
      BY <3>1, AppendProperties
    <3> QED  BY <2>1, <3>2
  <2> QED  BY <2>1
<1>5. \A i \in 1 .. m, s \in Seq(T) : step[i][s] = IF i \in places THEN Append(s, seq[i]) ELSE s
  OBVIOUS
<1> HIDE DEF step
<1>6. <<>> \in Seq(T)
  BY EmptySeq
<1>7. PICK g \in [0 .. m -> Seq(T)] : g[0] = <<>> /\ \A k \in 1 .. m : g[k] = step[k][g[k - 1]]
  <2> DEFINE S == Seq(T)
             start == <<>>
  <2>1. step \in [1 .. m -> [S -> S]] /\ start \in S
    BY <1>4, <1>6
  <2> HIDE DEF S, start
  <2>2. PICK g \in [0 .. m -> S] : Steps(g, m, start, step)
    BY <1>1, <2>1, StepsExist
  <2> QED  BY <2>2 DEF S, start, Steps
<1>8. Loop(g)
  <2> DEFINE E(i) == IF i = 0 THEN <<>> ELSE IF i \in places THEN Append(g[i - 1], seq[i]) ELSE g[i - 1]
  <2>1. ASSUME NEW i \in 0 .. m PROVE g[i] = E(i)
    <3>1. CASE i = 0
      BY <1>7, <3>1
    <3>2. CASE i # 0
      <4>1. i \in 1 .. m /\ i - 1 \in 0 .. m
        BY <1>1, <3>2
      <4>2. g[i - 1] \in Seq(T) /\ g[i] = step[i][g[i - 1]]
        BY <1>7, <4>1
      <4> QED  BY <1>5, <3>2, <4>1, <4>2
    <3> QED  BY <3>1, <3>2
  <2>2. g = [i \in 0 .. m |-> g[i]]
    BY <1>7
  <2>3. [i \in 0 .. m |-> g[i]] = [i \in 0 .. m |-> E(i)]
    <3> HIDE DEF E
    <3> QED  BY <2>1
  <2> QED  BY <2>2, <2>3
<1>9. Loop(run)
  <2> HIDE DEF Loop
  <2> QED  BY <1>8
<1> HIDE DEF run
<1> DEFINE Q == {n \in Nat : n <= m => /\ run[n] \in Seq(T)
                                       /\ \A i \in places \cap (1 .. n) : \E j \in DOMAIN run[n] : run[n][j] = seq[i]}
<1>10. \A i \in 0 .. m : run[i] = IF i = 0 THEN <<>> ELSE IF i \in places THEN Append(run[i - 1], seq[i]) ELSE run[i - 1]
  BY <1>9
<1> HIDE DEF Loop
<1>11. 0 \in Q
  <2>1. run[0] = <<>>
    BY <1>1, <1>10
  <2>2. run[0] \in Seq(T)
    BY <1>6, <2>1
  <2>3. places \cap (1 .. 0) = {}
    OBVIOUS
  <2> QED  BY <2>2, <2>3
<1>12. ASSUME NEW n \in 1 .. m, n - 1 \in Q PROVE n \in Q
  <2>1. /\ run[n - 1] \in Seq(T)
        /\ \A i \in places \cap (1 .. n - 1) : \E j \in DOMAIN run[n - 1] : run[n - 1][j] = seq[i]
    BY <1>1, <1>12
  <2>2. run[n] = IF n \in places THEN Append(run[n - 1], seq[n]) ELSE run[n - 1]
    BY <1>1, <1>10
  <2>3. CASE n \notin places
    <3>1. places \cap (1 .. n) = places \cap (1 .. n - 1)
      BY <1>1, <2>3
    <3> QED  BY <2>1, <2>2, <2>3, <3>1
  <2>4. CASE n \in places
    <3> DEFINE s == run[n - 1]
    <3>1. s \in Seq(T) /\ seq[n] \in T
      BY <1>3, <2>1, <2>4
    <3>2. run[n] = Append(s, seq[n])
      BY <2>2, <2>4
    <3> HIDE DEF s
    <3>3. Sequential(s)
      BY <3>1 DEF Sequential
    <3>4. Len(s) \in Nat /\ DOMAIN s = 1 .. Len(s)
      BY <3>3, Places
    <3>5. /\ run[n] \in Seq(T) /\ DOMAIN run[n] = 1 .. Len(s) + 1
          /\ \A j \in 1 .. Len(s) : run[n][j] = s[j]
          /\ run[n][Len(s) + 1] = seq[n]
      BY <3>1, <3>2, <3>3, Appended, AppendProperties
    <3>6. ASSUME NEW i \in places \cap (1 .. n) PROVE \E j \in DOMAIN run[n] : run[n][j] = seq[i]
      <4>1. CASE i = n
        <5>1. Len(s) + 1 \in DOMAIN run[n]
          BY <3>4, <3>5
        <5> QED  BY <3>5, <4>1, <5>1
      <4>2. CASE i # n
        <5>1. i \in places \cap (1 .. n - 1)
          BY <1>1, <4>2
        <5>2. PICK j \in DOMAIN s : s[j] = seq[i]
          BY <2>1, <5>1 DEF s
        <5>3. j \in DOMAIN run[n] /\ run[n][j] = seq[i]
          BY <3>4, <3>5, <5>2
        <5> QED  BY <5>3
      <4> QED  BY <4>1, <4>2
    <3> QED  BY <3>5, <3>6
  <2> QED  BY <2>3, <2>4
<1>13. 0 .. m \subseteq Q
  <2>1. \A n \in 1 .. m : n - 1 \in Q => n \in Q
    BY <1>12
  <2> HIDE DEF Q
  <2> QED  BY <1>1, <1>11, <2>1, BoundedInduction
<1>14. m \in 0 .. m
  BY <1>1
<1>15. run[m] \in Seq(T) /\ \A i \in places \cap (1 .. m) : \E j \in DOMAIN run[m] : run[m][j] = seq[i]
  BY <1>13, <1>14
<1> QED  BY <1>1, <1>2, <1>15 DEF T

LEMMA FirstIsOne ==
  ASSUME NEW kids, Sequential(kids), NEW places, places \subseteq DOMAIN kids, places # {}
  PROVE  \E i \in places : FirstIn(kids, places) = kids[i]
<1>1. places \subseteq Nat
  BY Places
<1> QED  BY <1>1, MinIsOne DEF FirstIn

-----------------------------------------------------------------------------
(* Lookups *)

\* The table gives ids that were given for the names it has, and scopes that were made.
Bears(table, ids, count) ==
  \A x \in DOMAIN table : /\ table[x].id \in 0 .. Len(ids) - 1 /\ ids[table[x].id + 1].name = x
                          /\ table[x].scope \in 0 .. count

Fields == {"symbols", "parent", "of"}

\* A scope is younger than the one around it and made for the same file.  The symbols may
\* name a scope about to be made.
Scoped(made, ids, count) ==
  /\ Sequential(made)
  /\ \A s \in DOMAIN made :
       /\ DOMAIN made[s] = Fields
       /\ made[s].parent \in 0 .. s - 1
       /\ made[s].parent # NoParent => made[made[s].parent].of = made[s].of
       /\ Bears(made[s].symbols, ids, count)

\* What is found under a name is nothing, or stands for something of that name.
Finds(symbol, name, ids, count) ==
  symbol = Unknown \/ (symbol.id \in 0 .. Len(ids) - 1 /\ ids[symbol.id + 1].name = name /\ symbol.scope \in 0 .. count)

LEMMA LocalFinds ==
  ASSUME Scoped(scopes, origin, Len(scopes)), NEW s \in DOMAIN scopes, NEW name
  PROVE  Finds(resolve_local(s, name), name, origin, Len(scopes))
  BY DEF Scoped, Bears, Finds, resolve_local

LEMMA ResolveFinds ==
  ASSUME Scoped(scopes, origin, Len(scopes)), NEW s \in DOMAIN scopes, NEW name
  PROVE  Finds(resolve(s, name), name, origin, Len(scopes))
<1> DEFINE m == Len(scopes)
           D == 0 .. m
           Loop(u) == u = [t \in 0 .. m |->
                             IF t = NoParent THEN Unknown
                             ELSE IF name \in DOMAIN scopes[t].symbols THEN scopes[t].symbols[name]
                             ELSE u[scopes[t].parent]]
           run == CHOOSE u : Loop(u)
           stop == {t \in D : t = NoParent \/ name \in DOMAIN scopes[t].symbols}
           val  == [t \in D |-> IF t = NoParent THEN Unknown ELSE scopes[t].symbols[name]]
           next == [t \in D |-> scopes[t].parent]
           rank == [t \in D |-> t]
           V == {val[t] : t \in stop}
<1>1. m \in Nat /\ DOMAIN scopes = 1 .. m
  BY Places DEF Scoped
<1>2. resolve(s, name) = run[s]
  BY DEF resolve
<1> HIDE DEF m
<1>3. \A t \in 1 .. m : scopes[t].parent \in 0 .. t - 1
  BY <1>1 DEF Scoped
<1>4. LeadsDown(D, m, rank, stop, next, val, V)
  <2>1. rank \in [D -> 0 .. m]
    OBVIOUS
  <2>2. ASSUME NEW t \in D PROVE IF t \in stop THEN val[t] \in V ELSE next[t] \in D /\ rank[next[t]] < rank[t]
    <3>1. CASE t \in stop
      BY <3>1
    <3>2. CASE t \notin stop
      <4>1. t \in 1 .. m
        BY <1>1, <3>2 DEF NoParent
      <4>2. next[t] \in 0 .. t - 1 /\ rank[t] = t
        BY <1>3, <4>1
      <4>3. next[t] \in D
        BY <1>1, <4>1, <4>2
      <4>4. rank[next[t]] = next[t]
        BY <4>3
      <4> QED  BY <3>2, <4>1, <4>2, <4>3, <4>4
    <3> QED  BY <3>1, <3>2
  <2> QED  BY <1>1, <2>1, <2>2 DEF LeadsDown
<1>5. ASSUME NEW g PROVE Loop(g) => Jumps(g, D, stop, next, val)
  <2>1. ASSUME Loop(g), NEW t \in D PROVE g[t] = IF t \in stop THEN val[t] ELSE g[next[t]]
    BY <2>1
  <2> QED  BY <2>1 DEF Jumps
<1>6. ASSUME NEW g \in [D -> V], Jumps(g, D, stop, next, val) PROVE Loop(g)
  <2> DEFINE E(t) == IF t = NoParent THEN Unknown
                     ELSE IF name \in DOMAIN scopes[t].symbols THEN scopes[t].symbols[name] ELSE g[scopes[t].parent]
  <2>1. ASSUME NEW t \in D PROVE g[t] = E(t)
    <3>1. g[t] = IF t \in stop THEN val[t] ELSE g[next[t]]
      BY <1>6 DEF Jumps
    <3> QED  BY <3>1
  <2>2. g = [t \in D |-> g[t]]
    BY <1>6
  <2>3. [t \in D |-> g[t]] = [t \in D |-> E(t)]
    <3> HIDE DEF E
    <3> QED  BY <2>1
  <2> QED  BY <2>2, <2>3
<1>7. Loop(run)
  <2>1. \E g \in [D -> V] : Jumps(g, D, stop, next, val)
    <3> HIDE DEF D, rank, stop, next, val, V
    <3> QED  BY <1>4, JumpsExist
  <2>2. \E g : Loop(g)
    <3> HIDE DEF Loop, D, stop, next, val, V
    <3> QED  BY <1>6, <2>1
  <2> HIDE DEF Loop
  <2> QED  BY <2>2
<1>8. \A t \in D : run[t] \in V
  <2>1. Jumps(run, D, stop, next, val)
    BY <1>5, <1>7
  <2> HIDE DEF D, rank, stop, next, val, V, run
  <2> QED  BY <1>4, <2>1, JumpsStay
<1>9. ASSUME NEW t \in stop PROVE Finds(val[t], name, origin, Len(scopes))
  <2>1. CASE t = NoParent
    BY <2>1 DEF Finds
  <2>2. CASE t # NoParent
    <3>1. t \in DOMAIN scopes /\ name \in DOMAIN scopes[t].symbols
      BY <1>1, <2>2 DEF NoParent
    <3>2. val[t] = scopes[t].symbols[name]
      BY <2>2
    <3>3. Bears(scopes[t].symbols, origin, Len(scopes))
      BY <3>1 DEF Scoped
    <3> QED  BY <3>1, <3>2, <3>3 DEF Bears, Finds
  <2> QED  BY <2>1, <2>2
<1>10. run[s] \in V
  <2>1. s \in D
    BY <1>1
  <2> HIDE DEF D, V, run
  <2> QED  BY <1>8, <2>1
<1> QED  BY <1>2, <1>9, <1>10

-----------------------------------------------------------------------------
(* What the scopes go through *)

\* Scopes are added, and none moves.
Grown(old, new) ==
  /\ Sequential(old) /\ Sequential(new) /\ Len(old) <= Len(new)
  /\ \A s \in DOMAIN old : new[s].parent = old[s].parent /\ new[s].of = old[s].of

LEMMA StillThere ==
  ASSUME NEW old, NEW new, Grown(old, new)
  PROVE  /\ Len(old) \in Nat /\ Len(new) \in Nat /\ DOMAIN old = 1 .. Len(old) /\ DOMAIN new = 1 .. Len(new)
         /\ DOMAIN old \subseteq DOMAIN new
  BY Places DEF Grown

LEMMA GrowsOn ==
  ASSUME NEW a, NEW b, NEW c, Grown(a, b), Grown(b, c)
  PROVE  Grown(a, c)
  BY StillThere DEF Grown

LEMMA NothingGrown ==
  ASSUME NEW a, Sequential(a)
  PROVE  Grown(a, a)
  BY Places DEF Grown

\* The symbols of a scope change and all else stays.
Rewrites(made, s, table, new) == new = [made EXCEPT ![s].symbols = table]
AllBear(made, ids, count) == \A t \in DOMAIN made : Bears(made[t].symbols, ids, count)

LEMMA Rewritten ==
  ASSUME NEW made, NEW ids, NEW count, Scoped(made, ids, count), NEW s \in DOMAIN made,
         NEW table, NEW more, NEW upto, Bears(table, more, upto),
         AllBear(made, more, upto), NEW new, Rewrites(made, s, table, new)
  PROVE  /\ Scoped(new, more, upto) /\ Grown(made, new) /\ Len(new) = Len(made)
<1>1. PICK S : made \in Seq(S)
  BY DEF Scoped, Sequential
<1>2. /\ Len(made) \in Nat /\ DOMAIN made = 1 .. Len(made)
  BY Places DEF Scoped
<1>3. \A t \in DOMAIN made : /\ DOMAIN made[t] = Fields /\ made[t].parent \in 0 .. t - 1
                             /\ made[t].parent # NoParent => made[made[t].parent].of = made[t].of
  BY DEF Scoped
<1>4. new = [t \in DOMAIN made |-> IF t = s THEN [made[s] EXCEPT !.symbols = table] ELSE made[t]]
  BY DEF Rewrites
<1>5. ASSUME NEW t \in DOMAIN made
      PROVE  /\ DOMAIN new[t] = Fields /\ new[t].parent = made[t].parent /\ new[t].of = made[t].of
             /\ Bears(new[t].symbols, more, upto)
  <2>1. CASE t = s
    <3> DEFINE r == made[s]
    <3>1. new[t] = [r EXCEPT !.symbols = table] /\ DOMAIN r = {"symbols", "parent", "of"}
      BY <1>3, <1>4, <2>1 DEF Fields
    <3> HIDE DEF r
    <3>2. DOMAIN new[t] = Fields /\ new[t].parent = r.parent /\ new[t].of = r.of /\ new[t].symbols = table
      BY <3>1 DEF Fields
    <3> QED  BY <2>1, <3>2 DEF r
  <2>2. CASE t # s
    BY <1>3, <1>4, <2>2 DEF AllBear
  <2> QED  BY <2>1, <2>2
<1>6. DOMAIN new = DOMAIN made
  BY <1>4
<1>7. new \in Seq({new[t] : t \in DOMAIN made}) /\ Len(new) = Len(made)
  <2> DEFINE R == {new[t] : t \in DOMAIN made}
  <2>1. new \in [1 .. Len(made) -> R]
    BY <1>2, <1>4, <1>6
  <2> HIDE DEF R
  <2>2. new \in Seq(R)
    BY <1>2, <2>1, SeqDef
  <2>3. Len(new) \in Nat /\ DOMAIN new = 1 .. Len(new)
    BY <2>2, LenProperties
  <2>4. Len(new) = Len(made)
    BY <1>2, <1>6, <2>3
  <2> QED  BY <2>2, <2>4 DEF R
<1>8. Sequential(new) /\ Sequential(made)
  BY <1>1, <1>7 DEF Sequential
<1>9. Grown(made, new)
  BY <1>2, <1>5, <1>7, <1>8 DEF Grown
<1>10. ASSUME NEW t \in DOMAIN new
       PROVE  /\ DOMAIN new[t] = Fields /\ new[t].parent \in 0 .. t - 1
              /\ new[t].parent # NoParent => new[new[t].parent].of = new[t].of
              /\ Bears(new[t].symbols, more, upto)
  <2>1. t \in DOMAIN made
    BY <1>6
  <2>2. /\ DOMAIN new[t] = Fields /\ new[t].parent = made[t].parent /\ new[t].of = made[t].of
        /\ Bears(new[t].symbols, more, upto)
    BY <1>5, <2>1
  <2>3. ASSUME new[t].parent # NoParent PROVE new[new[t].parent].of = new[t].of
    <3>1. made[t].parent \in DOMAIN made
      BY <1>2, <1>3, <2>1, <2>2, <2>3 DEF NoParent
    <3> QED  BY <1>3, <1>5, <2>1, <2>2, <2>3, <3>1
  <2> QED  BY <1>3, <2>1, <2>2, <2>3
<1> QED  BY <1>7, <1>8, <1>9, <1>10 DEF Scoped

\* An id more.
LEMMA BearsOn ==
  ASSUME NEW ids, Sequential(ids), NEW entry, NEW table, NEW count \in Nat, Bears(table, ids, count),
         NEW upto \in Nat, count <= upto
  PROVE  Bears(table, Append(ids, entry), upto)
<1>1. /\ Len(ids) \in Nat /\ Len(Append(ids, entry)) = Len(ids) + 1
      /\ \A i \in 1 .. Len(ids) : Append(ids, entry)[i] = ids[i]
  BY Appended, Places
<1>2. ASSUME NEW x \in DOMAIN table
      PROVE  /\ table[x].id \in 0 .. Len(Append(ids, entry)) - 1 /\ Append(ids, entry)[table[x].id + 1].name = x
             /\ table[x].scope \in 0 .. upto
  <2> DEFINE d == table[x].id
             c == table[x].scope
  <2>1. d \in 0 .. Len(ids) - 1 /\ ids[d + 1].name = x /\ c \in 0 .. count
    BY DEF Bears
  <2> HIDE DEF d, c
  <2>2. d + 1 \in 1 .. Len(ids)
    BY <1>1, <2>1
  <2>3. d \in 0 .. Len(Append(ids, entry)) - 1 /\ Append(ids, entry)[d + 1].name = x /\ c \in 0 .. upto
    BY <1>1, <2>1, <2>2
  <2> QED  BY <2>3 DEF d, c
<1> QED  BY <1>2 DEF Bears

\* A name is given the next id.
LEMMA Declares ==
  ASSUME NEW made, NEW ids, Sequential(ids), NEW count \in Nat, Scoped(made, ids, count),
         NEW upto \in Nat, count <= upto, NEW s \in DOMAIN made,
         NEW entry, NEW name, entry.name = name, NEW m \in 0 .. upto,
         NEW new, Rewrites(made, s, With(made[s].symbols, name, Symbol(Len(ids), m)), new)
  PROVE  /\ Scoped(new, Append(ids, entry), upto) /\ Grown(made, new) /\ Len(new) = Len(made)
<1> DEFINE old == made[s].symbols
           table == With(old, name, Symbol(Len(ids), m))
           more == Append(ids, entry)
<1>1. AllBear(made, more, upto)
  <2>1. \A t \in DOMAIN made : Bears(made[t].symbols, ids, count)
    BY DEF Scoped
  <2> QED  BY <2>1, BearsOn DEF AllBear
<1>2. Bears(old, more, upto)
  BY <1>1 DEF AllBear
<1>3. Bears(table, more, upto)
  <2> HIDE DEF old
  <2>1. /\ DOMAIN table = {name} \cup DOMAIN old
        /\ \A x \in {name} \cup DOMAIN old : table[x] = IF x = name THEN Symbol(Len(ids), m) ELSE old[x]
    BY DEF With
  <2>2. Len(ids) \in Nat
    BY Places
  <2>3. Len(more) = Len(ids) + 1 /\ more[Len(ids) + 1] = entry
    BY Appended
  <2> HIDE DEF table, more
  <2>4. ASSUME NEW x \in DOMAIN table
        PROVE  table[x].id \in 0 .. Len(more) - 1 /\ more[table[x].id + 1].name = x /\ table[x].scope \in 0 .. upto
    <3>1. CASE x = name
      <4>1. table[x].id = Len(ids) /\ table[x].scope = m
        BY <2>1, <3>1 DEF Symbol
      <4> QED  BY <2>2, <2>3, <3>1, <4>1
    <3>2. CASE x # name
      <4>1. x \in DOMAIN old /\ table[x] = old[x]
        BY <2>1, <3>2
      <4> QED  BY <1>2, <4>1 DEF Bears
    <3> QED  BY <3>1, <3>2
  <2> QED  BY <2>4 DEF Bears
<1>4. Rewrites(made, s, table, new)
  OBVIOUS
<1> HIDE DEF table, more
<1>5. Scoped(new, more, upto) /\ Grown(made, new) /\ Len(new) = Len(made)
  BY <1>1, <1>3, <1>4, Rewritten
<1> QED  BY <1>5 DEF more

\* A scope is made.
OneMore(made, parent, source, new) == new = Append(made, EmptyScope(parent, source))

Youngest(made, parent, source) ==
  Len(made) \in DOMAIN made /\ made[Len(made)].parent = parent /\ made[Len(made)].of = source

LEMMA ScopedMore ==
  ASSUME NEW made, NEW ids, NEW count \in Nat, Scoped(made, ids, count), NEW upto \in Nat, count <= upto
  PROVE  Scoped(made, ids, upto)
<1>1. ASSUME NEW s \in DOMAIN made PROVE Bears(made[s].symbols, ids, upto)
  <2>1. Bears(made[s].symbols, ids, count)
    BY DEF Scoped
  <2> QED  BY <2>1 DEF Bears
<1> QED  BY <1>1 DEF Scoped

LEMMA Opens ==
  ASSUME NEW made, NEW ids, NEW upto, Scoped(made, ids, upto),
         NEW parent, parent = NoParent \/ parent \in DOMAIN made, NEW source, parent # NoParent => made[parent].of = source,
         NEW new, OneMore(made, parent, source, new)
  PROVE  /\ Scoped(new, ids, upto) /\ Grown(made, new) /\ Len(new) = Len(made) + 1
         /\ Youngest(new, parent, source)
<1> DEFINE n == Len(made) + 1
           scope == EmptyScope(parent, source)
<1>1. Sequential(made) /\ Len(made) \in Nat /\ DOMAIN made = 1 .. Len(made)
  BY Places DEF Scoped
<1>0. parent \in 0 .. Len(made)
  BY <1>1 DEF NoParent
<1>2. /\ Sequential(new) /\ Len(new) = n /\ DOMAIN new = 1 .. n
      /\ \A s \in 1 .. Len(made) : new[s] = made[s]
      /\ new[n] = scope
  BY <1>1, Appended DEF OneMore
<1>3. Grown(made, new)
  BY <1>1, <1>2 DEF Grown
<1>4. DOMAIN scope = Fields /\ scope.parent = parent /\ scope.of = source /\ scope.symbols = <<>>
  BY DEF EmptyScope, Fields
<1>6. Bears(<<>>, ids, upto)
  BY DEF Bears
<1> HIDE DEF scope
<1>7. ASSUME NEW s \in DOMAIN new
      PROVE  /\ DOMAIN new[s] = Fields /\ new[s].parent \in 0 .. s - 1
             /\ new[s].parent # NoParent => new[new[s].parent].of = new[s].of
             /\ Bears(new[s].symbols, ids, upto)
  <2>1. CASE s = n
    <3>1. new[s] = scope /\ parent \in 0 .. s - 1
      BY <1>0, <1>1, <1>2, <2>1
    <3>2. ASSUME parent # NoParent PROVE new[parent].of = source
      <4>1. parent \in 1 .. Len(made)
        BY <1>1, <3>2 DEF NoParent
      <4> QED  BY <1>2, <3>2, <4>1
    <3> QED  BY <1>4, <1>6, <3>1, <3>2
  <2>2. CASE s # n
    <3>1. s \in DOMAIN made /\ new[s] = made[s] /\ s \in 1 .. Len(made)
      BY <1>1, <1>2, <2>2
    <3>2. /\ DOMAIN made[s] = Fields /\ made[s].parent \in 0 .. s - 1
          /\ made[s].parent # NoParent => made[made[s].parent].of = made[s].of
          /\ Bears(made[s].symbols, ids, upto)
      BY <3>1 DEF Scoped
    <3>3. ASSUME made[s].parent # NoParent PROVE new[made[s].parent].of = made[s].of
      <4>1. made[s].parent \in 1 .. Len(made)
        BY <1>1, <3>1, <3>2, <3>3 DEF NoParent
      <4> QED  BY <1>2, <3>2, <3>3, <4>1
    <3> QED  BY <3>1, <3>2, <3>3
  <2> QED  BY <2>1, <2>2
<1>8. Scoped(new, ids, upto)
  BY <1>2, <1>7 DEF Scoped
<1>9. n \in DOMAIN new
  BY <1>1, <1>2
<1> QED  BY <1>2, <1>3, <1>4, <1>8, <1>9 DEF Youngest

\* One scope takes over the symbols of another.
LEMMA Merges ==
  ASSUME Scoped(scopes, origin, Len(scopes)), NEW into \in DOMAIN scopes, NEW from \in DOMAIN scopes
  PROVE  Scoped(Merged(into, from), origin, Len(scopes)) /\ Grown(scopes, Merged(into, from))
         /\ Len(Merged(into, from)) = Len(scopes)
<1> DEFINE a == scopes[into].symbols
           b == scopes[from].symbols
           table == Over(a, b)
           new == Merged(into, from)
<1>1. AllBear(scopes, origin, Len(scopes))
  BY DEF Scoped, AllBear
<1>2. Bears(a, origin, Len(scopes)) /\ Bears(b, origin, Len(scopes))
  BY <1>1 DEF AllBear
<1>3. Rewrites(scopes, into, table, new)
  BY DEF Merged, Rewrites
<1> HIDE DEF a, b, new
<1>4. Bears(table, origin, Len(scopes))
  <2>1. /\ DOMAIN table = DOMAIN a \cup DOMAIN b
        /\ \A x \in DOMAIN a \cup DOMAIN b : table[x] = IF x \in DOMAIN a THEN a[x] ELSE b[x]
    BY DEF Over
  <2> HIDE DEF table
  <2>2. ASSUME NEW x \in DOMAIN table
        PROVE  /\ table[x].id \in 0 .. Len(origin) - 1 /\ origin[table[x].id + 1].name = x
               /\ table[x].scope \in 0 .. Len(scopes)
    <3>1. CASE x \in DOMAIN a
      BY <1>2, <2>1, <3>1 DEF Bears
    <3>2. CASE x \notin DOMAIN a
      BY <1>2, <2>1, <3>2 DEF Bears
    <3> QED  BY <3>1, <3>2
  <2> QED  BY <2>2 DEF Bears
<1> HIDE DEF table
<1>5. Scoped(new, origin, Len(scopes)) /\ Grown(scopes, new) /\ Len(new) = Len(scopes)
  BY <1>1, <1>3, <1>4, Rewritten
<1> QED  BY <1>5 DEF new

-----------------------------------------------------------------------------
(* What is left to do *)

\* The task is one of the walk over a file that was given an id.
Walking == {"visit", "member", "document"}
Listing == {"named", "let", "pattern"}
Others  == {"draw", "loaded", "pop"}

ListFields == {"do", "kids", "keyword", "found", "tilde", "defined", "here", "source"}
DrawFields == {"do", "path", "next", "scope", "here", "source"}

Names(f) == {e \in Parts[f] : IsIdent(e)}

Position(here) == here = [current |-> here.current, base |-> here.base]

TaskOK(t, made, files) ==
  /\ t.do \in Walking \cup Listing \cup Others
  /\ t.source \in DOMAIN files
  /\ t.do # "document" => Position(t.here) /\ t.here.current \in DOMAIN made /\ made[t.here.current].of = t.source
  /\ t.do \in Walking => t.node \in Parts[files[t.source]]
  /\ t.do \in Listing => DOMAIN t = ListFields /\ t.kids \in Seq(Parts[files[t.source]])
  /\ t.do = "draw" => /\ DOMAIN t = DrawFields /\ t.path \in Seq(Names(files[t.source]))
                      /\ t.next \in 1 .. Len(t.path) + 1 /\ t.scope \in DOMAIN made
  /\ t.do = "loaded" => t.scope \in DOMAIN made
  /\ t.do = "pop" => made[t.here.current].parent # NoParent
  /\ t.do = "document" => IsNode(t.node) /\ t.scope \in DOMAIN made /\ made[t.scope].of = t.source

\* Where the walk is when the task is done.
After(t, made) ==
  IF t.do = "pop" THEN [current |-> made[t.here.current].parent, base |-> t.here.base]
  ELSE IF t.do = "loaded" THEN t.back ELSE t.here

\* The documents come last, and the end of a file before the draw that asked for it.
Follows(t, u, made) ==
  IF t.do = "document" THEN u.do = "document"
  ELSE /\ u.do # "document" => u.here = After(t, made)
       /\ t.do = "loaded" => u.do = "draw" /\ u.next <= Len(u.path)

Chain(w, made, files) ==
  /\ Sequential(w)
  /\ \A i \in DOMAIN w : TaskOK(w[i], made, files)
  /\ \A i \in DOMAIN w : i + 1 \in DOMAIN w => Follows(w[i], w[i + 1], made)

Stack(w, made, files) ==
  /\ Chain(w, made, files)
  /\ \A i \in DOMAIN w : w[i].do = "loaded" => i + 1 \in DOMAIN w

\* The walk is where the next task was meant to be done.
AtHead(w, here) == w # <<>> /\ w[1].do # "document" => w[1].here = here

\* Files are added.
Extended(old, new) ==
  /\ Sequential(old) /\ Sequential(new) /\ Len(old) <= Len(new)
  /\ \A i \in DOMAIN old : new[i] = old[i]

LEMMA TaskStays ==
  ASSUME NEW t, NEW made, NEW files, TaskOK(t, made, files),
         NEW new, Grown(made, new), NEW more, Extended(files, more)
  PROVE  TaskOK(t, new, more)
<1>1. DOMAIN made \subseteq DOMAIN new /\ \A s \in DOMAIN made : new[s].parent = made[s].parent /\ new[s].of = made[s].of
  BY StillThere DEF Grown
<1>2. DOMAIN files \subseteq DOMAIN more /\ \A i \in DOMAIN files : more[i] = files[i]
  BY Places DEF Extended
<1>3. t.source \in DOMAIN more /\ more[t.source] = files[t.source]
  BY <1>2 DEF TaskOK
<1>4. t.do # "document" => Position(t.here) /\ t.here.current \in DOMAIN new /\ new[t.here.current].of = t.source
  BY <1>1 DEF TaskOK
<1>5. t.do = "pop" => new[t.here.current].parent # NoParent
  BY <1>1 DEF TaskOK
<1>6. t.do = "document" => IsNode(t.node) /\ t.scope \in DOMAIN new /\ new[t.scope].of = t.source
  BY <1>1 DEF TaskOK
<1>7. t.do = "loaded" => t.scope \in DOMAIN new
  BY <1>1 DEF TaskOK
<1>8. t.do = "draw" => /\ DOMAIN t = DrawFields /\ t.path \in Seq(Names(more[t.source]))
                       /\ t.next \in 1 .. Len(t.path) + 1 /\ t.scope \in DOMAIN new
  BY <1>1, <1>3 DEF TaskOK
<1>9. /\ t.do \in Walking => t.node \in Parts[more[t.source]]
      /\ t.do \in Listing => DOMAIN t = ListFields /\ t.kids \in Seq(Parts[more[t.source]])
  BY <1>3 DEF TaskOK
<1> QED  BY <1>3, <1>4, <1>5, <1>6, <1>7, <1>8, <1>9 DEF TaskOK

LEMMA FollowsStays ==
  ASSUME NEW t, NEW u, NEW made, NEW files, TaskOK(t, made, files), Follows(t, u, made),
         NEW new, Grown(made, new)
  PROVE  Follows(t, u, new)
<1>1. t.do = "pop" => new[t.here.current].parent = made[t.here.current].parent
  BY DEF TaskOK, Grown
<1>2. After(t, new) = After(t, made)
  BY <1>1 DEF After
<1> QED  BY <1>2 DEF Follows

LEMMA StackStays ==
  ASSUME NEW w, NEW made, NEW files, Stack(w, made, files),
         NEW new, Grown(made, new), NEW more, Extended(files, more)
  PROVE  Stack(w, new, more)
<1>1. Sequential(w) /\ \A i \in DOMAIN w : TaskOK(w[i], made, files)
  BY DEF Stack, Chain
<1>2. \A i \in DOMAIN w : TaskOK(w[i], new, more)
  BY <1>1, TaskStays
<1>3. \A i \in DOMAIN w : i + 1 \in DOMAIN w => Follows(w[i], w[i + 1], made)
  BY DEF Stack, Chain
<1>4. \A i \in DOMAIN w : i + 1 \in DOMAIN w => Follows(w[i], w[i + 1], new)
  BY <1>1, <1>3, FollowsStays
<1> QED  BY <1>1, <1>2, <1>4 DEF Stack, Chain

LEMMA ChainJoined ==
  ASSUME NEW made, NEW files, NEW a, Chain(a, made, files), NEW b, Chain(b, made, files),
         a # <<>> /\ b # <<>> => Follows(a[Len(a)], b[1], made)
  PROVE  Chain(a \o b, made, files)
<1> DEFINE w == a \o b
<1>1. Sequential(a) /\ Sequential(b)
  BY DEF Chain
<1>2. /\ Len(a) \in Nat /\ DOMAIN a = 1 .. Len(a) /\ (a = <<>> <=> Len(a) = 0)
      /\ Len(b) \in Nat /\ DOMAIN b = 1 .. Len(b) /\ (b = <<>> <=> Len(b) = 0)
  BY <1>1, Places
<1>3. /\ Sequential(w) /\ DOMAIN w = 1 .. Len(a) + Len(b)
      /\ \A i \in 1 .. Len(a) + Len(b) : w[i] = IF i <= Len(a) THEN a[i] ELSE b[i - Len(a)]
  BY <1>1, Pushed
<1> HIDE DEF w
<1>4. ASSUME NEW i \in DOMAIN w PROVE TaskOK(w[i], made, files)
  <2>1. CASE i <= Len(a)
    <3>1. i \in DOMAIN a /\ w[i] = a[i]
      BY <1>2, <1>3, <2>1
    <3> QED  BY <3>1 DEF Chain
  <2>2. CASE ~(i <= Len(a))
    <3>1. i - Len(a) \in DOMAIN b /\ w[i] = b[i - Len(a)]
      BY <1>2, <1>3, <2>2
    <3> QED  BY <3>1 DEF Chain
  <2> QED  BY <2>1, <2>2
<1>5. ASSUME NEW i \in DOMAIN w, i + 1 \in DOMAIN w PROVE Follows(w[i], w[i + 1], made)
  <2>1. CASE i + 1 <= Len(a)
    <3>1. i \in DOMAIN a /\ w[i] = a[i] /\ i + 1 \in DOMAIN a /\ w[i + 1] = a[i + 1]
      BY <1>2, <1>3, <1>5, <2>1
    <3> QED  BY <3>1 DEF Chain
  <2>2. CASE i = Len(a)
    <3>1. a # <<>> /\ b # <<>> /\ w[i] = a[Len(a)] /\ w[i + 1] = b[1]
      BY <1>2, <1>3, <1>5, <2>2
    <3> QED  BY <3>1
  <2>3. CASE i > Len(a)
    <3> DEFINE j == i - Len(a)
    <3>1. j \in DOMAIN b /\ j + 1 \in DOMAIN b /\ w[i] = b[j] /\ i + 1 - Len(a) = j + 1
      BY <1>2, <1>3, <1>5, <2>3
    <3>2. w[i + 1] = b[i + 1 - Len(a)]
      BY <1>2, <1>3, <1>5, <2>3
    <3> HIDE DEF j
    <3>3. Follows(b[j], b[j + 1], made)
      BY <3>1 DEF Chain
    <3> QED  BY <3>1, <3>2, <3>3
  <2> QED  BY <1>2, <1>3, <2>1, <2>2, <2>3
<1>6. Chain(w, made, files)
  BY <1>3, <1>4, <1>5 DEF Chain
<1> QED  BY <1>6 DEF w

LEMMA Joined ==
  ASSUME NEW made, NEW files, NEW a, Chain(a, made, files), NEW b, Stack(b, made, files),
         a # <<>> => IF b = <<>> THEN a[Len(a)].do # "loaded" ELSE Follows(a[Len(a)], b[1], made)
  PROVE  Stack(a \o b, made, files)
<1> DEFINE w == a \o b
<1>1. Chain(w, made, files)
  BY ChainJoined DEF Stack
<1>2. Sequential(a) /\ Sequential(b)
  BY DEF Stack, Chain
<1>3. /\ Len(a) \in Nat /\ DOMAIN a = 1 .. Len(a) /\ (a = <<>> <=> Len(a) = 0)
      /\ Len(b) \in Nat /\ DOMAIN b = 1 .. Len(b) /\ (b = <<>> <=> Len(b) = 0)
  BY <1>2, Places
<1>4. /\ DOMAIN w = 1 .. Len(a) + Len(b)
      /\ \A i \in 1 .. Len(a) + Len(b) : w[i] = IF i <= Len(a) THEN a[i] ELSE b[i - Len(a)]
  BY <1>2, Pushed
<1> HIDE DEF w
<1>5. ASSUME NEW i \in DOMAIN w, w[i].do = "loaded" PROVE i + 1 \in DOMAIN w
  <2>1. CASE i < Len(a)
    BY <1>3, <1>4, <2>1
  <2>2. CASE i = Len(a)
    <3>1. a # <<>> /\ w[i] = a[Len(a)]
      BY <1>3, <1>4, <2>2
    <3>2. b # <<>>
      BY <1>5, <3>1
    <3> QED  BY <1>3, <1>4, <2>2, <3>2
  <2>3. CASE i > Len(a)
    <3> DEFINE j == i - Len(a)
    <3>0. i \in 1 .. Len(a) + Len(b) /\ ~(i <= Len(a))
      BY <1>3, <1>4, <2>3
    <3>1. j \in 1 .. Len(b) /\ w[i] = b[j]
      <4>1. w[i] = b[i - Len(a)]
        BY <1>4, <3>0
      <4>2. i - Len(a) \in 1 .. Len(b)
        BY <1>3, <3>0
      <4> QED  BY <4>1, <4>2
    <3>2. i = Len(a) + j /\ j \in Int
      BY <1>3, <1>4
    <3> HIDE DEF j
    <3>3. b[j].do = "loaded" /\ j \in DOMAIN b
      BY <1>3, <1>5, <3>1
    <3>4. j + 1 \in DOMAIN b
      BY <3>3 DEF Stack
    <3>5. i + 1 = Len(a) + (j + 1) /\ j + 1 \in 1 .. Len(b)
      BY <1>3, <3>2, <3>4
    <3>6. i + 1 \in 1 .. Len(a) + Len(b)
      BY <1>3, <3>5
    <3> QED  BY <1>4, <3>6
  <2> QED  BY <1>3, <1>4, <2>1, <2>2, <2>3
<1>6. Stack(w, made, files)
  BY <1>1, <1>5 DEF Stack
<1> QED  BY <1>6 DEF w

LEMMA Rest ==
  ASSUME NEW made, NEW files, NEW w, Stack(w, made, files), w # <<>>
  PROVE  /\ TaskOK(Head(w), made, files) /\ Head(w) = w[1]
         /\ Stack(Tail(w), made, files)
         /\ Tail(w) # <<>> => Follows(Head(w), Tail(w)[1], made)
         /\ Head(w).do = "loaded" => Tail(w) # <<>> /\ w[2] = Tail(w)[1]
<1> DEFINE r == Tail(w)
<1>1. Sequential(w)
  BY DEF Stack, Chain
<1>2. /\ 1 \in DOMAIN w /\ Head(w) = w[1] /\ Sequential(r) /\ Len(r) = Len(w) - 1
      /\ DOMAIN r = 1 .. Len(w) - 1 /\ \A i \in 1 .. Len(w) - 1 : r[i] = w[i + 1]
  BY <1>1, Popped
<1>3. Len(w) \in Nat /\ DOMAIN w = 1 .. Len(w)
  BY <1>1, Places
<1>4. Len(r) \in Nat /\ (r = <<>> <=> Len(r) = 0)
  BY <1>2, Places
<1> HIDE DEF r
<1>5. \A i \in DOMAIN w : /\ TaskOK(w[i], made, files)
                          /\ i + 1 \in DOMAIN w => Follows(w[i], w[i + 1], made)
                          /\ w[i].do = "loaded" => i + 1 \in DOMAIN w
  BY DEF Stack, Chain
<1>6. ASSUME NEW i \in DOMAIN r
      PROVE  /\ TaskOK(r[i], made, files) /\ (i + 1 \in DOMAIN r => Follows(r[i], r[i + 1], made))
             /\ r[i].do = "loaded" => i + 1 \in DOMAIN r
  <2>1. i \in 1 .. Len(w) - 1 /\ i + 1 \in DOMAIN w /\ r[i] = w[i + 1]
    BY <1>2, <1>3
  <2>2. i + 1 \in DOMAIN r => r[i + 1] = w[i + 1 + 1] /\ i + 1 + 1 \in DOMAIN w
    BY <1>2, <1>3, <2>1
  <2>3. i + 1 + 1 \in DOMAIN w => i + 1 \in DOMAIN r
    BY <1>2, <1>3, <2>1
  <2> QED  BY <1>5, <2>1, <2>2, <2>3
<1>7. Stack(r, made, files)
  BY <1>2, <1>6 DEF Stack, Chain
<1>8. r # <<>> => 1 + 1 \in DOMAIN w /\ r[1] = w[1 + 1] /\ 1 + 1 = 2
  BY <1>2, <1>3, <1>4
<1>9. w[1].do = "loaded" => r # <<>>
  BY <1>2, <1>3, <1>4, <1>5
<1>10. r # <<>> => Follows(w[1], r[1], made) /\ r[1] = w[2]
  BY <1>2, <1>5, <1>8
<1> QED  BY <1>2, <1>5, <1>7, <1>9, <1>10 DEF r

\* The next task is replaced by others.
LEMMA Goes ==
  ASSUME NEW made, NEW files, NEW w, Stack(w, made, files), w # <<>>,
         NEW new, Grown(made, new), NEW more, Extended(files, more),
         NEW tasks, Chain(tasks, new, more), NEW here,
         tasks = <<>> => AtHead(Tail(w), here),
         tasks # <<>> => /\ tasks[1].here = here /\ tasks[Len(tasks)].do # "loaded"
                         /\ Tail(w) # <<>> => Follows(tasks[Len(tasks)], Tail(w)[1], new)
  PROVE  Stack(tasks \o Tail(w), new, more) /\ AtHead(tasks \o Tail(w), here)
<1> DEFINE r == Tail(w)
           v == tasks \o r
<1>1. Stack(r, new, more)
  BY Rest, StackStays
<1>2. Sequential(tasks) /\ Sequential(r)
  BY <1>1 DEF Stack, Chain
<1>3. Stack(v, new, more)
  BY <1>1, Joined
<1>4. /\ Len(tasks) \in Nat /\ (tasks = <<>> <=> Len(tasks) = 0)
      /\ Len(r) \in Nat /\ (r = <<>> <=> Len(r) = 0)
  BY <1>2, Places
<1>5. /\ Sequential(v) /\ Len(v) = Len(tasks) + Len(r)
      /\ \A i \in 1 .. Len(tasks) + Len(r) : v[i] = IF i <= Len(tasks) THEN tasks[i] ELSE r[i - Len(tasks)]
  BY <1>2, Pushed
<1>6. v = <<>> <=> Len(v) = 0
  BY <1>5, Places
<1> HIDE DEF v, r
<1>7. AtHead(v, here)
  <2>1. CASE tasks = <<>>
    <3>1. v # <<>> => r # <<>> /\ v[1] = r[1]
      BY <1>4, <1>5, <1>6, <2>1
    <3> QED  BY <2>1, <3>1 DEF AtHead, r
  <2>2. CASE tasks # <<>>
    <3>1. v[1] = tasks[1]
      BY <1>4, <1>5, <2>2
    <3> QED  BY <2>2, <3>1 DEF AtHead
  <2> QED  BY <2>1, <2>2
<1> QED  BY <1>3, <1>7 DEF v, r

\* Tasks that leave the walk where it is.
Kept(tasks, here, made, files) ==
  /\ Sequential(tasks)
  /\ \A i \in DOMAIN tasks : /\ TaskOK(tasks[i], made, files) /\ tasks[i].here = here
                             /\ tasks[i].do \notin {"loaded", "pop", "document"}

LEMMA KeptChain ==
  ASSUME NEW tasks, NEW here, NEW made, NEW files, Kept(tasks, here, made, files)
  PROVE  /\ Chain(tasks, made, files)
         /\ tasks # <<>> => /\ tasks[1].here = here /\ After(tasks[Len(tasks)], made) = here
                            /\ tasks[Len(tasks)].do \notin {"loaded", "pop", "document"}
<1>1. ASSUME NEW i \in DOMAIN tasks, i + 1 \in DOMAIN tasks PROVE Follows(tasks[i], tasks[i + 1], made)
  BY <1>1 DEF Kept, Follows, After
<1>2. Chain(tasks, made, files)
  BY <1>1 DEF Kept, Chain
<1>3. tasks # <<>> => 1 \in DOMAIN tasks /\ Len(tasks) \in DOMAIN tasks
  BY Places DEF Kept
<1> QED  BY <1>2, <1>3 DEF Kept, After

LEMMA KeptJoined ==
  ASSUME NEW here, NEW made, NEW files, NEW a, Kept(a, here, made, files), NEW b, Kept(b, here, made, files)
  PROVE  Kept(a \o b, here, made, files)
<1> DEFINE w == a \o b
<1>1. /\ Len(a) \in Nat /\ DOMAIN a = 1 .. Len(a) /\ Len(b) \in Nat /\ DOMAIN b = 1 .. Len(b)
  BY Places DEF Kept
<1>2. /\ Sequential(w) /\ DOMAIN w = 1 .. Len(a) + Len(b)
      /\ \A i \in 1 .. Len(a) + Len(b) : w[i] = IF i <= Len(a) THEN a[i] ELSE b[i - Len(a)]
  BY Pushed DEF Kept
<1> HIDE DEF w
<1>3. ASSUME NEW i \in DOMAIN w
      PROVE  (\E j \in DOMAIN a : w[i] = a[j]) \/ (\E j \in DOMAIN b : w[i] = b[j])
  <2>1. CASE i <= Len(a)
    <3>1. i \in DOMAIN a /\ w[i] = a[i]
      BY <1>1, <1>2, <2>1
    <3> QED  BY <3>1
  <2>2. CASE ~(i <= Len(a))
    <3>1. i - Len(a) \in DOMAIN b /\ w[i] = b[i - Len(a)]
      BY <1>1, <1>2, <2>2
    <3> QED  BY <3>1
  <2> QED  BY <2>1, <2>2
<1>4. Kept(w, here, made, files)
  BY <1>2, <1>3 DEF Kept
<1> QED  BY <1>4 DEF w

LEMMA KeptOne ==
  ASSUME NEW here, NEW made, NEW files, NEW t, TaskOK(t, made, files), t.here = here,
         t.do \notin {"loaded", "pop", "document"}
  PROVE  Kept(<<t>>, here, made, files)
<1> DEFINE w == <<t>>
<1>1. Sequential(w) /\ DOMAIN w = {1} /\ w[1] = t
  BY Single
<1> HIDE DEF w
<1>2. Kept(w, here, made, files)
  BY <1>1 DEF Kept
<1> QED  BY <1>2 DEF w

LEMMA KeptNone ==
  ASSUME NEW here, NEW made, NEW files
  PROVE  Kept(<<>>, here, made, files)
<1>1. Sequential(<<>>) /\ DOMAIN <<>> = {}
  BY EmptySeq DEF Sequential
<1> QED  BY <1>1 DEF Kept

\* The visit of some nodes.
LEMMA Visits ==
  ASSUME NEW made, NEW files, NEW source \in DOMAIN files, NEW kids, kids \in Seq(Parts[files[source]]),
         NEW here, Position(here), here.current \in DOMAIN made, made[here.current].of = source
  PROVE  Kept(VisitFrom(kids, here, source), here, made, files)
<1> DEFINE w == VisitFrom(kids, here, source)
           R == {[do |-> "visit", node |-> kids[i], here |-> here, source |-> source] : i \in DOMAIN kids}
<1>1. Len(kids) \in Nat /\ DOMAIN kids = 1 .. Len(kids) /\ \A i \in DOMAIN kids : kids[i] \in Parts[files[source]]
  BY LenProperties, ElementOfSeq
<1>2. w \in [1 .. Len(kids) -> R]
  BY <1>1 DEF VisitFrom
<1>3. Sequential(w)
  <2> HIDE DEF w, R
  <2> QED  BY <1>1, <1>2, SeqDef DEF Sequential
<1>4. ASSUME NEW i \in DOMAIN w PROVE TaskOK(w[i], made, files) /\ w[i].here = here /\ w[i].do = "visit"
  <2> DEFINE t == w[i]
  <2>1. i \in DOMAIN kids /\ t = [do |-> "visit", node |-> kids[i], here |-> here, source |-> source]
    BY DEF VisitFrom
  <2> HIDE DEF t
  <2>2. t.do = "visit" /\ t.node = kids[i] /\ t.here = here /\ t.source = source
    BY <2>1
  <2>3. TaskOK(t, made, files)
    BY <1>1, <2>1, <2>2 DEF TaskOK, Walking, Listing
  <2> QED  BY <2>2, <2>3 DEF t
<1> HIDE DEF w
<1>5. Kept(w, here, made, files)
  BY <1>3, <1>4 DEF Kept
<1> QED  BY <1>5 DEF w

\* The next task is replaced by others for the same place.
LEMMA Replaced ==
  ASSUME NEW made, NEW files, NEW w, Stack(w, made, files), w # <<>>,
         Head(w).do \notin {"loaded", "pop", "document"}, NEW here, AtHead(w, here),
         NEW new, Grown(made, new), NEW more, Extended(files, more),
         NEW tasks, Kept(tasks, here, new, more)
  PROVE  Stack(tasks \o Tail(w), new, more) /\ AtHead(tasks \o Tail(w), here)
<1>1. /\ TaskOK(Head(w), made, files) /\ Head(w) = w[1]
      /\ Tail(w) # <<>> => Follows(Head(w), Tail(w)[1], made)
  BY Rest
<1>2. Head(w).here = here
  BY <1>1 DEF AtHead
<1>3. Tail(w) # <<>> /\ Tail(w)[1].do # "document" => Tail(w)[1].here = here
  BY <1>1, <1>2 DEF Follows, After
<1>4. AtHead(Tail(w), here)
  BY <1>3 DEF AtHead
<1>5. /\ Chain(tasks, new, more)
      /\ tasks # <<>> => /\ tasks[1].here = here /\ After(tasks[Len(tasks)], new) = here
                         /\ tasks[Len(tasks)].do \notin {"loaded", "pop", "document"}
  BY KeptChain
<1>6. tasks # <<>> /\ Tail(w) # <<>> => Follows(tasks[Len(tasks)], Tail(w)[1], new)
  BY <1>3, <1>5 DEF Follows
<1> QED  BY <1>4, <1>5, <1>6, Goes

\* The children of a node are walked in a new scope within this one.
LEMMA Enclosed ==
  ASSUME NEW made, NEW files, Sequential(files), NEW w, Stack(w, made, files), w # <<>>,
         Head(w).do \notin {"loaded", "pop", "document"}, NEW here, AtHead(w, here),
         Position(here),
         NEW new, Grown(made, new), NEW s \in DOMAIN new,
         new[s].parent = here.current, here.current # NoParent, new[s].of = Head(w).source,
         NEW kids, kids \in Seq(Parts[files[Head(w).source]]),
         NEW inside, inside = [current |-> s, base |-> here.base],
         NEW after, after = VisitFrom(kids, inside, Head(w).source)
                            \o <<[do |-> "pop", here |-> inside, source |-> Head(w).source]>> \o Tail(w)
  PROVE  Stack(after, new, files) /\ AtHead(after, inside)
<1> DEFINE source == Head(w).source
           visits == VisitFrom(kids, inside, source)
           pop == [do |-> "pop", here |-> inside, source |-> source]
           tasks == visits \o <<pop>>
<1>1. /\ TaskOK(Head(w), made, files) /\ Head(w) = w[1]
      /\ Tail(w) # <<>> => Follows(Head(w), Tail(w)[1], made)
  BY Rest
<1>2. source \in DOMAIN files /\ Extended(files, files)
  BY <1>1, Places DEF TaskOK, Extended
<1>3. Head(w).here = here
  BY <1>1 DEF AtHead
<1>4. inside.current = s /\ inside.base = here.base /\ Position(inside)
  BY DEF Position
<1>5. Kept(visits, inside, new, files)
  BY <1>1, <1>4, Visits DEF TaskOK
<1>6. pop.do = "pop" /\ pop.here = inside /\ pop.source = source
  OBVIOUS
<1> HIDE DEF pop
<1>7. TaskOK(pop, new, files)
  BY <1>1, <1>4, <1>6 DEF TaskOK, Walking, Listing, Others
<1>8. After(pop, new) = here
  BY <1>4, <1>6 DEF After, Position
<1>9. /\ Chain(visits, new, files)
      /\ visits # <<>> => /\ visits[1].here = inside /\ After(visits[Len(visits)], new) = inside
                          /\ visits[Len(visits)].do \notin {"loaded", "pop", "document"}
  BY <1>5, KeptChain
<1>10. Sequential(<<pop>>) /\ Len(<<pop>>) = 1 /\ DOMAIN <<pop>> = {1} /\ <<pop>>[1] = pop /\ <<pop>> # <<>>
  BY Single
<1>11. Chain(<<pop>>, new, files)
  <2> DEFINE one == <<pop>>
  <2>1. Sequential(one) /\ DOMAIN one = {1} /\ one[1] = pop
    BY <1>10
  <2> HIDE DEF one
  <2>2. Chain(one, new, files)
    BY <1>7, <2>1 DEF Chain
  <2> QED  BY <2>2 DEF one
<1> HIDE DEF visits
<1>12. visits # <<>> => Follows(visits[Len(visits)], pop, new)
  BY <1>6, <1>9 DEF Follows
<1>13. Chain(tasks, new, files)
  BY <1>9, <1>10, <1>11, <1>12, ChainJoined
<1>14. /\ Len(visits) \in Nat /\ (visits = <<>> <=> Len(visits) = 0) /\ Sequential(visits)
  BY <1>9, Places DEF Chain
<1>15. /\ Len(tasks) = Len(visits) + 1
       /\ \A i \in 1 .. Len(visits) + 1 : tasks[i] = IF i <= Len(visits) THEN visits[i] ELSE <<pop>>[i - Len(visits)]
  BY <1>10, <1>14, Pushed
<1>16. tasks[Len(tasks)] = pop
  BY <1>10, <1>14, <1>15
<1>17. tasks[1].here = inside
  BY <1>6, <1>9, <1>10, <1>14, <1>15
<1>18. tasks # <<>>
  <2>1. Sequential(tasks)
    BY <1>13 DEF Chain
  <2> HIDE DEF tasks
  <2> QED  BY <1>14, <1>15, <2>1, Places
<1> HIDE DEF tasks
<1>19. Tail(w) # <<>> => Follows(pop, Tail(w)[1], new)
  BY <1>1, <1>3, <1>6, <1>8 DEF Follows, After
<1>20. Stack(tasks \o Tail(w), new, files) /\ AtHead(tasks \o Tail(w), inside)
  BY <1>1, <1>2, <1>6, <1>13, <1>16, <1>17, <1>18, <1>19, Goes DEF TaskOK
<1> QED  BY <1>20 DEF tasks, visits, pop

-----------------------------------------------------------------------------
(* What is kept throughout *)

Listed(files) == Sequential(files) /\ \A i \in DOMAIN files : files[i] \in OnDisk

Marked(marks, ids, files) ==
  \A p \in DOMAIN marks :
    /\ p[1] \in DOMAIN files /\ marks[p] \in 0 .. Len(ids) - 1
    /\ ids[marks[p] + 1].name = Spelled[files[p[1]]][p[2]]

Tables(made, ids, marks, files) ==
  Scoped(made, ids, Len(made)) /\ Sequential(ids) /\ Listed(files) /\ Marked(marks, ids, files)

Consistent ==
  /\ Tables(scopes, origin, defIds, sources)
  /\ Stack(work, scopes, sources)
  /\ AtHead(work, Here)

LEMMA Kids ==
  ASSUME NEW f \in OnDisk, NEW e \in Parts[f], IsNode(e)
  PROVE  e.kids \in Seq(Parts[f])
  BY FilesAssumption DEF OnDisk, IsNode

\* The lexer gives no position twice.
LEMMA SpelledRight ==
  ASSUME NEW f \in OnDisk, NEW token \in Parts[f], token.kind = "token"
  PROVE  Spelled[f][token.at] = token.name
<1> DEFINE S == {e \in Tokens(f) : e.at = token.at}
           c == CHOOSE e \in Tokens(f) : e.at = token.at
<1>1. token \in Tokens(f)
  BY DEF Tokens
<1>2. c \in Tokens(f) /\ c.at = token.at
  BY <1>1
<1> HIDE DEF c
<1>3. c \in Parts[f] /\ c.kind = "token"
  BY <1>2 DEF Tokens
<1>4. c = token
  BY <1>2, <1>3, FilesAssumption DEF OnDisk
<1>5. token.at \in {e.at : e \in Tokens(f)}
  BY <1>1
<1>6. Spelled[f][token.at] = c.name
  BY <1>5 DEF Spelled, c
<1> QED  BY <1>4, <1>6

LEMMA Recorded ==
  ASSUME NEW marks, NEW ids, NEW files, Marked(marks, ids, files),
         NEW source \in DOMAIN files, files[source] \in OnDisk,
         NEW token \in Parts[files[source]], token.kind = "token",
         NEW id \in 0 .. Len(ids) - 1, ids[id + 1].name = token.name
  PROVE  Marked(With(marks, <<source, token.at>>, id), ids, files)
<1> DEFINE place == <<source, token.at>>
           new == With(marks, place, id)
           at == token.at
<1>1. place[1] = source /\ place[2] = at
  <2> HIDE DEF at
  <2>1. <<source, at>>[1] = source /\ <<source, at>>[2] = at
    OBVIOUS
  <2> QED  BY <2>1 DEF at
<1>2. Spelled[files[source]][at] = token.name
  BY SpelledRight
<1> HIDE DEF place, at
<1>3. DOMAIN new = {place} \cup DOMAIN marks /\ \A x \in {place} \cup DOMAIN marks : new[x] = IF x = place THEN id ELSE marks[x]
  BY DEF With
<1> HIDE DEF new
<1>4. ASSUME NEW p \in DOMAIN new
      PROVE  /\ p[1] \in DOMAIN files /\ new[p] \in 0 .. Len(ids) - 1
             /\ ids[new[p] + 1].name = Spelled[files[p[1]]][p[2]]
  <2>1. CASE p = place
    <3>1. new[p] = id /\ p[1] = source /\ p[2] = at
      BY <1>1, <1>3, <2>1
    <3> QED  BY <1>2, <3>1
  <2>2. CASE p # place
    <3>1. p \in DOMAIN marks /\ new[p] = marks[p]
      BY <1>3, <2>2
    <3> QED  BY <3>1 DEF Marked
  <2> QED  BY <2>1, <2>2
<1>5. Marked(new, ids, files)
  BY <1>4 DEF Marked
<1> QED  BY <1>5 DEF new, place

LEMMA MarksStay ==
  ASSUME NEW marks, NEW ids, Sequential(ids), NEW files, Marked(marks, ids, files),
         NEW entry, NEW more, Extended(files, more)
  PROVE  Marked(marks, ids, more) /\ Marked(marks, Append(ids, entry), more)
<1> DEFINE new == Append(ids, entry)
<1>1. /\ Len(ids) \in Nat /\ Len(new) = Len(ids) + 1 /\ \A i \in 1 .. Len(ids) : new[i] = ids[i]
  BY Appended, Places
<1> HIDE DEF new
<1>2. DOMAIN files \subseteq DOMAIN more /\ \A i \in DOMAIN files : more[i] = files[i]
  BY Places DEF Extended
<1>3. ASSUME NEW p \in DOMAIN marks
      PROVE  /\ p[1] \in DOMAIN more /\ marks[p] \in 0 .. Len(ids) - 1 /\ marks[p] \in 0 .. Len(new) - 1
             /\ ids[marks[p] + 1].name = Spelled[more[p[1]]][p[2]]
             /\ new[marks[p] + 1].name = Spelled[more[p[1]]][p[2]]
  <2> DEFINE k == p[1]
             m == marks[p]
             word == Spelled[files[k]][p[2]]
  <2>1. k \in DOMAIN files /\ m \in 0 .. Len(ids) - 1 /\ ids[m + 1].name = word
    BY DEF Marked
  <2>2. more[k] = files[k]
    BY <1>2, <2>1
  <2>3. Spelled[more[k]][p[2]] = word
    BY <2>2
  <2> HIDE DEF k, m, word
  <2>4. k \in DOMAIN more /\ m \in 0 .. Len(new) - 1 /\ m + 1 \in 1 .. Len(ids)
    BY <1>1, <1>2, <2>1
  <2>5. new[m + 1] = ids[m + 1]
    BY <1>1, <2>4
  <2> QED  BY <2>1, <2>3, <2>4, <2>5 DEF k, m, word
<1>4. Marked(marks, ids, more)
  BY <1>3 DEF Marked
<1>5. Marked(marks, new, more)
  BY <1>3 DEF Marked
<1> QED  BY <1>4, <1>5 DEF new

\* The task at hand.
LEMMA AtWork ==
  ASSUME Consistent, work # <<>>
  PROVE  /\ TaskOK(Head(work), scopes, sources)
         /\ Source = Head(work).source /\ Source \in DOMAIN sources /\ sources[Source] \in OnDisk
         /\ Sequential(sources) /\ Extended(sources, sources) /\ Grown(scopes, scopes) /\ Sequential(origin)
         /\ Head(work).do # "document" =>
              /\ Head(work).here = Here /\ Position(Here)
              /\ current \in DOMAIN scopes /\ scopes[current].of = Source
<1>1. TaskOK(Head(work), scopes, sources) /\ Head(work) = work[1]
  BY Rest DEF Consistent
<1>2. Sequential(scopes) /\ Sequential(sources) /\ Sequential(origin) /\ \A i \in DOMAIN sources : sources[i] \in OnDisk
  BY DEF Consistent, Tables, Listed, Scoped
<1>3. Grown(scopes, scopes) /\ Extended(sources, sources)
  BY <1>2, NothingGrown, Places DEF Extended
<1>4. Head(work).do # "document" => Head(work).here = Here
  BY <1>1 DEF Consistent, AtHead
<1>5. Here.current = current /\ Position(Here)
  BY DEF Here, Position
<1> HIDE DEF Here
<1>6. Source = Head(work).source /\ Source \in DOMAIN sources
  BY <1>1 DEF Source, TaskOK
<1>7. Head(work).do # "document" => current \in DOMAIN scopes /\ scopes[current].of = Source
  BY <1>1, <1>4, <1>5, <1>6 DEF TaskOK
<1> QED  BY <1>1, <1>2, <1>3, <1>4, <1>5, <1>6, <1>7

\* A step that stays where it is.
LEMMA Walks ==
  ASSUME Consistent, work # <<>>, Head(work).do \notin {"loaded", "pop", "document"},
         UNCHANGED <<current, base, sources>>,
         Tables(scopes', origin', defIds', sources), Grown(scopes, scopes'),
         NEW tasks, Kept(tasks, Here, scopes', sources), work' = tasks \o Tail(work)
  PROVE  Consistent'
<1>1. Extended(sources, sources)
  BY AtWork
<1>2. Stack(work, scopes, sources) /\ AtHead(work, Here)
  BY DEF Consistent
<1>3. Stack(tasks \o Tail(work), scopes', sources) /\ AtHead(tasks \o Tail(work), Here)
  BY <1>1, <1>2, Replaced
<1>4. Here' = Here /\ sources' = sources
  BY DEF Here
<1> QED  BY <1>3, <1>4 DEF Consistent

\* A step that writes nothing down.
LEMMA NothingWritten ==
  ASSUME Consistent, UNCHANGED <<scopes, origin, defIds>>
  PROVE  Tables(scopes', origin', defIds', sources) /\ Grown(scopes, scopes')
<1>1. Tables(scopes, origin, defIds, sources)
  BY DEF Consistent
<1>2. Grown(scopes, scopes)
  BY <1>1, NothingGrown DEF Tables, Scoped
<1> QED  BY <1>1, <1>2

\* A use of what was found under its name.
LEMMA Uses ==
  ASSUME Consistent, work # <<>>, NEW token \in Parts[sources[Source]], token.kind = "token",
         NEW symbol, Finds(symbol, token.name, origin, Len(scopes)), Found(symbol),
         Record(token, symbol.id), UNCHANGED <<scopes, origin>>
  PROVE  Tables(scopes', origin', defIds', sources) /\ Grown(scopes, scopes')
<1>1. symbol.id \in 0 .. Len(origin) - 1 /\ origin[symbol.id + 1].name = token.name
  BY DEF Finds, Found, Unknown, Symbol
<1>2. Tables(scopes, origin, defIds, sources)
  BY DEF Consistent
<1>3. Source \in DOMAIN sources /\ sources[Source] \in OnDisk /\ Grown(scopes, scopes)
  BY AtWork
<1>4. Marked(With(defIds, <<Source, token.at>>, symbol.id), origin, sources)
  BY <1>1, <1>2, <1>3, Recorded DEF Tables
<1> QED  BY <1>2, <1>3, <1>4 DEF Tables, Record, Place

\* The next id marks the token it is given for.
LEMMA NewMark ==
  ASSUME Consistent, work # <<>>, NEW token \in Parts[sources[Source]], token.kind = "token",
         NewId(token), Record(token, NextId)
  PROVE  /\ Sequential(origin') /\ Marked(defIds', origin', sources)
<1> DEFINE entry == [file |-> sources[Source], at |-> token.at, name |-> token.name]
           id == Len(origin)
<1>1. origin' = Append(origin, entry) /\ defIds' = With(defIds, <<Source, token.at>>, id)
  BY DEF NewId, Record, NextId, Place
<1>2. entry.name = token.name
  OBVIOUS
<1> HIDE DEF entry
<1>3. Sequential(origin) /\ Source \in DOMAIN sources /\ sources[Source] \in OnDisk /\ Extended(sources, sources)
  BY AtWork
<1>4. /\ Sequential(origin') /\ Len(origin') = Len(origin) + 1 /\ origin'[Len(origin) + 1] = entry
  BY <1>1, <1>3, Appended
<1>5. Len(origin) \in Nat
  BY <1>3, Places
<1>6. Marked(defIds, origin', sources)
  BY <1>1, <1>3, MarksStay DEF Consistent, Tables
<1>7. id \in 0 .. Len(origin') - 1 /\ origin'[id + 1].name = token.name
  BY <1>2, <1>4, <1>5
<1> HIDE DEF id
<1>8. Marked(With(defIds, <<Source, token.at>>, id), origin', sources)
  BY <1>3, <1>6, <1>7, Recorded
<1> QED  BY <1>1, <1>4, <1>8

\* A declaration in the scope the walk is in.
LEMMA Defines ==
  ASSUME Consistent, work # <<>>, Head(work).do # "document",
         NEW token \in Parts[sources[Source]], token.kind = "token", Define(token)
  PROVE  Tables(scopes', origin', defIds', sources) /\ Grown(scopes, scopes')
<1> DEFINE entry == [file |-> sources[Source], at |-> token.at, name |-> token.name]
<1>1. /\ NewId(token) /\ Record(token, NextId)
      /\ scopes' = [scopes EXCEPT ![current].symbols = With(@, token.name, Symbol(Len(origin), 0))]
      /\ origin' = Append(origin, entry)
  BY DEF Define, NewId, NextId, NoScope
<1>2. Sequential(origin') /\ Marked(defIds', origin', sources)
  BY <1>1, NewMark
<1>3. Scoped(scopes, origin, Len(scopes)) /\ Listed(sources) /\ Sequential(origin) /\ Sequential(scopes)
  BY DEF Consistent, Tables, Scoped
<1>4. entry.name = token.name
  OBVIOUS
<1> HIDE DEF entry
<1>5. current \in DOMAIN scopes
  BY AtWork
<1>6. Len(scopes) \in Nat
  BY <1>3, Places
<1>7. 0 \in 0 .. Len(scopes) /\ Len(scopes) <= Len(scopes)
  BY <1>6
<1> DEFINE n == Len(scopes)
<1>8. Scoped(scopes', origin', n) /\ Grown(scopes, scopes') /\ Len(scopes') = Len(scopes)
  <2>1. n \in Nat /\ 0 \in 0 .. n /\ n <= n /\ Scoped(scopes, origin, n)
    BY <1>3, <1>6, <1>7
  <2>2. Rewrites(scopes, current, With(scopes[current].symbols, token.name, Symbol(Len(origin), 0)), scopes')
    BY <1>1 DEF Rewrites
  <2> HIDE DEF n
  <2> QED  BY <1>1, <1>3, <1>4, <1>5, <2>1, <2>2, Declares
<1> QED  BY <1>2, <1>3, <1>8 DEF Tables

\* A declaration in the scope the walk is in, and a scope within it.
LEMMA DefinesAndOpens ==
  ASSUME Consistent, work # <<>>, Head(work).do # "document",
         NEW token \in Parts[sources[Source]], token.kind = "token", NEW m \in 0 .. Len(scopes) + 1,
         NewId(token), Record(token, NextId),
         scopes' = Append([scopes EXCEPT ![current].symbols = With(@, token.name, Symbol(NextId, m))],
                          EmptyScope(current, Source))
  PROVE  /\ Tables(scopes', origin', defIds', sources) /\ Grown(scopes, scopes')
         /\ Len(scopes) + 1 \in DOMAIN scopes' /\ scopes'[Len(scopes) + 1].parent = current
         /\ scopes'[Len(scopes) + 1].of = Source
<1> DEFINE entry == [file |-> sources[Source], at |-> token.at, name |-> token.name]
           mid == [scopes EXCEPT ![current].symbols = With(@, token.name, Symbol(Len(origin), m))]
           n == Len(scopes)
           up == Len(scopes) + 1
<1>1. origin' = Append(origin, entry) /\ scopes' = Append(mid, EmptyScope(current, Source))
  BY DEF NewId, NextId
<1>2. Sequential(origin') /\ Marked(defIds', origin', sources)
  BY NewMark
<1>3. Scoped(scopes, origin, n) /\ Listed(sources) /\ Sequential(origin) /\ Sequential(scopes)
  BY DEF Consistent, Tables, Scoped
<1>4. entry.name = token.name
  OBVIOUS
<1> HIDE DEF entry
<1>5. current \in DOMAIN scopes /\ scopes[current].of = Source
  BY AtWork
<1>6. n \in Nat /\ DOMAIN scopes = 1 .. n
  BY <1>3, Places
<1>7. up \in Nat /\ n <= up /\ up <= up /\ m \in 0 .. up
  BY <1>6
<1>8. Rewrites(scopes, current, With(scopes[current].symbols, token.name, Symbol(Len(origin), m)), mid)
  BY DEF Rewrites
<1> HIDE DEF mid
<1>9. Scoped(mid, origin', up) /\ Grown(scopes, mid) /\ Len(mid) = n
  <2> HIDE DEF n, up
  <2>1. Scoped(mid, Append(origin, entry), up) /\ Grown(scopes, mid) /\ Len(mid) = Len(scopes)
    BY <1>3, <1>4, <1>5, <1>6, <1>7, <1>8, Declares
  <2> QED  BY <1>1, <2>1 DEF n
<1>10. current \in DOMAIN mid /\ mid[current].of = Source
  BY <1>5, <1>9, StillThere DEF Grown
<1>11. /\ Scoped(scopes', origin', up) /\ Grown(mid, scopes') /\ Len(scopes') = Len(mid) + 1
       /\ Youngest(scopes', current, Source)
  <2>1. OneMore(mid, current, Source, scopes')
    BY <1>1 DEF OneMore
  <2> HIDE DEF n, up
  <2>2. Scoped(mid, origin', up)
    BY <1>9
  <2>3. Scoped(scopes', origin', up)
    BY <1>10, <2>1, <2>2, Opens
  <2>4. Grown(mid, scopes') /\ Youngest(scopes', current, Source)
    BY <1>10, <2>1, <2>2, Opens
  <2>5. Len(scopes') = Len(mid) + 1
    <3>1. Sequential(mid)
      BY <2>2 DEF Scoped
    <3> QED  BY <2>1, <3>1, Appended DEF OneMore
  <2> QED  BY <2>3, <2>4, <2>5
<1>12. Grown(scopes, scopes')
  BY <1>9, <1>11, GrowsOn
<1>13. Len(scopes') = up
  BY <1>9, <1>11
<1> QED  BY <1>2, <1>3, <1>11, <1>12, <1>13 DEF Tables, Youngest

\* A scope within the one the walk is in.
LEMMA OnlyOpens ==
  ASSUME Consistent, work # <<>>, Head(work).do # "document", UNCHANGED <<origin, defIds>>,
         scopes' = Append(scopes, EmptyScope(current, Source))
  PROVE  /\ Tables(scopes', origin', defIds', sources) /\ Grown(scopes, scopes')
         /\ Len(scopes) + 1 \in DOMAIN scopes' /\ scopes'[Len(scopes) + 1].parent = current
         /\ scopes'[Len(scopes) + 1].of = Source
<1> DEFINE n == Len(scopes)
           up == Len(scopes) + 1
<1>1. Scoped(scopes, origin, n) /\ Tables(scopes, origin, defIds, sources) /\ Sequential(scopes)
  BY DEF Consistent, Tables, Scoped
<1>2. n \in Nat /\ DOMAIN scopes = 1 .. n
  BY <1>1, Places
<1>3. current \in DOMAIN scopes /\ scopes[current].of = Source
  BY AtWork
<1>4. up \in Nat /\ n <= up
  BY <1>2, <1>3
<1>6. Scoped(scopes, origin, up)
  <2> HIDE DEF n, up
  <2> QED  BY <1>1, <1>2, <1>4, ScopedMore
<1>5. /\ Scoped(scopes', origin, up) /\ Grown(scopes, scopes') /\ Len(scopes') = Len(scopes) + 1
      /\ Youngest(scopes', current, Source)
  <2>1. OneMore(scopes, current, Source, scopes')
    BY DEF OneMore
  <2> HIDE DEF n, up
  <2> QED  BY <1>3, <1>6, <2>1, Opens
<1> QED  BY <1>1, <1>5 DEF Tables, Youngest

\* A node whose children are walked in a new scope.
LEMMA Encloses ==
  ASSUME Consistent, Task("visit"), IsNode(Node), Enclose, UNCHANGED <<base, sources>>,
         Tables(scopes', origin', defIds', sources), Grown(scopes, scopes'),
         Len(scopes) + 1 \in DOMAIN scopes', scopes'[Len(scopes) + 1].parent = current,
         scopes'[Len(scopes) + 1].of = Source
  PROVE  Consistent'
<1> DEFINE s == Len(scopes) + 1
           inside == [current |-> s, base |-> base]
<1>1. work # <<>> /\ Head(work).do = "visit"
  BY DEF Task
<1>2. /\ TaskOK(Head(work), scopes, sources)
      /\ Source = Head(work).source /\ Source \in DOMAIN sources /\ sources[Source] \in OnDisk
      /\ Sequential(sources) /\ Position(Here) /\ current \in DOMAIN scopes
  BY <1>1, AtWork
<1>3. Here.current = current /\ Here.base = base /\ current # NoParent
  <2>1. Sequential(scopes)
    BY DEF Consistent, Tables, Scoped
  <2> QED  BY <1>2, <2>1, Places DEF Here, NoParent
<1>4. Node.kids \in Seq(Parts[sources[Source]])
  BY <1>1, <1>2, Kids DEF TaskOK, Node, Walking
<1>5. /\ current' = s
      /\ work' = VisitFrom(Node.kids, inside, Source)
                 \o <<[do |-> "pop", here |-> inside, source |-> Source]>> \o Tail(work)
  BY DEF Enclose, Then, Node
<1>6. Here' = inside
  BY <1>5 DEF Here
<1>7. inside = [current |-> s, base |-> Here.base]
  BY <1>3
<1>8. Stack(work, scopes, sources) /\ AtHead(work, Here)
  BY DEF Consistent
<1> HIDE DEF s, inside
<1>9. Stack(work', scopes', sources) /\ AtHead(work', inside)
  <2>1. Head(work).do \notin {"loaded", "pop", "document"}
    BY <1>1
  <2>2. s \in DOMAIN scopes' /\ scopes'[s].parent = Here.current /\ Here.current # NoParent /\ scopes'[s].of = Head(work).source
    BY <1>2, <1>3 DEF s
  <2>3. Node.kids \in Seq(Parts[sources[Head(work).source]])
    BY <1>2, <1>4
  <2>4. work' = VisitFrom(Node.kids, inside, Head(work).source)
                \o <<[do |-> "pop", here |-> inside, source |-> Head(work).source]>> \o Tail(work)
    BY <1>2, <1>5
  <2> DEFINE kids == Node.kids
  <2> HIDE DEF kids
  <2> QED  BY <1>1, <1>2, <1>7, <1>8, <2>1, <2>2, <2>3, <2>4, Enclosed
<1> QED  BY <1>6, <1>9 DEF Consistent

\* The names looked for are tokens of the file.
LEMMA TokensNamed ==
  ASSUME NEW f \in OnDisk, NEW kids, kids \in Seq(Parts[f]), NEW places, places \subseteq Idents(kids), places # {}
  PROVE  FirstIn(kids, places) \in Parts[f] /\ IsIdent(FirstIn(kids, places)) /\ FirstIn(kids, places).kind = "token"
<1>1. Sequential(kids) /\ places \subseteq DOMAIN kids
  BY DEF Sequential, Idents
<1>2. PICK i \in places : FirstIn(kids, places) = kids[i]
  BY <1>1, FirstIsOne
<1>3. i \in DOMAIN kids /\ IsIdent(kids[i])
  BY <1>2 DEF Idents
<1>4. kids[i] \in Parts[f]
  BY <1>3, LenProperties, ElementOfSeq
<1> QED  BY <1>2, <1>3, <1>4 DEF IsIdent, IsToken

\* The facts about a node that is visited.
LEMMA Visited ==
  ASSUME Consistent, Task("visit") \/ Task("member")
  PROVE  /\ work # <<>> /\ Head(work).do \notin {"loaded", "pop", "document"}
         /\ Node \in Parts[sources[Source]] /\ sources[Source] \in OnDisk
         /\ IsNode(Node) => Node.kids \in Seq(Parts[sources[Source]])
<1>1. work # <<>> /\ Head(work).do \in {"visit", "member"}
  BY DEF Task
<1>2. TaskOK(Head(work), scopes, sources) /\ Source = Head(work).source /\ sources[Source] \in OnDisk
  BY <1>1, AtWork
<1>3. Node \in Parts[sources[Source]]
  BY <1>1, <1>2 DEF TaskOK, Walking, Node
<1> QED  BY <1>1, <1>2, <1>3, Kids

\* The visit of some nodes of the file, from here.
LEMMA VisitsHere ==
  ASSUME Consistent, work # <<>>, Head(work).do # "document", Grown(scopes, scopes'),
         NEW kids, kids \in Seq(Parts[sources[Source]])
  PROVE  Kept(VisitAll(kids), Here, scopes', sources)
<1>1. /\ Source \in DOMAIN sources /\ Position(Here) /\ current \in DOMAIN scopes /\ scopes[current].of = Source
  BY AtWork
<1>2. current \in DOMAIN scopes' /\ scopes'[current].of = Source
  BY <1>1, StillThere DEF Grown
<1>3. Here.current = current
  BY DEF Here
<1> HIDE DEF Here
<1>4. Kept(VisitFrom(kids, Here, Source), Here, scopes', sources)
  BY <1>1, <1>2, <1>3, Visits
<1> QED  BY <1>4 DEF VisitAll

\* The rest of a declaration, or a declaration begun.
LEMMA ListsOn ==
  ASSUME Consistent, work # <<>>, Head(work).do # "document", Grown(scopes, scopes'),
         NEW t, DOMAIN t = ListFields, t.do \in Listing, t.kids \in Seq(Parts[sources[Source]]),
         t.here = Here, t.source = Source
  PROVE  Kept(<<t>>, Here, scopes', sources)
<1>1. /\ Source \in DOMAIN sources /\ Position(Here) /\ current \in DOMAIN scopes /\ scopes[current].of = Source
  BY AtWork
<1>2. current \in DOMAIN scopes' /\ scopes'[current].of = Source
  BY <1>1, StillThere DEF Grown
<1>3. Here.current = current
  BY DEF Here
<1> HIDE DEF Here
<1>4. TaskOK(t, scopes', sources)
  BY <1>1, <1>2, <1>3 DEF TaskOK, Listing, Walking, Others
<1>5. t.do \notin {"loaded", "pop", "document"}
  BY DEF Listing
<1> QED  BY <1>4, <1>5, KeptOne

-----------------------------------------------------------------------------
(* Each step keeps it *)

LEMMA KeepsUseIdent == ASSUME Consistent, UseIdent PROVE Consistent'
<1>1. Task("visit") /\ Node.kind = "token"
  BY DEF UseIdent, At
<1>2. /\ work # <<>> /\ Head(work).do \notin {"loaded", "pop", "document"}
      /\ Node \in Parts[sources[Source]] /\ sources[Source] \in OnDisk
  BY <1>1, Visited
<1>3. UNCHANGED <<scopes, current, base, origin, sources>> /\ work' = <<>> \o Tail(work)
  BY DEF UseIdent, Then
<1> DEFINE symbol == resolve(current, Node.name)
<1>4. Finds(symbol, Node.name, origin, Len(scopes))
  <2>1. current \in DOMAIN scopes /\ Scoped(scopes, origin, Len(scopes))
    BY <1>2, AtWork DEF Consistent, Tables
  <2> QED  BY <2>1, ResolveFinds
<1>5. (Found(symbol) /\ Record(Node, symbol.id)) \/ UNCHANGED defIds
  BY DEF UseIdent
<1> HIDE DEF symbol
<1>6. Tables(scopes', origin', defIds', sources) /\ Grown(scopes, scopes')
  <2>1. CASE Found(symbol) /\ Record(Node, symbol.id)
    BY <1>1, <1>2, <1>3, <1>4, <2>1, Uses
  <2>2. CASE UNCHANGED defIds
    BY <1>3, <2>2, NothingWritten
  <2> QED  BY <1>5, <2>1, <2>2
<1> QED  BY <1>2, <1>3, <1>6, KeptNone, Walks

LEMMA KeepsChildren == ASSUME Consistent, resolve_children PROVE Consistent'
<1>1. Task("visit") /\ IsNode(Node)
  BY DEF resolve_children, OwnCase, IsNode
<1>2. /\ work # <<>> /\ Head(work).do \notin {"loaded", "pop", "document"}
      /\ Node.kids \in Seq(Parts[sources[Source]])
  BY <1>1, Visited
<1>3. UNCHANGED <<scopes, current, base, defIds, origin, sources>> /\ work' = VisitAll(Node.kids) \o Tail(work)
  BY DEF resolve_children, Then
<1>4. Tables(scopes', origin', defIds', sources) /\ Grown(scopes, scopes')
  BY <1>3, NothingWritten
<1>5. Kept(VisitAll(Node.kids), Here, scopes', sources)
  BY <1>2, <1>4, VisitsHere
<1> QED  BY <1>2, <1>3, <1>4, <1>5, Walks

LEMMA KeepsMember == ASSUME Consistent, WalkMember PROVE Consistent'
<1>1. Task("member")
  BY DEF WalkMember
<1>2. /\ work # <<>> /\ Head(work).do \notin {"loaded", "pop", "document"}
      /\ IsNode(Node) => Node.kids \in Seq(Parts[sources[Source]])
  BY <1>1, Visited
<1> DEFINE tasks == IF IsNode(Node) THEN VisitAll(Node.kids) ELSE <<>>
<1>3. UNCHANGED <<scopes, current, base, defIds, origin, sources>> /\ work' = tasks \o Tail(work)
  BY DEF WalkMember, Then
<1>4. Tables(scopes', origin', defIds', sources) /\ Grown(scopes, scopes')
  BY <1>3, NothingWritten
<1>5. Kept(tasks, Here, scopes', sources)
  <2>1. IsNode(Node) => Kept(VisitAll(Node.kids), Here, scopes', sources)
    BY <1>2, <1>4, VisitsHere
  <2>2. Kept(<<>>, Here, scopes', sources)
    BY KeptNone
  <2> QED  BY <2>1, <2>2
<1> HIDE DEF tasks
<1> QED  BY <1>2, <1>3, <1>4, <1>5, Walks

LEMMA KeepsImpl == ASSUME Consistent, resolve_impl_block PROVE Consistent'
<1>1. Task("visit") /\ IsNode(Node)
  BY DEF resolve_impl_block, At, IsNode
<1>2. /\ work # <<>> /\ Head(work).do \notin {"loaded", "pop", "document"}
      /\ Node.kids \in Seq(Parts[sources[Source]])
  BY <1>1, Visited
<1> DEFINE kids == Node.kids
           tasks == [i \in DOMAIN kids |-> [do |-> "member", node |-> kids[i], here |-> Here, source |-> Source]]
<1>3. UNCHANGED <<scopes, current, base, defIds, origin, sources>> /\ work' = tasks \o Tail(work)
  BY DEF resolve_impl_block, Then
<1>4. Tables(scopes', origin', defIds', sources) /\ Grown(scopes, scopes')
  BY <1>3, NothingWritten
<1>5. Kept(tasks, Here, scopes', sources)
  <2> DEFINE R == {[do |-> "member", node |-> kids[i], here |-> Here, source |-> Source] : i \in DOMAIN kids}
  <2>1. /\ Source \in DOMAIN sources /\ Position(Here) /\ current \in DOMAIN scopes /\ scopes[current].of = Source
    BY <1>2, AtWork
  <2>2. Here.current = current
    BY DEF Here
  <2> HIDE DEF Here, kids
  <2>3. Len(kids) \in Nat /\ DOMAIN kids = 1 .. Len(kids) /\ \A i \in DOMAIN kids : kids[i] \in Parts[sources[Source]]
    BY <1>2, LenProperties, ElementOfSeq DEF kids
  <2>4. tasks \in [1 .. Len(kids) -> R]
    BY <2>3
  <2>5. Sequential(tasks)
    <3> HIDE DEF tasks, R
    <3> QED  BY <2>3, <2>4, SeqDef DEF Sequential
  <2>6. ASSUME NEW i \in DOMAIN tasks
        PROVE  TaskOK(tasks[i], scopes, sources) /\ tasks[i].here = Here /\ tasks[i].do = "member"
    <3> DEFINE t == tasks[i]
    <3>1. i \in DOMAIN kids /\ t = [do |-> "member", node |-> kids[i], here |-> Here, source |-> Source]
      OBVIOUS
    <3> HIDE DEF t
    <3>2. t.do = "member" /\ t.node = kids[i] /\ t.here = Here /\ t.source = Source
      BY <3>1
    <3>3. TaskOK(t, scopes, sources)
      BY <2>1, <2>2, <2>3, <3>1, <3>2 DEF TaskOK, Walking, Listing
    <3> QED  BY <3>2, <3>3 DEF t
  <2> HIDE DEF tasks
  <2>7. Kept(tasks, Here, scopes, sources)
    BY <2>5, <2>6 DEF Kept
  <2> QED  BY <1>3, <2>7
<1> HIDE DEF tasks
<1> QED  BY <1>2, <1>3, <1>4, <1>5, Walks

LEMMA KeepsBlock == ASSUME Consistent, resolve_block PROVE Consistent'
<1>1. Task("visit") /\ IsNode(Node)
  BY DEF resolve_block, At, IsNode
<1>2. work # <<>> /\ Head(work).do # "document"
  BY <1>1 DEF Task
<1>3. /\ scopes' = Append(scopes, EmptyScope(current, Source)) /\ Enclose
      /\ UNCHANGED <<base, defIds, origin, sources>>
  BY DEF resolve_block
<1>4. /\ Tables(scopes', origin', defIds', sources) /\ Grown(scopes, scopes')
      /\ Len(scopes) + 1 \in DOMAIN scopes' /\ scopes'[Len(scopes) + 1].parent = current
      /\ scopes'[Len(scopes) + 1].of = Source
  BY <1>2, <1>3, OnlyOpens
<1> QED  BY <1>1, <1>3, <1>4, Encloses

LEMMA KeepsForge == ASSUME Consistent, resolve_forge_decl PROVE Consistent'
<1> DEFINE names == NamesAfter(Node.kids, "Forge")
           name == FirstIn(Node.kids, names)
<1>1. Task("visit") /\ IsNode(Node)
  BY DEF resolve_forge_decl, At, IsNode
<1>2. work # <<>> /\ Head(work).do # "document"
  BY <1>1 DEF Task
<1>3. Enclose /\ UNCHANGED <<base, sources>>
  BY DEF resolve_forge_decl
<1>4. /\ Tables(scopes', origin', defIds', sources) /\ Grown(scopes, scopes')
      /\ Len(scopes) + 1 \in DOMAIN scopes' /\ scopes'[Len(scopes) + 1].parent = current
      /\ scopes'[Len(scopes) + 1].of = Source
  <2>1. CASE names = {}
    <3>1. scopes' = Append(scopes, EmptyScope(current, Source)) /\ UNCHANGED <<origin, defIds>>
      BY <2>1 DEF resolve_forge_decl
    <3> QED  BY <1>2, <3>1, OnlyOpens
  <2>2. CASE names # {}
    <3>1. /\ NewId(name) /\ Record(name, NextId)
          /\ scopes' = Append([scopes EXCEPT ![current].symbols = With(@, name.name, Symbol(NextId, 0))],
                              EmptyScope(current, Source))
      BY <2>2 DEF resolve_forge_decl, NoScope
    <3>2. Node.kids \in Seq(Parts[sources[Source]]) /\ sources[Source] \in OnDisk
      BY <1>1, Visited
    <3>3. names \subseteq Idents(Node.kids)
      BY DEF NamesAfter
    <3> DEFINE kids == Node.kids
    <3>4. name \in Parts[sources[Source]] /\ name.kind = "token"
      <4>1. FirstIn(kids, names) \in Parts[sources[Source]] /\ FirstIn(kids, names).kind = "token"
        <5> HIDE DEF names
        <5> QED  BY <2>2, <3>2, <3>3, TokensNamed
      <4> QED  BY <4>1
    <3>5. 0 \in 0 .. Len(scopes) + 1
      BY Places DEF Consistent, Tables, Scoped
    <3> HIDE DEF name, kids
    <3> QED  BY <1>2, <3>1, <3>4, <3>5, DefinesAndOpens
  <2> QED  BY <2>1, <2>2
<1> QED  BY <1>1, <1>3, <1>4, Encloses

LEMMA KeepsParam == ASSUME Consistent, resolve_param PROVE Consistent'
<1> DEFINE names == Idents(Node.kids)
           name == FirstIn(Node.kids, names)
<1>1. Task("visit") /\ IsNode(Node)
  BY DEF resolve_param, At, IsNode
<1>2. /\ work # <<>> /\ Head(work).do \notin {"loaded", "pop", "document"}
      /\ Node.kids \in Seq(Parts[sources[Source]]) /\ sources[Source] \in OnDisk
  BY <1>1, Visited
<1>3. UNCHANGED <<current, base, sources>> /\ work' = <<>> \o Tail(work)
  BY DEF resolve_param, Then
<1>4. Tables(scopes', origin', defIds', sources) /\ Grown(scopes, scopes')
  <2>1. CASE names = {}
    <3>1. UNCHANGED <<scopes, origin, defIds>>
      BY <2>1 DEF resolve_param
    <3> QED  BY <3>1, NothingWritten
  <2>2. CASE names # {}
    <3>1. Define(name)
      BY <2>2 DEF resolve_param
    <3> DEFINE kids == Node.kids
    <3>2. FirstIn(kids, names) \in Parts[sources[Source]] /\ FirstIn(kids, names).kind = "token"
      <4>1. names \subseteq Idents(kids)
        OBVIOUS
      <4> HIDE DEF names
      <4> QED  BY <1>2, <2>2, <4>1, TokensNamed
    <3>3. name \in Parts[sources[Source]] /\ name.kind = "token"
      BY <3>2
    <3> HIDE DEF name, kids, names
    <3> QED  BY <1>2, <3>1, <3>3, Defines
  <2> QED  BY <2>1, <2>2
<1> QED  BY <1>2, <1>3, <1>4, KeptNone, Walks

LEMMA KeepsWard == ASSUME Consistent, resolve_ward_decl PROVE Consistent'
<1> DEFINE names == NamesAfter(Node.kids, "Ward")
           name == FirstIn(Node.kids, names)
<1>1. Task("visit") /\ IsNode(Node)
  BY DEF resolve_ward_decl, At, IsNode
<1>2. work # <<>> /\ Head(work).do \notin {"loaded", "pop", "document"}
  BY <1>1 DEF Task
<1>3. UNCHANGED <<base, sources>>
  BY DEF resolve_ward_decl
<1>4. CASE names = {}
  <2>1. work' = <<>> \o Tail(work) /\ UNCHANGED <<scopes, current, origin, defIds>>
    BY <1>4 DEF resolve_ward_decl, Then
  <2>2. Tables(scopes', origin', defIds', sources) /\ Grown(scopes, scopes')
    BY <2>1, NothingWritten
  <2> QED  BY <1>2, <1>3, <2>1, <2>2, KeptNone, Walks
<1>5. CASE names # {}
  <2> DEFINE m == Len(scopes) + 1
  <2>1. /\ NewId(name) /\ Record(name, NextId) /\ Enclose
        /\ scopes' = Append([scopes EXCEPT ![current].symbols = With(@, name.name, Symbol(NextId, m))],
                            EmptyScope(current, Source))
    BY <1>5 DEF resolve_ward_decl
  <2>2. Node.kids \in Seq(Parts[sources[Source]]) /\ sources[Source] \in OnDisk
    BY <1>1, Visited
  <2>3. names \subseteq Idents(Node.kids)
    BY DEF NamesAfter
  <2> DEFINE kids == Node.kids
  <2>4. name \in Parts[sources[Source]] /\ name.kind = "token"
    <3>1. FirstIn(kids, names) \in Parts[sources[Source]] /\ FirstIn(kids, names).kind = "token"
      <4> HIDE DEF names
      <4> QED  BY <1>5, <2>2, <2>3, TokensNamed
    <3> QED  BY <3>1
  <2>5. m \in 0 .. Len(scopes) + 1
    BY Places DEF Consistent, Tables, Scoped
  <2> HIDE DEF name, kids, m
  <2>6. /\ Tables(scopes', origin', defIds', sources) /\ Grown(scopes, scopes')
        /\ Len(scopes) + 1 \in DOMAIN scopes' /\ scopes'[Len(scopes) + 1].parent = current
        /\ scopes'[Len(scopes) + 1].of = Source
    BY <1>2, <2>1, <2>4, <2>5, DefinesAndOpens
  <2> QED  BY <1>1, <1>3, <2>1, <2>6, Encloses
<1> QED  BY <1>4, <1>5

LEMMA KeepsPop == ASSUME Consistent, PopScope PROVE Consistent'
<1>1. work # <<>> /\ Head(work).do = "pop"
  BY DEF PopScope, Task
<1>2. /\ UNCHANGED <<scopes, base, defIds, origin, sources>> /\ work' = <<>> \o Tail(work)
      /\ current' = IF scopes[current].parent # NoParent THEN scopes[current].parent ELSE RootScope
  BY DEF PopScope, Then
<1>3. /\ TaskOK(Head(work), scopes, sources) /\ Head(work).here = Here
      /\ Extended(sources, sources) /\ Grown(scopes, scopes)
  BY <1>1, AtWork
<1>4. Here.current = current /\ Here.base = base
  BY DEF Here
<1>5. scopes[current].parent # NoParent
  BY <1>1, <1>3, <1>4 DEF TaskOK
<1>6. Here' = After(Head(work), scopes)
  BY <1>1, <1>2, <1>3, <1>4, <1>5 DEF After, Here
<1>7. Tail(work) # <<>> => Follows(Head(work), Tail(work)[1], scopes)
  BY <1>1, Rest DEF Consistent
<1> DEFINE there == After(Head(work), scopes)
<1>8. AtHead(Tail(work), there)
  BY <1>1, <1>7 DEF AtHead, Follows
<1> HIDE DEF there
<1>9. Chain(<<>>, scopes, sources)
  BY KeptNone, KeptChain
<1>10. Stack(<<>> \o Tail(work), scopes, sources) /\ AtHead(<<>> \o Tail(work), there)
  <2>1. Stack(work, scopes, sources)
    BY DEF Consistent
  <2> DEFINE none == <<>>
  <2>2. none = <<>> /\ Chain(none, scopes, sources)
    BY <1>9
  <2> HIDE DEF none
  <2>3. Stack(none \o Tail(work), scopes, sources) /\ AtHead(none \o Tail(work), there)
    BY <1>1, <1>3, <1>8, <2>1, <2>2, Goes
  <2> QED  BY <2>2, <2>3
<1>11. Tables(scopes', origin', defIds', sources')
  BY <1>2 DEF Consistent
<1> QED  BY <1>2, <1>6, <1>10, <1>11 DEF Consistent, there

LEMMA KeepsBeginDecl == ASSUME Consistent, BeginDecl PROVE Consistent'
<1>1. Task("visit") /\ IsNode(Node)
  BY DEF BeginDecl, IsNode, DeclKeyword
<1>2. /\ work # <<>> /\ Head(work).do \notin {"loaded", "pop", "document"}
      /\ Node.kids \in Seq(Parts[sources[Source]])
  BY <1>1, Visited
<1> DEFINE do == IF Node.kind = "LetStmt" THEN "let" ELSE "named"
           word == IF Node.kind = "LetStmt" THEN "" ELSE DeclKeyword[Node.kind]
           t == [do |-> do, kids |-> Node.kids, keyword |-> word,
                 found |-> FALSE, tilde |-> FALSE, defined |-> FALSE, here |-> Here, source |-> Source]
<1>3. UNCHANGED <<scopes, current, base, defIds, origin, sources>> /\ work' = <<t>> \o Tail(work)
  BY DEF BeginDecl, Then
<1>4. Tables(scopes', origin', defIds', sources) /\ Grown(scopes, scopes')
  BY <1>3, NothingWritten
<1>5. do \in Listing
  BY DEF Listing
<1> HIDE DEF do, word, Here
<1>6. DOMAIN t = ListFields /\ t.do = do /\ t.kids = Node.kids /\ t.here = Here /\ t.source = Source
  BY DEF ListFields
<1> HIDE DEF t
<1>7. Kept(<<t>>, Here, scopes', sources)
  BY <1>2, <1>4, <1>5, <1>6, ListsOn
<1> QED  BY <1>2, <1>3, <1>4, <1>7, Walks

\* The task at hand is a declaration whose children are taken one by one.
LEMMA Taken ==
  ASSUME Consistent, Task("let") \/ Task("named") \/ Task("pattern")
  PROVE  /\ work # <<>> /\ Head(work).do \notin {"loaded", "pop", "document"} /\ This.do \in Listing
         /\ DOMAIN This = ListFields /\ This.kids \in Seq(Parts[sources[Source]])
         /\ This.here = Here /\ This.source = Source /\ sources[Source] \in OnDisk
         /\ This.kids # <<>> =>
              /\ Child \in Parts[sources[Source]] /\ Tail(This.kids) \in Seq(Parts[sources[Source]])
              /\ IsNode(Child) => Child.kids \in Seq(Parts[sources[Source]])
<1>1. work # <<>> /\ Head(work).do \in Listing
  BY DEF Task, Listing
<1>2. /\ TaskOK(Head(work), scopes, sources) /\ Source = Head(work).source /\ sources[Source] \in OnDisk
      /\ Head(work).here = Here
  BY <1>1, AtWork DEF Listing
<1>3. DOMAIN This = ListFields /\ This.kids \in Seq(Parts[sources[Source]])
  BY <1>1, <1>2 DEF TaskOK, This
<1>4. This.kids # <<>> => Child \in Parts[sources[Source]] /\ Tail(This.kids) \in Seq(Parts[sources[Source]])
  BY <1>3, HeadTailProperties DEF Child
<1>5. This.kids # <<>> /\ IsNode(Child) => Child.kids \in Seq(Parts[sources[Source]])
  BY <1>2, <1>4, Kids
<1> QED  BY <1>1, <1>2, <1>3, <1>4, <1>5 DEF Listing, This

LEMMA KeepsEnd == ASSUME Consistent, EndDecl \/ EndPattern PROVE Consistent'
<1>1. Task("let") \/ Task("named") \/ Task("pattern")
  BY DEF EndDecl, EndPattern
<1>2. work # <<>> /\ Head(work).do \notin {"loaded", "pop", "document"}
  BY <1>1, Taken
<1>3. UNCHANGED <<scopes, current, base, defIds, origin, sources>> /\ work' = <<>> \o Tail(work)
  BY DEF EndDecl, EndPattern, Then
<1>4. Tables(scopes', origin', defIds', sources) /\ Grown(scopes, scopes')
  BY <1>3, NothingWritten
<1> QED  BY <1>2, <1>3, <1>4, KeptNone, Walks

LEMMA KeepsNamed == ASSUME Consistent, resolve_named_decl PROVE Consistent'
<1>1. Task("named") /\ This.kids # <<>>
  BY DEF resolve_named_decl, OnChild
<1>2. /\ work # <<>> /\ Head(work).do \notin {"loaded", "pop", "document"} /\ This.do \in Listing
      /\ DOMAIN This = ListFields /\ This.here = Here /\ This.source = Source
      /\ Child \in Parts[sources[Source]] /\ Tail(This.kids) \in Seq(Parts[sources[Source]])
      /\ IsNode(Child) => Child.kids \in Seq(Parts[sources[Source]])
  BY <1>1, Taken
<1>3. UNCHANGED <<current, base, sources>>
  BY DEF resolve_named_decl
<1>4. CASE IsNode(Child)
  <2> DEFINE t == [Head(work) EXCEPT !.kids = Tail(@)]
             visits == VisitAll(Child.kids)
             tasks == visits \o <<t>>
  <2>1. UNCHANGED <<scopes, origin, defIds>> /\ work' = tasks \o Tail(work)
    BY <1>4 DEF resolve_named_decl, Advance, Then
  <2>2. Tables(scopes', origin', defIds', sources) /\ Grown(scopes, scopes')
    BY <2>1, NothingWritten
  <2>3. DOMAIN t = ListFields /\ t.do = This.do /\ t.kids = Tail(This.kids) /\ t.here = Here /\ t.source = Source
    BY <1>2 DEF This, ListFields
  <2> HIDE DEF t
  <2>4. Kept(<<t>>, Here, scopes', sources)
    BY <1>2, <2>2, <2>3, ListsOn
  <2>5. Kept(visits, Here, scopes', sources)
    BY <1>2, <1>4, <2>2, VisitsHere
  <2>6. Kept(tasks, Here, scopes', sources)
    <3> HIDE DEF visits
    <3> QED  BY <2>4, <2>5, KeptJoined
  <2> HIDE DEF tasks
  <2> QED  BY <1>2, <1>3, <2>1, <2>2, <2>6, Walks
<1>5. CASE ~IsNode(Child)
  <2> DEFINE names == This.found /\ IsIdent(Child)
             found == (IsToken(Child, This.keyword) \/ This.found) /\ ~names
             t == [This EXCEPT !.kids = Tail(@), !.found = found]
  <2>1. /\ work' = <<t>> \o Tail(work)
        /\ IF names THEN Define(Child) ELSE UNCHANGED <<scopes, origin, defIds>>
    BY <1>5 DEF resolve_named_decl, Then
  <2>2. Child.kind = "token"
    BY <1>5 DEF IsNode
  <2>3. Tables(scopes', origin', defIds', sources) /\ Grown(scopes, scopes')
    <3>1. CASE names
      BY <1>2, <2>1, <2>2, <3>1, Defines
    <3>2. CASE ~names
      BY <2>1, <3>2, NothingWritten
    <3> QED  BY <3>1, <3>2
  <2> HIDE DEF names, found
  <2>4. DOMAIN t = ListFields /\ t.do = This.do /\ t.kids = Tail(This.kids) /\ t.here = Here /\ t.source = Source
    BY <1>2 DEF ListFields
  <2> HIDE DEF t
  <2>5. Kept(<<t>>, Here, scopes', sources)
    BY <1>2, <2>3, <2>4, ListsOn
  <2> QED  BY <1>2, <1>3, <2>1, <2>3, <2>5, Walks
<1> QED  BY <1>4, <1>5

\* A name bound by a let.
LEMMA Binds ==
  ASSUME Consistent, work # <<>>, Head(work).do # "document",
         NEW token \in Parts[sources[Source]], token.kind = "token", NEW tilde, Bind(token, tilde)
  PROVE  Tables(scopes', origin', defIds', sources) /\ Grown(scopes, scopes')
<1> DEFINE existing == resolve(current, token.name)
<1>1. Finds(existing, token.name, origin, Len(scopes))
  <2>1. current \in DOMAIN scopes /\ Scoped(scopes, origin, Len(scopes))
    BY AtWork DEF Consistent, Tables
  <2> QED  BY <2>1, ResolveFinds
<1>2. \/ Found(existing) /\ Record(token, existing.id) /\ UNCHANGED <<scopes, origin>>
      \/ Define(token)
  BY DEF Bind
<1> HIDE DEF existing
<1>3. CASE Found(existing) /\ Record(token, existing.id) /\ UNCHANGED <<scopes, origin>>
  BY <1>1, <1>3, Uses
<1>4. CASE Define(token)
  BY <1>4, Defines
<1> QED  BY <1>2, <1>3, <1>4

LEMMA KeepsPattern == ASSUME Consistent, PatternChild PROVE Consistent'
<1>1. Task("pattern") /\ This.kids # <<>>
  BY DEF PatternChild, OnChild
<1>2. /\ work # <<>> /\ Head(work).do \notin {"loaded", "pop", "document"} /\ This.do \in Listing
      /\ DOMAIN This = ListFields /\ This.here = Here /\ This.source = Source
      /\ Child \in Parts[sources[Source]] /\ Tail(This.kids) \in Seq(Parts[sources[Source]])
      /\ IsNode(Child) => Child.kids \in Seq(Parts[sources[Source]])
  BY <1>1, Taken
<1>3. UNCHANGED <<current, base, sources>>
  BY DEF PatternChild
<1> DEFINE t == [Head(work) EXCEPT !.kids = Tail(@)]
           visits == IF IsNode(Child) THEN VisitAll(Child.kids) ELSE <<>>
           tasks == visits \o <<t>>
<1>4. work' = tasks \o Tail(work)
  BY DEF PatternChild, Advance, Then
<1>5. Tables(scopes', origin', defIds', sources) /\ Grown(scopes, scopes')
  <2>1. CASE ~IsNode(Child) /\ IsIdent(Child)
    <3>1. Bind(Child, This.tilde) /\ Child.kind = "token"
      BY <2>1 DEF PatternChild, IsNode
    <3> QED  BY <1>2, <3>1, Binds
  <2>2. CASE ~(~IsNode(Child) /\ IsIdent(Child))
    <3>1. UNCHANGED <<scopes, origin, defIds>>
      BY <2>2 DEF PatternChild
    <3> QED  BY <3>1, NothingWritten
  <2> QED  BY <2>1, <2>2
<1>6. DOMAIN t = ListFields /\ t.do = This.do /\ t.kids = Tail(This.kids) /\ t.here = Here /\ t.source = Source
  BY <1>2 DEF This, ListFields
<1> HIDE DEF t
<1>7. Kept(<<t>>, Here, scopes', sources)
  BY <1>2, <1>5, <1>6, ListsOn
<1>8. Kept(visits, Here, scopes', sources)
  <2>1. IsNode(Child) => Kept(VisitAll(Child.kids), Here, scopes', sources)
    BY <1>2, <1>5, VisitsHere
  <2>2. Kept(<<>>, Here, scopes', sources)
    BY KeptNone
  <2> QED  BY <2>1, <2>2
<1>9. Kept(tasks, Here, scopes', sources)
  <2> HIDE DEF visits
  <2> QED  BY <1>7, <1>8, KeptJoined
<1> HIDE DEF tasks
<1> QED  BY <1>2, <1>3, <1>4, <1>5, <1>9, Walks

LEMMA KeepsLet == ASSUME Consistent, resolve_let_stmt PROVE Consistent'
<1>1. Task("let") /\ This.kids # <<>>
  BY DEF resolve_let_stmt, OnChild
<1>2. /\ work # <<>> /\ Head(work).do \notin {"loaded", "pop", "document"} /\ This.do \in Listing
      /\ DOMAIN This = ListFields /\ This.here = Here /\ This.source = Source
      /\ Child \in Parts[sources[Source]] /\ Tail(This.kids) \in Seq(Parts[sources[Source]])
      /\ IsNode(Child) => Child.kids \in Seq(Parts[sources[Source]])
  BY <1>1, Taken
<1>3. UNCHANGED <<current, base, sources>>
  BY DEF resolve_let_stmt
<1>4. CASE IsNode(Child)
  <2> DEFINE pattern == This.found /\ ~This.defined /\ Child.kind \in {"Ident", "Pattern"}
             names   == \E i \in DOMAIN Child.kids : IsIdent(Child.kids[i])
             defined == This.defined \/ (pattern /\ names)
             rest    == [This EXCEPT !.kids = Tail(@), !.defined = defined]
             binding == [This EXCEPT !.do = "pattern", !.kids = Child.kids]
             first   == IF pattern THEN <<binding>> ELSE VisitAll(Child.kids)
             tasks   == first \o <<rest>>
  <2>1. UNCHANGED <<scopes, origin, defIds>> /\ work' = tasks \o Tail(work)
    BY <1>4 DEF resolve_let_stmt, Then
  <2>2. Tables(scopes', origin', defIds', sources) /\ Grown(scopes, scopes')
    BY <2>1, NothingWritten
  <2> HIDE DEF defined
  <2>3. /\ DOMAIN rest = ListFields /\ rest.do = This.do /\ rest.kids = Tail(This.kids) /\ rest.here = Here
        /\ rest.source = Source
    BY <1>2 DEF ListFields
  <2>4. /\ DOMAIN binding = ListFields /\ binding.do = "pattern" /\ binding.kids = Child.kids /\ binding.here = Here
        /\ binding.source = Source
    BY <1>2 DEF ListFields
  <2> HIDE DEF rest, binding, pattern
  <2>5. Kept(<<rest>>, Here, scopes', sources)
    BY <1>2, <2>2, <2>3, ListsOn
  <2>6. Kept(<<binding>>, Here, scopes', sources)
    BY <1>2, <1>4, <2>2, <2>4, ListsOn DEF Listing
  <2>7. Kept(VisitAll(Child.kids), Here, scopes', sources)
    BY <1>2, <1>4, <2>2, VisitsHere
  <2>8. Kept(first, Here, scopes', sources)
    BY <2>6, <2>7
  <2> HIDE DEF first
  <2>9. Kept(tasks, Here, scopes', sources)
    BY <2>5, <2>8, KeptJoined
  <2> HIDE DEF tasks
  <2> QED  BY <1>2, <1>3, <2>1, <2>2, <2>9, Walks
<1>5. CASE ~IsNode(Child)
  <2> DEFINE names == This.found /\ ~This.defined /\ IsIdent(Child)
             defined == This.defined \/ names
             found == This.found \/ IsToken(Child, "Let") \/ IsToken(Child, "Tilde")
             tilde == This.tilde \/ IsToken(Child, "Tilde")
             t == [This EXCEPT !.kids = Tail(@), !.defined = defined, !.found = found, !.tilde = tilde]
  <2>1. /\ work' = <<t>> \o Tail(work)
        /\ IF names THEN Bind(Child, This.tilde) ELSE UNCHANGED <<scopes, origin, defIds>>
    BY <1>5 DEF resolve_let_stmt, Then
  <2>2. Child.kind = "token"
    BY <1>5 DEF IsNode
  <2>3. Tables(scopes', origin', defIds', sources) /\ Grown(scopes, scopes')
    <3>1. CASE names
      BY <1>2, <2>1, <2>2, <3>1, Binds
    <3>2. CASE ~names
      BY <2>1, <3>2, NothingWritten
    <3> QED  BY <3>1, <3>2
  <2> HIDE DEF names, defined, found, tilde
  <2>4. DOMAIN t = ListFields /\ t.do = This.do /\ t.kids = Tail(This.kids) /\ t.here = Here /\ t.source = Source
    BY <1>2 DEF ListFields
  <2> HIDE DEF t
  <2>5. Kept(<<t>>, Here, scopes', sources)
    BY <1>2, <2>3, <2>4, ListsOn
  <2> QED  BY <1>2, <1>3, <2>1, <2>3, <2>5, Walks
<1> QED  BY <1>4, <1>5

\* What is left of a draw, or a draw begun.
LEMMA DrawsOn ==
  ASSUME Consistent, work # <<>>, Head(work).do # "document", Grown(scopes, scopes'),
         NEW t, DOMAIN t = DrawFields, t.do = "draw", t.path \in Seq(Names(sources[Source])),
         t.next \in 1 .. Len(t.path) + 1, t.scope \in DOMAIN scopes', t.here = Here, t.source = Source
  PROVE  Kept(<<t>>, Here, scopes', sources)
<1>1. /\ Source \in DOMAIN sources /\ Position(Here) /\ current \in DOMAIN scopes /\ scopes[current].of = Source
  BY AtWork
<1>2. current \in DOMAIN scopes' /\ scopes'[current].of = Source
  BY <1>1, StillThere DEF Grown
<1>3. Here.current = current
  BY DEF Here
<1> HIDE DEF Here
<1>4. TaskOK(t, scopes', sources)
  BY <1>1, <1>2, <1>3 DEF TaskOK, Listing, Walking, Others
<1> QED  BY <1>4, KeptOne

LEMMA KeepsBeginDraw == ASSUME Consistent, resolve_draw_decl PROVE Consistent'
<1>1. Task("visit") /\ IsNode(Node)
  BY DEF resolve_draw_decl, At, IsNode
<1>2. /\ work # <<>> /\ Head(work).do \notin {"loaded", "pop", "document"}
      /\ Node.kids \in Seq(Parts[sources[Source]])
  BY <1>1, Visited
<1> DEFINE path == Chosen(Node.kids, Idents(Node.kids))
           t == [do |-> "draw", path |-> path, next |-> 1, scope |-> current, here |-> Here, source |-> Source]
           tasks == IF path = <<>> THEN <<>> ELSE <<t>>
<1>3. UNCHANGED <<scopes, current, base, defIds, origin, sources>> /\ work' = tasks \o Tail(work)
  BY DEF resolve_draw_decl, Then
<1>4. Tables(scopes', origin', defIds', sources) /\ Grown(scopes, scopes')
  BY <1>3, NothingWritten
<1>5. path \in Seq(Names(sources[Source]))
  <2> DEFINE kids == Node.kids
             f == sources[Source]
             S == {kids[i] : i \in Idents(kids) \cap DOMAIN kids}
  <2>1. kids \in Seq(Parts[f]) /\ Sequential(kids)
    BY <1>2 DEF Sequential
  <2> HIDE DEF f
  <2>2. Chosen(kids, Idents(kids)) \in Seq(S)
    <3> HIDE DEF kids
    <3> QED  BY <2>1, ChosenOnes
  <2>3. S \subseteq Names(f)
    <3> HIDE DEF kids
    <3>1. ASSUME NEW i \in Idents(kids) PROVE kids[i] \in Names(f)
      <4>1. i \in DOMAIN kids /\ IsIdent(kids[i])
        BY DEF Idents
      <4>2. kids[i] \in Parts[f]
        BY <2>1, <4>1, LenProperties, ElementOfSeq
      <4> QED  BY <4>1, <4>2 DEF Names
    <3> QED  BY <3>1
  <2> HIDE DEF S
  <2>4. Chosen(kids, Idents(kids)) \in Seq(Names(f))
    BY <2>2, <2>3, SeqMonotonic
  <2> QED  BY <2>4 DEF f
<1>6. current \in DOMAIN scopes
  BY <1>2, AtWork
<1>7. 1 \in 1 .. Len(path) + 1
  BY <1>5, LenProperties
<1> HIDE DEF path, Here
<1>8. /\ DOMAIN t = DrawFields /\ t.do = "draw" /\ t.path = path /\ t.next = 1 /\ t.scope = current
      /\ t.here = Here /\ t.source = Source
  BY DEF DrawFields
<1> HIDE DEF t
<1>9. Kept(<<t>>, Here, scopes', sources)
  <2>1. t.scope \in DOMAIN scopes'
    BY <1>3, <1>6, <1>8
  <2> QED  BY <1>2, <1>4, <1>5, <1>7, <1>8, <2>1, DrawsOn
<1>10. Kept(tasks, Here, scopes', sources)
  BY <1>9, KeptNone
<1> HIDE DEF tasks
<1> QED  BY <1>2, <1>3, <1>4, <1>10, Walks

\* The draw at hand.
LEMMA AtDraw ==
  ASSUME Consistent, Task("draw")
  PROVE  /\ work # <<>> /\ Head(work).do \notin {"loaded", "pop", "document"} /\ This.do = "draw"
         /\ DOMAIN This = DrawFields /\ This.path \in Seq(Names(sources[Source]))
         /\ This.next \in 1 .. Len(This.path) + 1 /\ Len(This.path) \in Nat /\ This.scope \in DOMAIN scopes
         /\ This.here = Here /\ This.source = Source /\ sources[Source] \in OnDisk
         /\ current \in DOMAIN scopes /\ 1 \in DOMAIN scopes
         /\ This.next <= Len(This.path) => Segment \in Parts[sources[Source]] /\ Segment.kind = "token"
<1>1. work # <<>> /\ Head(work).do = "draw"
  BY DEF Task
<1>2. /\ TaskOK(Head(work), scopes, sources) /\ Source = Head(work).source /\ sources[Source] \in OnDisk
      /\ Head(work).here = Here /\ current \in DOMAIN scopes
  BY <1>1, AtWork
<1>3. /\ DOMAIN This = DrawFields /\ This.path \in Seq(Names(sources[Source]))
      /\ This.next \in 1 .. Len(This.path) + 1 /\ This.scope \in DOMAIN scopes
  BY <1>1, <1>2 DEF TaskOK, This
<1>4. Len(This.path) \in Nat
  BY <1>3, LenProperties
<1>5. 1 \in DOMAIN scopes
  <2>1. Sequential(scopes)
    BY DEF Consistent, Tables, Scoped
  <2> QED  BY <1>2, <2>1, Places
<1>6. ASSUME This.next <= Len(This.path) PROVE Segment \in Parts[sources[Source]] /\ Segment.kind = "token"
  <2> DEFINE path == This.path
             n == This.next
  <2>1. n \in 1 .. Len(path) /\ path \in Seq(Names(sources[Source]))
    BY <1>3, <1>4, <1>6
  <2> HIDE DEF path, n
  <2>2. path[n] \in Names(sources[Source])
    BY <2>1, ElementOfSeq
  <2>3. Segment = path[n]
    BY DEF Segment, path, n
  <2> QED  BY <2>2, <2>3 DEF Names, IsIdent, IsToken
<1> QED  BY <1>1, <1>2, <1>3, <1>4, <1>5, <1>6 DEF This

LEMMA KeepsDrawKnown == ASSUME Consistent, DrawKnown PROVE Consistent'
<1>1. Task("draw") /\ This.next <= Len(This.path) /\ Found(InScope)
  BY DEF DrawKnown, Drawing
<1>2. /\ work # <<>> /\ Head(work).do \notin {"loaded", "pop", "document"} /\ This.do = "draw"
      /\ DOMAIN This = DrawFields /\ This.path \in Seq(Names(sources[Source]))
      /\ This.next \in 1 .. Len(This.path) + 1 /\ Len(This.path) \in Nat /\ This.scope \in DOMAIN scopes
      /\ This.here = Here /\ This.source = Source
  BY <1>1, AtDraw
<1> DEFINE scope == IF IsModule(InScope) THEN InScope.scope ELSE This.scope
           t == [This EXCEPT !.next = @ + 1, !.scope = scope]
<1>3. UNCHANGED <<scopes, current, base, defIds, origin, sources>> /\ work' = <<t>> \o Tail(work)
  BY DEF DrawKnown, Then
<1>4. Tables(scopes', origin', defIds', sources) /\ Grown(scopes, scopes')
  BY <1>3, NothingWritten
<1>5. scope \in DOMAIN scopes
  <2>1. Scoped(scopes, origin, Len(scopes)) /\ Sequential(scopes)
    BY DEF Consistent, Tables, Scoped
  <2>2. Finds(InScope, Segment.name, origin, Len(scopes))
    BY <1>2, <2>1, LocalFinds DEF InScope
  <2>3. IsModule(InScope) => InScope.scope \in 0 .. Len(scopes) /\ InScope.scope # 0
    BY <2>2 DEF Finds, IsModule, Unknown, Symbol, NoScope
  <2>4. DOMAIN scopes = 1 .. Len(scopes) /\ Len(scopes) \in Nat
    BY <2>1, Places
  <2> QED  BY <1>2, <2>3, <2>4
<1> HIDE DEF scope
<1>6. /\ DOMAIN t = DrawFields /\ t.do = "draw" /\ t.path = This.path /\ t.next = This.next + 1 /\ t.scope = scope
      /\ t.here = Here /\ t.source = Source
  BY <1>2 DEF DrawFields
<1> HIDE DEF t
<1>7. This.next + 1 \in 1 .. Len(This.path) + 1
  BY <1>1, <1>2
<1>8. Kept(<<t>>, Here, scopes', sources)
  BY <1>2, <1>3, <1>4, <1>5, <1>6, <1>7, DrawsOn
<1> QED  BY <1>2, <1>3, <1>4, <1>8, Walks

LEMMA KeepsMergeDrawn == ASSUME Consistent, MergeDrawn PROVE Consistent'
<1>1. Task("draw")
  BY DEF MergeDrawn
<1>2. /\ work # <<>> /\ Head(work).do \notin {"loaded", "pop", "document"}
      /\ This.scope \in DOMAIN scopes /\ current \in DOMAIN scopes
  BY <1>1, AtDraw
<1>3. UNCHANGED <<current, base, defIds, origin, sources>>
  BY DEF MergeDrawn
<1>4. CASE This.scope = current
  <2>1. UNCHANGED <<scopes, work>>
    BY <1>4 DEF MergeDrawn
  <2> QED  BY <1>3, <2>1 DEF Consistent, Here
<1>5. CASE This.scope # current
  <2>1. scopes' = Merged(current, This.scope) /\ work' = <<>> \o Tail(work)
    BY <1>5 DEF MergeDrawn, Then
  <2>2. Tables(scopes, origin, defIds, sources)
    BY DEF Consistent
  <2>3. /\ Scoped(Merged(current, This.scope), origin, Len(scopes)) /\ Grown(scopes, Merged(current, This.scope))
        /\ Len(Merged(current, This.scope)) = Len(scopes)
    BY <1>2, <2>2, Merges DEF Tables
  <2>4. Tables(scopes', origin', defIds', sources) /\ Grown(scopes, scopes')
    BY <1>3, <2>1, <2>2, <2>3 DEF Tables
  <2> QED  BY <1>2, <1>3, <2>1, <2>4, KeptNone, Walks
<1> QED  BY <1>4, <1>5

LEMMA KeepsDrawWithoutLoading == ASSUME Consistent, DrawWithoutLoading PROVE Consistent'
<1>1. Task("draw") /\ This.next <= Len(This.path)
  BY DEF DrawWithoutLoading, Drawing
<1>2. /\ work # <<>> /\ Head(work).do \notin {"loaded", "pop", "document"} /\ This.do = "draw"
      /\ DOMAIN This = DrawFields /\ This.path \in Seq(Names(sources[Source]))
      /\ This.next \in 1 .. Len(This.path) + 1 /\ Len(This.path) \in Nat /\ This.scope \in DOMAIN scopes
      /\ This.here = Here /\ This.source = Source /\ 1 \in DOMAIN scopes
  BY <1>1, AtDraw
<1> DEFINE scope == IF IsModule(InRoot) THEN InRoot.scope ELSE Len(scopes) + 1
           table == IF IsModule(InRoot) THEN scopes ELSE Append(scopes, NewModule(NoSource))
           t == [This EXCEPT !.next = @ + 1, !.scope = scope]
           entry == [file |-> sources[Source], at |-> Segment.at, name |-> Segment.name]
           n == Len(table)
<1>3. /\ UNCHANGED <<current, base, defIds, sources>> /\ work' = <<t>> \o Tail(work)
      /\ origin' = Append(origin, entry)
      /\ scopes' = [table EXCEPT ![This.scope].symbols = With(@, Segment.name, Symbol(Len(origin), scope))]
  BY DEF DrawWithoutLoading, Then, Enter, NewId, NextId
<1>4. /\ Scoped(scopes, origin, Len(scopes)) /\ Sequential(scopes) /\ Sequential(origin) /\ Listed(sources)
      /\ Marked(defIds, origin, sources)
  BY DEF Consistent, Tables, Scoped
<1>5. DOMAIN scopes = 1 .. Len(scopes) /\ Len(scopes) \in Nat
  BY <1>4, Places
<1>6. Scoped(table, origin, n) /\ Grown(scopes, table) /\ scope \in DOMAIN table
  <2>1. CASE IsModule(InRoot)
    <3>1. Finds(InRoot, ModuleName[1], origin, Len(scopes))
      <4>1. CASE Len(ModuleName) = 1
        <5>1. InRoot = resolve_local(1, ModuleName[1])
          BY <4>1 DEF InRoot, RootScope
        <5> QED  BY <1>2, <1>4, <5>1, LocalFinds
      <4>2. CASE Len(ModuleName) # 1
        BY <4>2 DEF InRoot, Finds
      <4> QED  BY <4>1, <4>2
    <3>2. InRoot.scope \in 0 .. Len(scopes) /\ InRoot.scope # 0
      BY <2>1, <3>1 DEF Finds, IsModule, Unknown, Symbol, NoScope
    <3> QED  BY <1>4, <1>5, <2>1, <3>2, NothingGrown
  <2>2. CASE ~IsModule(InRoot)
    <3> DEFINE m == Len(scopes)
               up == Len(scopes) + 1
               new == Append(scopes, NewModule(NoSource))
    <3>1. Scoped(scopes, origin, m) /\ m \in Nat /\ up \in Nat /\ m <= up
      BY <1>4, <1>5
    <3>2. OneMore(scopes, NoParent, NoSource, new)
      BY DEF OneMore, NewModule
    <3>3. Scoped(scopes, origin, up)
      <4> HIDE DEF m, up
      <4> QED  BY <3>1, ScopedMore
    <3>4. Len(new) = up
      BY <1>4, Appended
    <3>5. Scoped(new, origin, up) /\ Grown(scopes, new) /\ Youngest(new, NoParent, NoSource)
      <4> HIDE DEF new, up
      <4> QED  BY <3>2, <3>3, Opens
    <3> QED  BY <2>2, <3>4, <3>5 DEF Youngest
  <2> QED  BY <2>1, <2>2
<1> HIDE DEF scope, table
<1>7. Sequential(table) /\ DOMAIN scopes \subseteq DOMAIN table
  BY <1>6, StillThere DEF Grown
<1>8. n \in Nat /\ n <= n /\ scope \in 0 .. n
  BY <1>6, <1>7, Places
<1>9. entry.name = Segment.name
  OBVIOUS
<1>10. Rewrites(table, This.scope, With(table[This.scope].symbols, Segment.name, Symbol(Len(origin), scope)), scopes')
  BY <1>3 DEF Rewrites
<1> HIDE DEF n, entry
<1>11. Scoped(scopes', origin', n) /\ Grown(table, scopes') /\ Len(scopes') = Len(table)
  <2>1. This.scope \in DOMAIN table
    BY <1>2, <1>7
  <2> QED  BY <1>3, <1>4, <1>6, <1>8, <1>9, <1>10, <2>1, Declares
<1>12. Sequential(origin') /\ Marked(defIds', origin', sources)
  <2>1. Extended(sources, sources)
    BY <1>2, AtWork
  <2>2. Sequential(Append(origin, entry))
    BY <1>4, Appended
  <2> QED  BY <1>3, <1>4, <2>1, <2>2, MarksStay
<1>13. Tables(scopes', origin', defIds', sources) /\ Grown(scopes, scopes')
  BY <1>4, <1>6, <1>11, <1>12, GrowsOn DEF Tables, n
<1>14. /\ DOMAIN t = DrawFields /\ t.do = "draw" /\ t.path = This.path /\ t.next = This.next + 1 /\ t.scope = scope
       /\ t.here = Here /\ t.source = Source
  BY <1>2 DEF DrawFields
<1> HIDE DEF t
<1>15. This.next + 1 \in 1 .. Len(This.path) + 1
  BY <1>1, <1>2
<1>16. scope \in DOMAIN scopes'
  BY <1>6, <1>11, StillThere
<1>17. Kept(<<t>>, Here, scopes', sources)
  BY <1>2, <1>13, <1>14, <1>15, <1>16, DrawsOn
<1> QED  BY <1>2, <1>3, <1>13, <1>17, Walks

LEMMA KeepsLoad == ASSUME Consistent, LoadModule PROVE Consistent'
<1> DEFINE n == Len(scopes) + 1
           k == Len(sources) + 1
           f == FilePath
           inside == [current |-> n, base |-> Directory(f)]
           l == [do |-> "loaded", name |-> ModuleName, file |-> f, scope |-> n,
                 here |-> inside, back |-> Here, source |-> k]
           visits == VisitFrom(Files[f].kids, inside, k)
           tasks == visits \o <<l>>
<1>1. Task("draw") /\ This.next <= Len(This.path) /\ f \in OnDisk
  BY DEF LoadModule, Drawing
<1>2. /\ scopes' = Append(scopes, NewModule(k)) /\ sources' = Append(sources, f)
      /\ current' = n /\ base' = Directory(f) /\ work' = tasks \o work
      /\ UNCHANGED <<defIds, origin>>
  BY DEF LoadModule
<1>3. /\ work # <<>> /\ Head(work).do = "draw" /\ Head(work).here = Here /\ Head(work).next <= Len(Head(work).path)
  BY <1>1, AtDraw DEF This
<1>4. /\ Scoped(scopes, origin, Len(scopes)) /\ Sequential(scopes) /\ Sequential(origin) /\ Sequential(sources)
      /\ Marked(defIds, origin, sources) /\ \A i \in DOMAIN sources : sources[i] \in OnDisk
      /\ Stack(work, scopes, sources)
  BY DEF Consistent, Tables, Scoped, Listed
<1>5. /\ Len(scopes) \in Nat /\ Len(sources) \in Nat /\ DOMAIN sources = 1 .. Len(sources)
  BY <1>4, Places
<1>6. Files[f].kids \in Seq(Parts[f])
  BY <1>1, FilesAssumption DEF OnDisk
<1>7. inside.current = n /\ Position(inside) /\ Here' = inside
  BY <1>2 DEF Position, Here
<1>8. /\ l.do = "loaded" /\ l.scope = n /\ l.here = inside /\ l.back = Here /\ l.source = k
  OBVIOUS
<1> HIDE DEF l, inside, f, Here
<1>9. /\ Sequential(sources') /\ Len(sources') = k /\ DOMAIN sources' = 1 .. k /\ sources'[k] = f
      /\ \A i \in 1 .. Len(sources) : sources'[i] = sources[i]
  BY <1>2, <1>4, Appended
<1>10. Extended(sources, sources') /\ Listed(sources')
  <2>1. Extended(sources, sources')
    BY <1>4, <1>5, <1>9 DEF Extended
  <2>2. ASSUME NEW i \in DOMAIN sources' PROVE sources'[i] \in OnDisk
    <3>1. CASE i = k
      BY <1>1, <1>9, <3>1
    <3>2. CASE i # k
      <4>1. i \in 1 .. Len(sources)
        BY <1>5, <1>9, <3>2
      <4> QED  BY <1>4, <1>5, <1>9, <4>1
    <3> QED  BY <3>1, <3>2
  <2> QED  BY <1>9, <2>1, <2>2 DEF Listed
<1>11. Scoped(scopes', origin, n) /\ Grown(scopes, scopes') /\ Youngest(scopes', NoParent, k) /\ Len(scopes') = n
  <2> DEFINE m == Len(scopes)
  <2>1. Scoped(scopes, origin, m) /\ m \in Nat /\ n \in Nat /\ m <= n
    BY <1>4, <1>5
  <2>2. OneMore(scopes, NoParent, k, scopes')
    BY <1>2 DEF OneMore, NewModule
  <2>3. Scoped(scopes, origin, n)
    <3> HIDE DEF m, n
    <3> QED  BY <2>1, ScopedMore
  <2>4. Len(scopes') = n
    BY <1>2, <1>4, Appended
  <2>5. Scoped(scopes', origin, n) /\ Grown(scopes, scopes') /\ Youngest(scopes', NoParent, k)
    <3> HIDE DEF n, k
    <3> QED  BY <2>2, <2>3, Opens
  <2> QED  BY <2>4, <2>5
<1>12. n \in DOMAIN scopes' /\ scopes'[n].of = k
  BY <1>11 DEF Youngest
<1>13. k \in DOMAIN sources'
  BY <1>5, <1>9
<1> HIDE DEF n, k
<1>14. Marked(defIds', origin', sources')
  BY <1>2, <1>4, <1>10, MarksStay
<1>15. Tables(scopes', origin', defIds', sources')
  BY <1>2, <1>4, <1>10, <1>11, <1>14 DEF Tables
<1>16. Kept(visits, inside, scopes', sources')
  <2> DEFINE kids == Files[f].kids
  <2>1. kids \in Seq(Parts[sources'[k]])
    BY <1>6, <1>9
  <2> HIDE DEF kids
  <2>2. Kept(VisitFrom(kids, inside, k), inside, scopes', sources')
    BY <1>7, <1>12, <1>13, <2>1, Visits
  <2> QED  BY <2>2 DEF kids
<1> HIDE DEF visits
<1>17. /\ Chain(visits, scopes', sources')
       /\ visits # <<>> => /\ visits[1].here = inside /\ After(visits[Len(visits)], scopes') = inside
                           /\ visits[Len(visits)].do \notin {"loaded", "pop", "document"}
  BY <1>16, KeptChain
<1>18. TaskOK(l, scopes', sources')
  BY <1>7, <1>8, <1>12, <1>13 DEF TaskOK, Walking, Listing, Others
<1>19. Sequential(<<l>>) /\ Len(<<l>>) = 1 /\ DOMAIN <<l>> = {1} /\ <<l>>[1] = l /\ <<l>> # <<>>
  BY Single
<1>20. Chain(<<l>>, scopes', sources')
  <2> DEFINE one == <<l>>
  <2>1. Sequential(one) /\ DOMAIN one = {1} /\ one[1] = l
    BY <1>19
  <2> HIDE DEF one
  <2>2. Chain(one, scopes', sources')
    BY <1>18, <2>1 DEF Chain
  <2> QED  BY <2>2 DEF one
<1>21. visits # <<>> => Follows(visits[Len(visits)], l, scopes')
  BY <1>8, <1>17 DEF Follows
<1>22. Chain(tasks, scopes', sources')
  BY <1>17, <1>19, <1>20, <1>21, ChainJoined
<1>23. Sequential(visits) /\ Len(visits) \in Nat /\ (visits = <<>> <=> Len(visits) = 0)
  BY <1>17, Places DEF Chain
<1>24. /\ Len(tasks) = Len(visits) + 1
       /\ \A i \in 1 .. Len(visits) + 1 : tasks[i] = IF i <= Len(visits) THEN visits[i] ELSE <<l>>[i - Len(visits)]
  BY <1>19, <1>23, Pushed
<1>25. tasks[Len(tasks)] = l /\ tasks[1].here = inside
  <2>1. tasks[Len(tasks)] = l
    BY <1>19, <1>23, <1>24
  <2>2. tasks[1].here = inside
    BY <1>8, <1>17, <1>19, <1>23, <1>24
  <2> QED  BY <2>1, <2>2
<1>26. Sequential(tasks) /\ tasks # <<>>
  <2>1. Sequential(tasks)
    BY <1>22 DEF Chain
  <2> HIDE DEF tasks
  <2> QED  BY <1>23, <1>24, <2>1, Places
<1> HIDE DEF tasks
<1>27. Stack(work, scopes', sources')
  BY <1>4, <1>10, <1>11, StackStays
<1>28. Sequential(work) /\ Head(work) = work[1]
  BY <1>3, <1>4, Rest DEF Stack, Chain
<1>29. Follows(l, work[1], scopes')
  BY <1>3, <1>8, <1>28 DEF Follows, After
<1>30. Stack(work', scopes', sources')
  <2>1. Stack(tasks \o work, scopes', sources')
    BY <1>3, <1>22, <1>25, <1>27, <1>29, Joined
  <2> QED  BY <1>2, <2>1
<1>31. AtHead(work', inside)
  <2>1. Len(tasks) \in Nat /\ Len(tasks) # 0 /\ Len(work) \in Nat
    BY <1>26, <1>28, Places
  <2>2. (tasks \o work)[1] = tasks[1]
    BY <1>26, <1>28, <2>1, Pushed
  <2> QED  BY <1>2, <1>25, <2>2 DEF AtHead
<1> QED  BY <1>7, <1>15, <1>30, <1>31 DEF Consistent

LEMMA KeepsEndLoad == ASSUME Consistent, EndLoad PROVE Consistent'
<1> DEFINE l == Head(work)
           rest == Tail(work)
           d == work[2]
           segment == d.path[d.next]
           entry == [file |-> sources[d.source], at |-> segment.at, name |-> segment.name]
           t == [d EXCEPT !.next = @ + 1, !.scope = l.scope]
<1>1. work # <<>> /\ l.do = "loaded"
  BY DEF EndLoad, Task
<1>2. /\ current' = l.back.current /\ base' = l.back.base /\ UNCHANGED <<defIds, sources>>
      /\ origin' = Append(origin, entry)
      /\ scopes' = [scopes EXCEPT ![d.scope].symbols = With(@, segment.name, Symbol(Len(origin), l.scope))]
      /\ work' = <<t>> \o Tail(rest)
  BY DEF EndLoad, LoadedFor, This, NextId
<1>3. /\ Scoped(scopes, origin, Len(scopes)) /\ Sequential(scopes) /\ Sequential(origin) /\ Listed(sources)
      /\ Marked(defIds, origin, sources) /\ Stack(work, scopes, sources)
  BY DEF Consistent, Tables, Scoped
<1>4. /\ TaskOK(l, scopes, sources) /\ Stack(rest, scopes, sources) /\ rest # <<>> /\ d = rest[1]
      /\ Follows(l, rest[1], scopes)
  BY <1>1, <1>3, Rest
<1>5. TaskOK(rest[1], scopes, sources) /\ Head(rest) = rest[1]
  BY <1>4, Rest
<1> HIDE DEF l, d, rest
<1>6. d.do = "draw" /\ d.here = l.back /\ d.next <= Len(d.path)
  BY <1>1, <1>4 DEF Follows, After
<1>7. /\ TaskOK(d, scopes, sources) /\ DOMAIN d = DrawFields /\ d.path \in Seq(Names(sources[d.source]))
      /\ d.next \in 1 .. Len(d.path) + 1 /\ d.scope \in DOMAIN scopes /\ l.scope \in DOMAIN scopes
      /\ Position(d.here) /\ d.here.current \in DOMAIN scopes /\ scopes[d.here.current].of = d.source
      /\ d.source \in DOMAIN sources
  BY <1>1, <1>4, <1>5, <1>6 DEF TaskOK
<1>8. Here' = l.back
  BY <1>2, <1>6, <1>7 DEF Here, Position
<1>9. DOMAIN scopes = 1 .. Len(scopes) /\ Len(scopes) \in Nat
  BY <1>3, Places
<1>10. entry.name = segment.name
  OBVIOUS
<1> DEFINE n == Len(scopes)
<1>11. n \in Nat /\ n <= n /\ l.scope \in 0 .. n
  BY <1>7, <1>9
<1>12. Rewrites(scopes, d.scope, With(scopes[d.scope].symbols, segment.name, Symbol(Len(origin), l.scope)), scopes')
  BY <1>2 DEF Rewrites
<1>13. Scoped(scopes, origin, n)
  BY <1>3
<1> HIDE DEF n, entry, segment
<1>14. Scoped(scopes', origin', n) /\ Grown(scopes, scopes') /\ Len(scopes') = Len(scopes)
  BY <1>2, <1>3, <1>7, <1>10, <1>11, <1>12, <1>13, Declares
<1>15. Extended(sources, sources)
  BY <1>1, AtWork DEF l
<1>16. Sequential(origin') /\ Marked(defIds', origin', sources)
  <2>1. Sequential(Append(origin, entry))
    BY <1>3, Appended
  <2> QED  BY <1>2, <1>3, <1>15, <2>1, MarksStay
<1>17. Tables(scopes', origin', defIds', sources')
  BY <1>2, <1>3, <1>14, <1>16 DEF Tables, n
<1>18. /\ DOMAIN t = DrawFields /\ t.do = "draw" /\ t.path = d.path /\ t.next = d.next + 1 /\ t.scope = l.scope
       /\ t.here = d.here /\ t.source = d.source
  BY <1>6, <1>7 DEF DrawFields
<1> HIDE DEF t
<1>19. TaskOK(t, scopes', sources)
  <2>1. Len(d.path) \in Nat
    BY <1>7, LenProperties
  <2>2. d.next + 1 \in 1 .. Len(d.path) + 1
    BY <1>6, <1>7, <2>1
  <2>3. l.scope \in DOMAIN scopes' /\ d.here.current \in DOMAIN scopes' /\ scopes'[d.here.current].of = d.source
    BY <1>7, <1>14, StillThere DEF Grown
  <2> QED  BY <1>7, <1>18, <2>2, <2>3 DEF TaskOK, Walking, Listing, Others
<1>20. Kept(<<t>>, l.back, scopes', sources)
  BY <1>6, <1>18, <1>19, KeptOne
<1>21. AtHead(rest, l.back)
  BY <1>4, <1>6 DEF AtHead
<1>22. Stack(<<t>> \o Tail(rest), scopes', sources) /\ AtHead(<<t>> \o Tail(rest), l.back)
  <2> DEFINE tasks == <<t>>
  <2>1. Kept(tasks, l.back, scopes', sources)
    BY <1>20
  <2> HIDE DEF tasks
  <2>2. Head(rest).do \notin {"loaded", "pop", "document"}
    BY <1>4, <1>5, <1>6
  <2>3. Stack(tasks \o Tail(rest), scopes', sources) /\ AtHead(tasks \o Tail(rest), l.back)
    BY <1>4, <1>14, <1>15, <1>21, <2>1, <2>2, Replaced
  <2> QED  BY <2>3 DEF tasks
<1> QED  BY <1>2, <1>8, <1>17, <1>22 DEF Consistent

LEMMA KeepsDocument == ASSUME Consistent, BeginDocument PROVE Consistent'
<1> DEFINE inside == [current |-> This.scope, base |-> Directory(sources[Source])]
           tasks == VisitFrom(Node.kids, inside, Source)
<1>1. work # <<>> /\ Head(work).do = "document"
  BY DEF BeginDocument, Task
<1>2. /\ UNCHANGED <<scopes, defIds, origin, sources>> /\ work' = tasks \o Tail(work)
      /\ current' = This.scope /\ base' = Directory(sources[Source])
  BY DEF BeginDocument, Then
<1>3. /\ TaskOK(Head(work), scopes, sources) /\ Source = Head(work).source
      /\ Source \in DOMAIN sources /\ sources[Source] \in OnDisk
      /\ Extended(sources, sources) /\ Grown(scopes, scopes)
  BY <1>1, AtWork
<1>4. /\ Node \in Parts[sources[Source]] /\ IsNode(Node)
      /\ This.scope \in DOMAIN scopes /\ scopes[This.scope].of = Source
  BY <1>1, <1>3 DEF TaskOK, Node, This, Walking
<1>5. Node.kids \in Seq(Parts[sources[Source]])
  BY <1>3, <1>4, Kids
<1>6. inside.current = This.scope /\ Position(inside) /\ Here' = inside
  BY <1>2 DEF Position, Here
<1> HIDE DEF inside
<1>7. Kept(tasks, inside, scopes, sources)
  <2> DEFINE kids == Node.kids
  <2>1. kids \in Seq(Parts[sources[Source]])
    BY <1>5
  <2> HIDE DEF kids
  <2>2. Kept(VisitFrom(kids, inside, Source), inside, scopes, sources)
    BY <1>3, <1>4, <1>6, <2>1, Visits
  <2> QED  BY <2>2 DEF kids
<1> HIDE DEF tasks
<1>8. /\ Chain(tasks, scopes, sources)
      /\ tasks # <<>> => /\ tasks[1].here = inside /\ After(tasks[Len(tasks)], scopes) = inside
                         /\ tasks[Len(tasks)].do \notin {"loaded", "pop", "document"}
  BY <1>7, KeptChain
<1>9. Tail(work) # <<>> => Tail(work)[1].do = "document"
  BY <1>1, Rest DEF Consistent, Follows
<1>10. AtHead(Tail(work), inside)
  BY <1>9 DEF AtHead
<1>11. tasks # <<>> /\ Tail(work) # <<>> => Follows(tasks[Len(tasks)], Tail(work)[1], scopes)
  BY <1>8, <1>9 DEF Follows
<1>12. Stack(tasks \o Tail(work), scopes, sources) /\ AtHead(tasks \o Tail(work), inside)
  <2>1. Stack(work, scopes, sources)
    BY DEF Consistent
  <2> QED  BY <1>1, <1>3, <1>8, <1>10, <1>11, <2>1, Goes
<1>13. Tables(scopes', origin', defIds', sources')
  BY <1>2 DEF Consistent
<1> QED  BY <1>2, <1>6, <1>12, <1>13 DEF Consistent

-----------------------------------------------------------------------------
(* The compiler begins with a file, the server with the documents *)

LEMMA BeginsWithFile == ASSUME NEW file \in OnDisk, ResolverStart(file) PROVE Consistent
<1> DEFINE scope == EmptyScope(NoParent, 1)
           here == [current |-> 1, base |-> Directory(file)]
           kids == Files[file].kids
<1>1. /\ scopes = <<scope>> /\ sources = <<file>> /\ origin = <<>> /\ defIds = <<>>
      /\ current = 1 /\ base = Directory(file) /\ work = VisitFrom(kids, here, 1)
  BY DEF ResolverStart, RootScope
<1>2. kids \in Seq(Parts[file])
  BY FilesAssumption DEF OnDisk
<1>3. /\ DOMAIN scope = Fields /\ scope.parent = 0 /\ scope.of = 1 /\ DOMAIN scope.symbols = {}
  BY DEF EmptyScope, Fields, NoParent
<1>4. Position(here) /\ here.current = 1 /\ Here = here
  BY <1>1 DEF Position, Here
<1> HIDE DEF scope, here, kids
<1>5. Sequential(scopes) /\ Len(scopes) = 1 /\ DOMAIN scopes = {1} /\ scopes[1] = scope
  BY <1>1, Single
<1>6. Sequential(sources) /\ DOMAIN sources = {1} /\ sources[1] = file
  BY <1>1, Single
<1>7. Bears(scope.symbols, origin, Len(scopes))
  BY <1>3 DEF Bears
<1>8. Scoped(scopes, origin, Len(scopes))
  BY <1>3, <1>5, <1>7 DEF Scoped, NoParent
<1>9. Sequential(origin) /\ DOMAIN defIds = {}
  BY <1>1, EmptySeq DEF Sequential
<1>10. Tables(scopes, origin, defIds, sources)
  BY <1>6, <1>8, <1>9 DEF Tables, Listed, Marked
<1>11. Kept(work, here, scopes, sources)
  BY <1>1, <1>2, <1>3, <1>4, <1>5, <1>6, Visits
<1>12. /\ Chain(work, scopes, sources)
       /\ work # <<>> => work[1].here = here
       /\ \A i \in DOMAIN work : work[i].do # "loaded"
  BY <1>11, KeptChain DEF Kept
<1>13. Stack(work, scopes, sources)
  BY <1>12 DEF Stack, Chain
<1>14. AtHead(work, here)
  BY <1>12 DEF AtHead
<1> QED  BY <1>4, <1>10, <1>13, <1>14 DEF Consistent

\* A function on the places of a sequence is one.
LEMMA Mapped ==
  ASSUME NEW s, Sequential(s), NEW w, DOMAIN w = DOMAIN s, w = [i \in DOMAIN w |-> w[i]]
  PROVE  Sequential(w) /\ Len(w) = Len(s)
<1>1. Len(s) \in Nat /\ DOMAIN w = 1 .. Len(s)
  BY Places
<1> DEFINE R == {w[i] : i \in DOMAIN w}
<1>2. w \in [1 .. Len(s) -> R]
  BY <1>1
<1> HIDE DEF R
<1>3. w \in Seq(R)
  BY <1>1, <1>2, SeqDef
<1>4. Len(w) \in Nat /\ DOMAIN w = 1 .. Len(w)
  BY <1>3, LenProperties
<1>5. Len(w) = Len(s)
  BY <1>1, <1>4
<1> QED  BY <1>3, <1>5 DEF Sequential

LEMMA SortedOnes ==
  ASSUME NEW S
  PROVE  /\ Sorted(S) \in Seq(S)
         /\ S \subseteq Range(Alphabetical) => \A x \in S : \E i \in DOMAIN Sorted(S) : Sorted(S)[i] = x
<1> DEFINE places == {i \in DOMAIN Alphabetical : Alphabetical[i] \in S}
           T == {Alphabetical[i] : i \in places \cap DOMAIN Alphabetical}
<1>1. Sequential(Alphabetical)
  BY AnalysisAssumption DEF Sequential
<1>2. Sorted(S) = Chosen(Alphabetical, places)
  BY DEF Sorted
<1>3. T \subseteq S
  OBVIOUS
<1>4. ASSUME NEW x \in S, S \subseteq Range(Alphabetical)
      PROVE  \E i \in places \cap DOMAIN Alphabetical : Alphabetical[i] = x
  BY <1>4 DEF Range
<1> HIDE DEF places
<1>5. /\ Chosen(Alphabetical, places) \in Seq(T)
      /\ \A i \in places \cap DOMAIN Alphabetical :
           \E j \in DOMAIN Chosen(Alphabetical, places) : Chosen(Alphabetical, places)[j] = Alphabetical[i]
  BY <1>1, ChosenOnes
<1> HIDE DEF T
<1>6. Sorted(S) \in Seq(S)
  BY <1>2, <1>3, <1>5, SeqMonotonic
<1>7. S \subseteq Range(Alphabetical) => \A x \in S : \E i \in DOMAIN Sorted(S) : Sorted(S)[i] = x
  BY <1>2, <1>4, <1>5
<1> QED  BY <1>6, <1>7

LEMMA IndexIsOne ==
  ASSUME NEW docs \in Seq(OnDisk), NEW name \in ModuleNames(docs)
  PROVE  IndexOf(docs, name) \in DOMAIN docs /\ docs[IndexOf(docs, name)] \in OnDisk
<1> DEFINE S == {i \in DOMAIN docs : module_name_for_uri(docs, i) = name}
           n == Len(docs)
<1>1. n \in Nat /\ DOMAIN docs = 1 .. n /\ \A i \in DOMAIN docs : docs[i] \in OnDisk
  BY LenProperties, ElementOfSeq
<1>2. S \subseteq 1 .. n /\ S # {}
  BY <1>1 DEF ModuleNames
<1>3. IndexOf(docs, name) = Max(S)
  BY DEF IndexOf
<1> HIDE DEF S, n
<1>4. Max(S) \in S
  BY <1>1, <1>2, MaxIsOne
<1>5. IndexOf(docs, name) \in DOMAIN docs
  BY <1>1, <1>2, <1>3, <1>4
<1> QED  BY <1>1, <1>5

LEMMA OrderedOnes ==
  ASSUME NEW docs
  PROVE  Ordered(docs) \in Seq(ModuleNames(docs))
<1> DEFINE names == ModuleNames(docs)
           all   == Sorted(names)
           draws == UNION {{n} \X draw_dependencies(docs[IndexOf(docs, n)], names) : n \in names}
           Ready(done, n) == \A d \in draws : d[1] = n => d[2] \in Range(done) \cup {n}
           L == Len(all)
           m == L * L
           At1(k) == all[((k - 1) % L) + 1]
           Loop(u) == u = [k \in 0 .. m |->
                             IF k = 0 THEN <<>>
                             ELSE LET done == u[k - 1]
                                      name == all[((k - 1) % L) + 1]
                                  IN IF name \notin Range(done) /\ Ready(done, name) THEN Append(done, name) ELSE done]
           run == CHOOSE u : Loop(u)
           step == [k \in 1 .. m |-> [done \in Seq(names) |->
                      IF At1(k) \notin Range(done) /\ Ready(done, At1(k)) THEN Append(done, At1(k)) ELSE done]]
<1>1. Ordered(docs) = run[m] \o Sorted(names \ Range(run[m]))
  BY DEF Ordered
<1>2. all \in Seq(names) /\ L \in Nat
  BY SortedOnes, LenProperties
<1> HIDE DEF names, all
<1>3. m \in Nat /\ (L = 0 => m = 0)
  BY <1>2
<1>4. ASSUME NEW k \in 1 .. m PROVE At1(k) \in names
  <2>1. L > 0 /\ k - 1 \in Nat
    BY <1>2, <1>3
  <2>2. ((k - 1) % L) + 1 \in 1 .. L
    <3> DEFINE a == k - 1
    <3>1. a \in Nat /\ L \in Nat /\ L > 0
      BY <1>2, <2>1
    <3> HIDE DEF a, L
    <3>2. a % L \in 0 .. L - 1
      BY <3>1
    <3> QED  BY <3>1, <3>2 DEF a
  <2> QED  BY <1>2, <2>2, ElementOfSeq
<1> HIDE DEF draws, m
<1>5. step \in [1 .. m -> [Seq(names) -> Seq(names)]]
  <2> SUFFICES ASSUME NEW k \in 1 .. m, NEW done \in Seq(names)
               PROVE  (IF At1(k) \notin Range(done) /\ Ready(done, At1(k)) THEN Append(done, At1(k)) ELSE done) \in Seq(names)
    OBVIOUS
  <2>1. Append(done, At1(k)) \in Seq(names)
    BY <1>4, AppendProperties
  <2> HIDE DEF At1, Ready
  <2> QED  BY <2>1
<1>6. \A k \in 1 .. m, done \in Seq(names) :
        step[k][done] = IF At1(k) \notin Range(done) /\ Ready(done, At1(k)) THEN Append(done, At1(k)) ELSE done
  <2> HIDE DEF At1, Ready
  <2> QED  OBVIOUS
<1> HIDE DEF step
<1>7. PICK g \in [0 .. m -> Seq(names)] : g[0] = <<>> /\ \A k \in 1 .. m : g[k] = step[k][g[k - 1]]
  <2> DEFINE S == Seq(names)
             start == <<>>
  <2>1. step \in [1 .. m -> [S -> S]] /\ start \in S
    BY <1>5, EmptySeq
  <2> HIDE DEF S, start
  <2>2. PICK g \in [0 .. m -> S] : Steps(g, m, start, step)
    BY <1>3, <2>1, StepsExist
  <2> QED  BY <2>2 DEF S, start, Steps
<1>8. Loop(g)
  <2> DEFINE E(k) == IF k = 0 THEN <<>>
                     ELSE IF At1(k) \notin Range(g[k - 1]) /\ Ready(g[k - 1], At1(k)) THEN Append(g[k - 1], At1(k)) ELSE g[k - 1]
  <2>1. ASSUME NEW k \in 0 .. m PROVE g[k] = E(k)
    <3>1. CASE k = 0
      BY <1>7, <3>1
    <3>2. CASE k # 0
      <4>1. k \in 1 .. m /\ k - 1 \in 0 .. m
        BY <1>3, <3>2
      <4>2. g[k - 1] \in Seq(names) /\ g[k] = step[k][g[k - 1]]
        BY <1>7, <4>1
      <4> HIDE DEF At1, Ready
      <4> QED  BY <1>6, <3>2, <4>1, <4>2
    <3> QED  BY <3>1, <3>2
  <2>2. g = [k \in 0 .. m |-> g[k]]
    BY <1>7
  <2>3. [k \in 0 .. m |-> g[k]] = [k \in 0 .. m |-> E(k)]
    <3> HIDE DEF E
    <3> QED  BY <2>1
  <2> QED  BY <2>2, <2>3
<1>9. Loop(run)
  <2> HIDE DEF Loop
  <2> QED  BY <1>8
<1> HIDE DEF run
<1> DEFINE Q == {k \in Nat : k <= m => run[k] \in Seq(names)}
<1>10. \A k \in 0 .. m :
         run[k] = IF k = 0 THEN <<>>
                  ELSE IF At1(k) \notin Range(run[k - 1]) /\ Ready(run[k - 1], At1(k)) THEN Append(run[k - 1], At1(k))
                  ELSE run[k - 1]
  BY <1>9
<1> HIDE DEF Loop, Ready
<1>11. 0 \in Q
  <2>1. 0 \in 0 .. m
    BY <1>3
  <2>2. run[0] = <<>>
    BY <1>10, <2>1
  <2>3. <<>> \in Seq(names)
    BY EmptySeq
  <2>4. run[0] \in Seq(names)
    BY <2>2, <2>3
  <2> QED  BY <2>4
<1>12. ASSUME NEW k \in 1 .. m, k - 1 \in Q PROVE k \in Q
  <2> DEFINE done == run[k - 1]
             a == At1(k)
  <2>1. k \in 0 .. m /\ k # 0 /\ k - 1 \in Nat /\ k - 1 <= m
    BY <1>3
  <2>2. done \in Seq(names) /\ a \in names
    BY <1>4, <1>12, <2>1
  <2>3. run[k] = IF a \notin Range(done) /\ Ready(done, a) THEN Append(done, a) ELSE done
    <3> HIDE DEF At1
    <3> QED  BY <1>10, <2>1
  <2> HIDE DEF done, a
  <2>4. run[k] = Append(done, a) \/ run[k] = done
    BY <2>3
  <2>5. Append(done, a) \in Seq(names)
    BY <2>2, AppendProperties
  <2>6. run[k] \in Seq(names)
    BY <2>2, <2>4, <2>5
  <2> QED  BY <2>1, <2>6
<1>13. 0 .. m \subseteq Q
  <2>1. \A k \in 1 .. m : k - 1 \in Q => k \in Q
    BY <1>12
  <2> HIDE DEF Q
  <2> QED  BY <1>3, <1>11, <2>1, BoundedInduction
<1>14. run[m] \in Seq(names)
  <2>1. m \in 0 .. m
    BY <1>3
  <2> QED  BY <1>13, <2>1
<1>15. Sorted(names \ Range(run[m])) \in Seq(names)
  <2> DEFINE R == names \ Range(run[m])
  <2>1. R \subseteq names
    OBVIOUS
  <2> HIDE DEF R
  <2>2. Sorted(R) \in Seq(R)
    BY SortedOnes
  <2>3. Sorted(R) \in Seq(names)
    BY <2>1, <2>2, SeqMonotonic
  <2> QED  BY <2>3 DEF R
<1>16. Ordered(docs) \in Seq(names)
  BY <1>1, <1>14, <1>15, ConcatProperties
<1> QED  BY <1>16 DEF names


LEMMA TableFinds ==
  ASSUME NEW docs, NEW name \in Range(Sorted(ModuleNames(docs)))
  PROVE  \E k \in DOMAIN Sorted(ModuleNames(docs)) :
           Sorted(ModuleNames(docs))[k] = name /\ ModuleTable(docs)[name] = Symbol(k - 1, k + 1)
<1> DEFINE names == Sorted(ModuleNames(docs))
           I == {i \in 1 .. Len(names) : names[i] = name}
           k == SelectInSeq(names, LAMBDA m : m = name)
<1>1. ModuleTable(docs)[name] = Symbol(k - 1, k + 1)
  BY DEF ModuleTable
<1>2. names \in Seq(ModuleNames(docs))
  BY SortedOnes
<1>3. name \in Range(names)
  OBVIOUS
<1>4. k = IF I # {} THEN Min(I) ELSE 0
  BY DEF SelectInSeq
<1> HIDE DEF names, k
<1>5. DOMAIN names = 1 .. Len(names) /\ Len(names) \in Nat
  BY <1>2, LenProperties
<1>6. I # {} /\ I \subseteq Nat
  BY <1>3, <1>5 DEF Range
<1>7. Min(I) \in I
  <2> HIDE DEF I
  <2> QED  BY <1>6, MinIsOne
<1>8. k \in DOMAIN names /\ names[k] = name
  BY <1>4, <1>5, <1>6, <1>7
<1> QED  BY <1>1, <1>8 DEF names

LEMMA BeginsWithDocuments == ASSUME NEW docs \in Opened, AnalysisStart(docs) PROVE Consistent
<1> DEFINE names == Sorted(ModuleNames(docs))
           order == Ordered(docs)
           table == ModuleTable(docs)
           root  == [symbols |-> table, parent |-> 0, of |-> 0]
           made  == [k \in DOMAIN names |-> [symbols |-> table, parent |-> 0, of |-> IndexOf(docs, names[k])]]
           ids   == [k \in DOMAIN names |-> [file |-> docs[IndexOf(docs, names[k])], at |-> <<>>, name |-> names[k]]]
           tasks == [k \in DOMAIN order |->
                       [do |-> "document", node |-> Files[docs[IndexOf(docs, order[k])]],
                        scope |-> table[order[k]].scope, source |-> IndexOf(docs, order[k])]]
           n == Len(names)
<1>1. /\ scopes = <<root>> \o made /\ origin = ids /\ work = tasks
      /\ sources = docs /\ defIds = <<>>
  BY DEF AnalysisStart, NoParent, NoSource
<1>2. docs \in Seq(OnDisk) /\ ModuleNames(docs) \subseteq Range(Alphabetical)
  BY AnalysisAssumption
<1>3. names \in Seq(ModuleNames(docs)) /\ \A x \in ModuleNames(docs) : x \in Range(names)
  BY <1>2, SortedOnes DEF Range
<1>4. order \in Seq(ModuleNames(docs))
  BY OrderedOnes
<1>5. ASSUME NEW x \in ModuleNames(docs) PROVE IndexOf(docs, x) \in DOMAIN docs /\ docs[IndexOf(docs, x)] \in OnDisk
  BY <1>2, IndexIsOne
<1>6. ASSUME NEW x \in Range(names) PROVE \E k \in DOMAIN names : names[k] = x /\ table[x] = Symbol(k - 1, k + 1)
  BY TableFinds
<1>7. DOMAIN table = Range(names)
  BY DEF ModuleTable
<1>8. \A k \in DOMAIN names : made[k] = [symbols |-> table, parent |-> 0, of |-> IndexOf(docs, names[k])]
  OBVIOUS
<1>9. \A k \in DOMAIN names : ids[k].name = names[k]
  OBVIOUS
<1>10. \A k \in DOMAIN order : tasks[k] = [do |-> "document", node |-> Files[docs[IndexOf(docs, order[k])]],
                                           scope |-> table[order[k]].scope, source |-> IndexOf(docs, order[k])]
  OBVIOUS
<1> HIDE DEF names, order, table
<1>11. Sequential(names) /\ Sequential(order) /\ n \in Nat /\ DOMAIN names = 1 .. n
  BY <1>3, <1>4, LenProperties DEF Sequential
<1>12. Sequential(made) /\ Len(made) = n
  <2>1. DOMAIN made = DOMAIN names /\ made = [i \in DOMAIN made |-> made[i]]
    OBVIOUS
  <2> HIDE DEF made
  <2> QED  BY <1>11, <2>1, Mapped
<1>13. Sequential(ids) /\ Len(ids) = n
  <2>1. DOMAIN ids = DOMAIN names /\ ids = [i \in DOMAIN ids |-> ids[i]]
    OBVIOUS
  <2> HIDE DEF ids
  <2> QED  BY <1>11, <2>1, Mapped
<1>14. Sequential(tasks) /\ DOMAIN tasks = DOMAIN order
  <2>1. DOMAIN tasks = DOMAIN order /\ tasks = [i \in DOMAIN tasks |-> tasks[i]]
    OBVIOUS
  <2> HIDE DEF tasks
  <2> QED  BY <1>11, <2>1, Mapped
<1> HIDE DEF made, ids, tasks
<1>15. /\ DOMAIN root = Fields /\ root.symbols = table /\ root.parent = 0 /\ root.of = 0
  BY DEF Fields
<1> HIDE DEF root, n
<1>16. /\ Sequential(scopes) /\ Len(scopes) = n + 1 /\ DOMAIN scopes = 1 .. n + 1
       /\ scopes[1] = root /\ \A k \in 1 .. n : scopes[k + 1] = made[k]
  <2> DEFINE one == <<root>>
  <2>1. Sequential(one) /\ Len(one) = 1 /\ one[1] = root
    BY Single
  <2>2. scopes = one \o made
    BY <1>1
  <2> HIDE DEF one
  <2>3. /\ Sequential(scopes) /\ Len(scopes) = 1 + n /\ DOMAIN scopes = 1 .. 1 + n
        /\ \A i \in 1 .. 1 + n : scopes[i] = IF i <= 1 THEN one[i] ELSE made[i - 1]
    <3>1. /\ Sequential(one \o made) /\ Len(one \o made) = Len(one) + Len(made)
          /\ DOMAIN (one \o made) = 1 .. Len(one) + Len(made)
          /\ \A i \in 1 .. Len(one) + Len(made) :
               (one \o made)[i] = IF i <= Len(one) THEN one[i] ELSE made[i - Len(one)]
      BY <1>12, <2>1, Pushed
    <3> QED  BY <1>12, <2>1, <2>2, <3>1
  <2>4. ASSUME NEW k \in 1 .. n PROVE scopes[k + 1] = made[k]
    <3>1. k + 1 \in 1 .. 1 + n /\ ~(k + 1 <= 1) /\ (k + 1) - 1 = k
      BY <1>11
    <3> QED  BY <2>3, <3>1
  <2>5. 1 \in 1 .. 1 + n
    BY <1>11
  <2> QED  BY <1>11, <2>1, <2>3, <2>4, <2>5
<1>17. Bears(table, origin, Len(scopes))
  <2>1. ASSUME NEW x \in DOMAIN table
        PROVE  /\ table[x].id \in 0 .. Len(origin) - 1 /\ origin[table[x].id + 1].name = x
               /\ table[x].scope \in 0 .. Len(scopes)
    <3>1. PICK k \in DOMAIN names : names[k] = x /\ table[x] = Symbol(k - 1, k + 1)
      BY <1>6, <1>7
    <3>2. table[x].id = k - 1 /\ table[x].scope = k + 1
      BY <3>1 DEF Symbol
    <3>3. origin[k].name = x
      BY <1>1, <1>9, <3>1
    <3>4. (k - 1) + 1 = k /\ k - 1 \in 0 .. n - 1 /\ k + 1 \in 0 .. n + 1
      BY <1>11
    <3> QED  BY <1>1, <1>13, <1>16, <3>2, <3>3, <3>4
  <2> QED  BY <2>1 DEF Bears
<1>18. ASSUME NEW s \in DOMAIN scopes
       PROVE  DOMAIN scopes[s] = Fields /\ scopes[s].parent = 0 /\ scopes[s].symbols = table
  <2>1. CASE s = 1
    BY <1>15, <1>16, <2>1
  <2>2. CASE s # 1
    <3>1. s - 1 \in 1 .. n /\ (s - 1) + 1 = s
      BY <1>11, <1>16, <2>2
    <3>2. scopes[s] = made[s - 1]
      BY <1>16, <3>1
    <3>3. scopes[s] = [symbols |-> table, parent |-> 0, of |-> IndexOf(docs, names[s - 1])]
      BY <1>8, <1>11, <3>1, <3>2
    <3> QED  BY <3>3 DEF Fields
  <2> QED  BY <2>1, <2>2
<1>19. Scoped(scopes, origin, Len(scopes))
  <2>1. ASSUME NEW s \in DOMAIN scopes
        PROVE  /\ DOMAIN scopes[s] = Fields /\ scopes[s].parent \in 0 .. s - 1
               /\ scopes[s].parent # NoParent => scopes[scopes[s].parent].of = scopes[s].of
               /\ Bears(scopes[s].symbols, origin, Len(scopes))
    <3>1. 0 \in 0 .. s - 1
      BY <1>11, <1>16
    <3> QED  BY <1>17, <1>18, <3>1 DEF NoParent
  <2> QED  BY <1>16, <2>1 DEF Scoped
<1>20. Listed(sources) /\ Sequential(origin)
  <2>1. \A i \in DOMAIN docs : docs[i] \in OnDisk
    BY <1>2, ElementOfSeq, LenProperties
  <2> QED  BY <1>1, <1>2, <1>13, <2>1 DEF Listed, Sequential
<1>21. Marked(defIds, origin, sources)
  <2>1. DOMAIN defIds = {}
    BY <1>1
  <2> QED  BY <2>1 DEF Marked
<1>22. ASSUME NEW i \in DOMAIN work
       PROVE  TaskOK(work[i], scopes, sources) /\ work[i].do = "document"
  <2> DEFINE t == work[i]
             x == order[i]
             d == IndexOf(docs, x)
             node == Files[docs[d]]
  <2>1. i \in DOMAIN order
    BY <1>1, <1>14
  <2>2. x \in ModuleNames(docs)
    BY <1>4, <2>1, LenProperties, ElementOfSeq
  <2>3. d \in DOMAIN docs /\ docs[d] \in OnDisk
    BY <1>5, <2>2
  <2>4. PICK k \in DOMAIN names : names[k] = x /\ table[x] = Symbol(k - 1, k + 1)
    BY <1>3, <1>6, <2>2
  <2>5. t = [do |-> "document", node |-> node, scope |-> table[x].scope, source |-> d]
    BY <1>1, <1>10, <2>1
  <2>6. node \in Parts[docs[d]] /\ IsNode(node)
    BY <2>3, FilesAssumption DEF OnDisk, IsNode
  <2>7. table[x].scope = k + 1
    BY <2>4 DEF Symbol
  <2> HIDE DEF t, node
  <2>8. t.do = "document" /\ t.node = node /\ t.scope = k + 1 /\ t.source = d
    BY <2>5, <2>7
  <2>9. k + 1 \in DOMAIN scopes /\ scopes[k + 1].of = d
    <3>1. k \in 1 .. n /\ k + 1 \in 1 .. n + 1
      BY <1>11
    <3>2. scopes[k + 1] = [symbols |-> table, parent |-> 0, of |-> IndexOf(docs, names[k])]
      BY <1>8, <1>16, <3>1
    <3>3. scopes[k + 1].of = IndexOf(docs, names[k])
      BY <3>2
    <3> QED  BY <1>16, <2>4, <3>1, <3>3
  <2>10. TaskOK(t, scopes, sources)
    <3> HIDE DEF d, x
    <3> QED  BY <1>1, <2>3, <2>6, <2>8, <2>9 DEF TaskOK, Walking, Listing, Others
  <2> QED  BY <2>8, <2>10 DEF t
<1>23. Stack(work, scopes, sources)
  <2>1. Sequential(work)
    BY <1>1, <1>14
  <2>2. \A i \in DOMAIN work : i + 1 \in DOMAIN work => Follows(work[i], work[i + 1], scopes)
    BY <1>22 DEF Follows
  <2> QED  BY <1>22, <2>1, <2>2 DEF Stack, Chain
<1>24. AtHead(work, Here)
  <2>1. work # <<>> => 1 \in DOMAIN work
    BY <1>1, <1>14, Places
  <2> HIDE DEF Here
  <2> QED  BY <1>22, <2>1 DEF AtHead
<1> QED  BY <1>19, <1>20, <1>21, <1>23, <1>24 DEF Consistent, Tables

-----------------------------------------------------------------------------
(* The theorems *)

LEMMA BeginsConsistent == Init => Consistent
  BY BeginsWithFile, BeginsWithDocuments, AnalysisAssumption DEF Init

LEMMA StaysConsistent == Consistent /\ [Next]_<<vars, documents>> => Consistent'
<1> SUFFICES ASSUME Consistent, [Next]_<<vars, documents>> PROVE Consistent'
  OBVIOUS
<1>1. ASSUME UseIdent PROVE Consistent'
  BY <1>1, KeepsUseIdent
<1>2. ASSUME resolve_children PROVE Consistent'
  BY <1>2, KeepsChildren
<1>3. ASSUME resolve_impl_block PROVE Consistent'
  BY <1>3, KeepsImpl
<1>4. ASSUME WalkMember PROVE Consistent'
  BY <1>4, KeepsMember
<1>5. ASSUME resolve_block PROVE Consistent'
  BY <1>5, KeepsBlock
<1>6. ASSUME PopScope PROVE Consistent'
  BY <1>6, KeepsPop
<1>7. ASSUME resolve_forge_decl PROVE Consistent'
  BY <1>7, KeepsForge
<1>8. ASSUME resolve_param PROVE Consistent'
  BY <1>8, KeepsParam
<1>9. ASSUME resolve_ward_decl PROVE Consistent'
  BY <1>9, KeepsWard
<1>10. ASSUME BeginDecl PROVE Consistent'
  BY <1>10, KeepsBeginDecl
<1>11. ASSUME resolve_named_decl PROVE Consistent'
  BY <1>11, KeepsNamed
<1>12. ASSUME resolve_let_stmt PROVE Consistent'
  BY <1>12, KeepsLet
<1>13. ASSUME PatternChild PROVE Consistent'
  BY <1>13, KeepsPattern
<1>14. ASSUME EndPattern \/ EndDecl PROVE Consistent'
  BY <1>14, KeepsEnd
<1>15. ASSUME resolve_draw_decl PROVE Consistent'
  BY <1>15, KeepsBeginDraw
<1>16. ASSUME DrawKnown PROVE Consistent'
  BY <1>16, KeepsDrawKnown
<1>17. ASSUME DrawWithoutLoading PROVE Consistent'
  BY <1>17, KeepsDrawWithoutLoading
<1>18. ASSUME LoadModule PROVE Consistent'
  BY <1>18, KeepsLoad
<1>19. ASSUME EndLoad PROVE Consistent'
  BY <1>19, KeepsEndLoad
<1>20. ASSUME MergeDrawn PROVE Consistent'
  BY <1>20, KeepsMergeDrawn
<1>21. ASSUME BeginDocument PROVE Consistent'
  BY <1>21, KeepsDocument
<1>22. ASSUME UNCHANGED <<vars, documents>> PROVE Consistent'
  <2>1. UNCHANGED <<scopes, current, base, work, defIds, origin, sources>>
    BY <1>22 DEF vars
  <2> QED  BY <2>1 DEF Consistent, Here
<1> QED
  BY <1>1, <1>2, <1>3, <1>4, <1>5, <1>6, <1>7, <1>8, <1>9, <1>10, <1>11, <1>12, <1>13, <1>14,
     <1>15, <1>16, <1>17, <1>18, <1>19, <1>20, <1>21, <1>22 DEF Next, Analyze, Walk

LEMMA AlwaysConsistent == Spec => []Consistent
<1>1. Init => Consistent
  BY BeginsConsistent
<1>2. Consistent /\ [Next]_<<vars, documents>> => Consistent'
  BY StaysConsistent
<1> QED  BY <1>1, <1>2, PTL DEF Spec

\* Head(work).do is not "document": the walk is inside of one.
LEMMA InsideOne == ASSUME Consistent, OnTheWay PROVE Here = Head(work).here /\ scopes[current].of = Source
<1>1. work # <<>> /\ Head(work).do # "document"
  BY DEF OnTheWay
<1> QED  BY <1>1, AtWork

\* However wards, blocks, forges and draws are nested, in whatever files, drawing each other
\* in any way, each name is sought from where it stands in its file: resolve_block,
\* resolve_forge_decl, resolve_ward_decl and load_module leave current_scope and base_path
\* as they found them, and no scope of a file stands within a scope of another.
THEOREM SoughtInPlace == Spec => []NamesAreSoughtInPlace
<1>1. Consistent => NamesAreSoughtInPlace
  <2> SUFFICES ASSUME Consistent PROVE NamesAreSoughtInPlace
    OBVIOUS
  <2>1. \A s \in DOMAIN scopes : scopes[s].parent # NoParent => scopes[scopes[s].parent].of = scopes[s].of
    BY DEF Consistent, Tables, Scoped
  <2>2. OnTheWay => Here = Head(work).here /\ scopes[current].of = Source
    BY InsideOne
  <2> QED  BY <2>1, <2>2 DEF NamesAreSoughtInPlace
<1> QED  BY <1>1, AlwaysConsistent, PTL

\* Whatever is declared, entered and merged on the way, and however many files count ids,
\* what an identifier stands for (def_ids) bears the name of the identifier.
THEOREM UsesBear == Spec => []UsesBearTheName
<1>1. Consistent => UsesBearTheName
  BY DEF Consistent, Tables, Marked, UsesBearTheName
<1> QED  BY <1>1, AlwaysConsistent, PTL

=============================================================================
