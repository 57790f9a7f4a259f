-------------------------- MODULE IterationTheorems --------------------------
(***************************************************************************)
(* Facts about iteration over the natural numbers that the proofs of the   *)
(* other modules keep needing.  Induction is stated over sets (a property  *)
(* P(n) is the set of the n that have it), never over operators, so that   *)
(* every backend can instantiate the lemmas.                               *)
(***************************************************************************)
EXTENDS Naturals, FiniteSets, WellFoundedInduction, FiniteSetTheorems, TLAPS

\* Every non-empty set of naturals has a least element.
LEMMA LeastNatural ==
  ASSUME NEW S, S \subseteq Nat, S # {}
  PROVE  \E n \in S : \A k \in S : n <= k
<1> DEFINE R == OpToRel(<, Nat)
<1>1. IsWellFoundedOn(R, Nat)
  BY NatLessThanWellFounded
<1>2. \A p : p \in R <=> \E i, j \in Nat : p = <<i, j>> /\ i < j
  BY DEF OpToRel
<1> HIDE DEF R
<1>3. PICK n \in S : \A k \in S : ~(<<k, n>> \in R)
  BY <1>1, WFMin
<1>4. \A k \in S : <<k, n>> \in R <=> k < n
  BY <1>2
<1>5. ASSUME NEW k \in S PROVE n <= k
  <2>1. k \in Nat /\ n \in Nat
    OBVIOUS
  <2>2. ~(k < n)
    BY <1>3, <1>4
  <2> QED  BY <2>1, <2>2
<1> QED  BY <1>5

\* A set that holds every number whose predecessors it holds, holds all of them.
LEMMA StrongInduction ==
  ASSUME NEW S, \A n \in Nat : (\A k \in 0 .. n - 1 : k \in S) => n \in S
  PROVE  Nat \subseteq S
<1> SUFFICES ASSUME Nat \ S # {} PROVE FALSE
  OBVIOUS
<1>1. PICK n \in Nat \ S : \A k \in Nat \ S : n <= k
  BY LeastNatural
<1>2. \A k \in 0 .. n - 1 : k \in S
  BY <1>1
<1> QED  BY <1>2

\* The same from one number to the next, up to a bound.
LEMMA BoundedInduction ==
  ASSUME NEW m \in Nat, NEW S, 0 \in S, \A k \in 1 .. m : k - 1 \in S => k \in S
  PROVE  0 .. m \subseteq S
<1> DEFINE T == {n \in Nat : n <= m => n \in S}
<1>1. ASSUME NEW n \in Nat, \A k \in 0 .. n - 1 : k \in T
      PROVE  n \in T
  <2>1. CASE n = 0
    BY <2>1
  <2>2. CASE n # 0
    <3>1. n - 1 \in 0 .. n - 1
      BY <2>2
    <3>2. n - 1 \in T
      BY <1>1, <3>1
    <3> QED  BY <3>2, <2>2
  <2> QED  BY <2>1, <2>2
<1>2. Nat \subseteq T
  <2> HIDE DEF T
  <2> QED  BY <1>1, StrongInduction
<1> QED  BY <1>2

-----------------------------------------------------------------------------
(* Iterating a function *)

\* g lists what m applications of step make of base.
Iterates(g, m, base, step) == g[0] = base /\ \A k \in 1 .. m : g[k] = step[g[k - 1]]

\* step turns subsets of P into subsets of P and only adds to them.
Adds(step, P) == step \in [SUBSET P -> SUBSET P] /\ \A X \in SUBSET P : X \subseteq step[X]

\* Steps from inside C stay inside C.
Keeps(step, C) == \A X \in SUBSET C : step[X] \subseteq C

\* g lists what m applications of step make of start, as long as they stay within P.
IteratesIn(P, g, m, start, step) ==
  g[0] = start /\ \A k \in 1 .. m : g[k - 1] \subseteq P => g[k] = step[g[k - 1]]

\* R is the least set that holds start and that a step adds nothing to.
LeastClosed(R, P, start, step) ==
  /\ start \subseteq R /\ R \subseteq P
  /\ step[R] = R
  /\ \A C : start \subseteq C /\ Keeps(step, C) => R \subseteq C

\* An iteration of a function from a set to itself exists for every length.
LEMMA IterationExists ==
  ASSUME NEW m \in Nat, NEW S, NEW base \in S, NEW step \in [S -> S]
  PROVE  \E g : g \in [0 .. m -> S] /\ Iterates(g, m, base, step)
<1> DEFINE T == {n \in Nat : \E g : g \in [0 .. n -> S] /\ Iterates(g, n, base, step)}
<1>1. 0 \in T
  <2> DEFINE g == [k \in 0 .. 0 |-> base]
  <2>1. g \in [0 .. 0 -> S] /\ Iterates(g, 0, base, step)
    BY DEF Iterates
  <2> HIDE DEF g
  <2> QED  BY <2>1
<1>2. ASSUME NEW n \in 1 .. m, n - 1 \in T
      PROVE  n \in T
  <2>1. PICK g \in [0 .. n - 1 -> S] : Iterates(g, n - 1, base, step)
    BY <1>2
  <2> DEFINE h == [k \in 0 .. n |-> IF k = n THEN step[g[n - 1]] ELSE g[k]]
  <2>2. g[n - 1] \in S /\ n \in Nat /\ n # 0
    OBVIOUS
  <2>3. h \in [0 .. n -> S] /\ h[0] = base
    BY <2>1, <2>2 DEF Iterates
  <2>4. ASSUME NEW k \in 1 .. n PROVE h[k] = step[h[k - 1]]
    <3>1. CASE k = n
      BY <3>1, <2>2
    <3>2. CASE k # n
      <4>1. k \in 1 .. n - 1 /\ k - 1 \in 0 .. n /\ k - 1 # n
        BY <3>2
      <4> QED  BY <2>1, <4>1, <3>2 DEF Iterates
    <3> QED  BY <3>1, <3>2
  <2>5. Iterates(h, n, base, step)
    BY <2>3, <2>4 DEF Iterates
  <2> HIDE DEF h
  <2> QED  BY <2>2, <2>3, <2>5
<1>3. m \in T
  <2> HIDE DEF T
  <2>1. 0 .. m \subseteq T
    BY <1>1, <1>2, BoundedInduction
  <2> QED  BY <2>1
<1> QED  BY <1>3

\* Iterating a function that only adds to sets of a finite universe has reached a fixed
\* point after as many steps as the universe has elements.
LEMMA IterationReachesFixpoint ==
  ASSUME NEW P, IsFiniteSet(P), NEW m \in Nat, Cardinality(P) <= m,
         NEW step, Adds(step, P),
         NEW g, \A k \in 0 .. m : g[k] \in SUBSET P, \A k \in 1 .. m : g[k] = step[g[k - 1]]
  PROVE  step[g[m]] = g[m]
<1> USE DEF Adds
<1> SUFFICES ASSUME step[g[m]] # g[m] PROVE FALSE
  OBVIOUS
<1>1. \A k \in 0 .. m : step[g[k]] # g[k]
  <2> SUFFICES ASSUME NEW k \in 0 .. m, step[g[k]] = g[k] PROVE FALSE
    OBVIOUS
  <2> DEFINE T == {n \in Nat : n >= k => g[n] = g[k]}
  <2>1. 0 \in T
    OBVIOUS
  <2>2. ASSUME NEW n \in 1 .. m, n - 1 \in T PROVE n \in T
    <3>1. CASE n <= k
      BY <3>1
    <3>2. CASE n > k
      BY <2>2, <3>2
    <3> QED  BY <3>1, <3>2
  <2>3. m \in T
    <3> HIDE DEF T
    <3>1. 0 .. m \subseteq T
      BY <2>1, <2>2, BoundedInduction
    <3> QED  BY <3>1
  <2> QED  BY <2>3
<1> DEFINE T == {n \in Nat : Cardinality(g[n]) >= n}
<1>2. \A X \in SUBSET P : IsFiniteSet(X) /\ Cardinality(X) \in Nat /\ Cardinality(X) <= m
  BY FS_Subset, FS_CardinalityType
<1>3. \A X \in SUBSET P : step[X] # X => Cardinality(step[X]) >= Cardinality(X) + 1
  <2> TAKE X \in SUBSET P
  <2> HAVE step[X] # X
  <2>1. /\ IsFiniteSet(step[X]) /\ X \in SUBSET step[X]
        /\ Cardinality(step[X]) \in Nat /\ Cardinality(X) \in Nat
    BY <1>2
  <2>2. Cardinality(X) <= Cardinality(step[X]) /\ Cardinality(X) # Cardinality(step[X])
    BY <2>1, FS_Subset
  <2> QED  BY <2>1, <2>2
<1>4. 0 \in T
  BY <1>2
<1>5. ASSUME NEW n \in 1 .. m, n - 1 \in T PROVE n \in T
  <2>1. g[n] = step[g[n - 1]] /\ g[n - 1] \in SUBSET P /\ n - 1 \in 0 .. m
    OBVIOUS
  <2>2. Cardinality(g[n]) >= Cardinality(g[n - 1]) + 1
    BY <1>1, <1>3, <2>1
  <2>3. Cardinality(g[n - 1]) \in Nat /\ Cardinality(g[n]) \in Nat
    BY <1>2, <2>1
  <2>4. Cardinality(g[n - 1]) >= n - 1
    BY <1>5
  <2> QED  BY <2>2, <2>3, <2>4
<1>6. Cardinality(g[m]) >= m
  <2> HIDE DEF T
  <2>1. 0 .. m \subseteq T
    BY <1>4, <1>5, BoundedInduction
  <2>2. m \in T
    BY <2>1
  <2> QED  BY <2>2 DEF T
<1>7. g[m] \in SUBSET P /\ step[g[m]] \in SUBSET P
  OBVIOUS
<1>8. Cardinality(step[g[m]]) >= m + 1
  <2>1. Cardinality(step[g[m]]) >= Cardinality(g[m]) + 1
    BY <1>1, <1>3, <1>7
  <2> QED  BY <1>2, <1>6, <1>7, <2>1
<1> QED  BY <1>2, <1>7, <1>8

\* What such an iteration has reached is the least set that holds the start and is
\* closed under the step.
LEMMA IterationIsLeastClosed ==
  ASSUME NEW P, IsFiniteSet(P), NEW m \in Nat, Cardinality(P) <= m,
         NEW start, start \subseteq P, NEW step, Adds(step, P),
         NEW g, IteratesIn(P, g, m, start, step)
  PROVE  LeastClosed(g[m], P, start, step)
<1> USE DEF IteratesIn
<1> DEFINE T == {k \in Nat : g[k] \subseteq P /\ start \subseteq g[k]}
<1>1. 0 \in T
  OBVIOUS
<1>2. ASSUME NEW k \in 1 .. m, k - 1 \in T PROVE k \in T
  <2>1. g[k - 1] \subseteq P /\ start \subseteq g[k - 1]
    BY <1>2
  <2>2. g[k] = step[g[k - 1]] /\ g[k - 1] \subseteq step[g[k - 1]] /\ step[g[k - 1]] \subseteq P
    BY <2>1 DEF Adds
  <2> QED  BY <2>1, <2>2
<1>3. \A k \in 0 .. m : g[k] \subseteq P /\ start \subseteq g[k]
  <2>1. 0 .. m \subseteq T
    <3> HIDE DEF T
    <3> QED  BY <1>1, <1>2, BoundedInduction
  <2> QED  BY <2>1
<1>4. \A k \in 1 .. m : g[k] = step[g[k - 1]]
  <2> TAKE k \in 1 .. m
  <2>1. g[k - 1] \subseteq P
    BY <1>3
  <2> QED  BY <2>1
<1>5. step[g[m]] = g[m]
  <2>1. \A k \in 0 .. m : g[k] \in SUBSET P
    BY <1>3
  <2> QED  BY <1>4, <2>1, IterationReachesFixpoint
<1>6. ASSUME NEW C, start \subseteq C, Keeps(step, C)
      PROVE  g[m] \subseteq C
  <2> DEFINE U == {k \in Nat : g[k] \subseteq C}
  <2>1. 0 \in U
    BY <1>6
  <2>2. ASSUME NEW k \in 1 .. m, k - 1 \in U PROVE k \in U
    <3>1. step[g[k - 1]] \subseteq C
      BY <1>6, <2>2 DEF Keeps
    <3> QED  BY <3>1, <1>4
  <2>3. 0 .. m \subseteq U
    <3> HIDE DEF U
    <3> QED  BY <2>1, <2>2, BoundedInduction
  <2> QED  BY <2>3
<1>7. g[m] \subseteq P /\ start \subseteq g[m]
  BY <1>3
<1> QED  BY <1>5, <1>6, <1>7 DEF LeastClosed

-----------------------------------------------------------------------------
(* Functions that jump on, from every argument that is no stop to one of   *)
(* lower rank, until a stop gives the value                                *)

\* Every argument of D is a stop with a value in V, or leads on to one of lower rank.
LeadsDown(D, m, rank, stop, next, val, V) ==
  /\ m \in Nat /\ rank \in [D -> 0 .. m]
  /\ \A x \in D : IF x \in stop THEN val[x] \in V
                  ELSE next[x] \in D /\ rank[next[x]] < rank[x]

Jumps(g, D, stop, next, val) == \A x \in D : g[x] = IF x \in stop THEN val[x] ELSE g[next[x]]

\* There is such a function.
LEMMA JumpsExist ==
  ASSUME NEW D, NEW m, NEW rank, NEW stop, NEW next, NEW val, NEW V,
         LeadsDown(D, m, rank, stop, next, val, V)
  PROVE  \E g \in [D -> V] : Jumps(g, D, stop, next, val)
<1> DEFINE Low(k) == {x \in D : rank[x] < k}
           T == {k \in Nat : \E g \in [Low(k) -> V] : Jumps(g, Low(k), stop, next, val)}
<1>1. /\ m \in Nat /\ \A x \in D : rank[x] \in 0 .. m
      /\ \A x \in D : IF x \in stop THEN val[x] \in V
                      ELSE next[x] \in D /\ rank[next[x]] < rank[x]
  BY DEF LeadsDown
<1>2. 0 \in T
  <2>1. Low(0) = {}
    BY <1>1
  <2>2. [x \in {} |-> 0] \in [Low(0) -> V] /\ Jumps([x \in {} |-> 0], Low(0), stop, next, val)
    BY <2>1 DEF Jumps
  <2> QED  BY <2>2
<1>3. ASSUME NEW k \in 1 .. m + 1, k - 1 \in T PROVE k \in T
  <2>1. PICK g \in [Low(k - 1) -> V] : Jumps(g, Low(k - 1), stop, next, val)
    BY <1>3
  <2> DEFINE h == [x \in Low(k) |-> IF x \in stop THEN val[x] ELSE g[next[x]]]
  <2>2. /\ \A x \in Low(k) : x \notin stop => next[x] \in Low(k - 1)
        /\ Low(k - 1) \subseteq Low(k)
    <3> SUFFICES ASSUME NEW x \in D
                 PROVE  /\ rank[x] < k /\ x \notin stop => rank[next[x]] < k - 1 /\ next[x] \in D
                        /\ rank[x] < k - 1 => rank[x] < k
      OBVIOUS
    <3>1. k \in Nat /\ rank[x] \in Nat /\ (x \notin stop => next[x] \in D /\ rank[next[x]] \in Nat /\ rank[next[x]] < rank[x])
      BY <1>1
    <3> QED  BY <3>1
  <2> HIDE DEF Low
  <2>3. \A x \in Low(k) : x \in stop => val[x] \in V
    BY <1>1 DEF Low
  <2>4. h \in [Low(k) -> V] /\ \A x \in Low(k) : h[x] = IF x \in stop THEN val[x] ELSE g[next[x]]
    BY <2>1, <2>2, <2>3
  <2>5. \A y \in Low(k - 1) : h[y] = g[y]
    BY <2>1, <2>2, <2>4 DEF Jumps
  <2>6. Jumps(h, Low(k), stop, next, val)
    BY <2>2, <2>4, <2>5 DEF Jumps
  <2> HIDE DEF h
  <2> QED  BY <2>4, <2>6
<1>4. m + 1 \in T
  <2> HIDE DEF T
  <2>1. 0 .. m + 1 \subseteq T
    BY <1>1, <1>2, <1>3, BoundedInduction
  <2> QED  BY <1>1, <2>1
<1>5. Low(m + 1) = D
  <2>1. \A x \in D : rank[x] < m + 1
    BY <1>1
  <2> QED  BY <2>1
<1> HIDE DEF Low
<1> QED  BY <1>4, <1>5

\* Every function defined that way takes its values where the stops do.
LEMMA JumpsStay ==
  ASSUME NEW D, NEW m, NEW rank, NEW stop, NEW next, NEW val, NEW V,
         LeadsDown(D, m, rank, stop, next, val, V), NEW g, Jumps(g, D, stop, next, val)
  PROVE  \A x \in D : g[x] \in V
<1> DEFINE T == {k \in Nat : \A x \in D : rank[x] = k => g[x] \in V}
<1>1. /\ \A x \in D : rank[x] \in 0 .. m
      /\ \A x \in D : IF x \in stop THEN val[x] \in V
                      ELSE next[x] \in D /\ rank[next[x]] < rank[x]
      /\ m \in Nat
  BY DEF LeadsDown
<1>2. ASSUME NEW n \in Nat, \A k \in 0 .. n - 1 : k \in T PROVE n \in T
  <2> SUFFICES ASSUME NEW x \in D, rank[x] = n PROVE g[x] \in V
    OBVIOUS
  <2>1. CASE x \in stop
    BY <1>1, <2>1 DEF Jumps
  <2>2. CASE x \notin stop
    <3>1. next[x] \in D /\ rank[next[x]] \in 0 .. n - 1
      BY <1>1, <2>2
    <3>2. g[next[x]] \in V
      BY <1>2, <3>1
    <3> QED  BY <2>2, <3>2 DEF Jumps
  <2> QED  BY <2>1, <2>2
<1>3. Nat \subseteq T
  <2> HIDE DEF T
  <2> QED  BY <1>2, StrongInduction
<1> QED  BY <1>1, <1>3

=============================================================================
