------------------------------ MODULE Induction ------------------------------
(***************************************************************************)
(* What the proofs about folds and recursive functions rest on: a set of   *)
(* numbers or of finite sets has a least element, and a function defined   *)
(* by recursion over either exists.                                        *)
(***************************************************************************)
EXTENDS Integers, FiniteSets, FiniteSetTheorems, WellFoundedInduction, NaturalsInduction, TLAPS

\* The least element of a set of numbers: who shows that it cannot be there has shown
\* that the set is empty, which is induction without a predicate as a parameter.
LEMMA LeastOf ==
    ASSUME NEW T \in SUBSET Nat, T # {}
    PROVE  \E x \in T : \A y \in T : x <= y
<1> DEFINE less == {pair \in Nat \X Nat : pair[1] < pair[2]}
<1>1. IsWellFoundedOn(less, Nat)
  BY NatLessThanWellFounded DEF OpToRel
<1> HIDE DEF less
<1>2. PICK x \in T : \A y \in T : <<y, x>> \notin less
  BY <1>1, WFMin
<1>3. \A y \in T : ~(y < x)
  BY <1>2 DEF less
<1> QED
  BY <1>3

LEMMA GreatestOf ==
    ASSUME NEW n \in Nat, NEW T \in SUBSET (0 .. n), T # {}
    PROVE  \E x \in T : \A y \in T : y <= x
<1> DEFINE below == {n - y : y \in T}
<1>1. below \in SUBSET Nat /\ below # {}
  <2>1. \A y \in T : n - y \in Nat
    OBVIOUS
  <2> QED
    BY <2>1
<1>2. PICK least \in below : \A z \in below : least <= z
  BY <1>1, LeastOf
<1>3. PICK x \in T : least = n - x
  BY <1>2
<1>4. ASSUME NEW y \in T PROVE y <= x
  BY <1>2, <1>3, n - y \in below
<1> QED
  BY <1>4

LEMMA SmallestOf ==
    ASSUME NEW S, IsFiniteSet(S), NEW T \in SUBSET (SUBSET S), T # {}
    PROVE  \E x \in T : \A y \in T : Cardinality(y) >= Cardinality(x)
<1> DEFINE sizes == {Cardinality(x) : x \in T}
<1>1. \A x \in T : IsFiniteSet(x) /\ Cardinality(x) \in Nat
  BY FS_Subset, FS_CardinalityType
<1>2. PICK least \in sizes : \A z \in sizes : least <= z
  <2>1. sizes \in SUBSET Nat /\ sizes # {}
    BY <1>1
  <2> HIDE DEF sizes
  <2> QED
    BY <2>1, LeastOf
<1>3. PICK x \in T : least = Cardinality(x)
  BY <1>2
<1>4. ASSUME NEW y \in T PROVE Cardinality(y) >= Cardinality(x)
  BY <1>1, <1>2, <1>3, Cardinality(y) \in sizes
<1> QED
  BY <1>4

\* A function defined by recursion over the numbers up to N.
Iterable(N, D, base, step) == N \in Nat /\ base \in D /\ step \in [D -> D]
Iterated(N, D, base, step, g) ==
    /\ g \in [0 .. N -> D]
    /\ \A n \in 0 .. N : g[n] = IF n = 0 THEN base ELSE step[g[n - 1]]

LEMMA RecursionOnNumbers ==
    ASSUME NEW N, NEW D, NEW base, NEW step, Iterable(N, D, base, step)
    PROVE  \E g : Iterated(N, D, base, step, g)
<1> USE DEF Iterable
<1> DEFINE Is(g, m) == /\ g \in [0 .. m -> D] /\ g[0] = base
                       /\ \A n \in 1 .. m : g[n] = step[g[n - 1]]
           bad == {m \in Nat : ~ \E g : Is(g, m)}
<1>1. ASSUME bad # {} PROVE FALSE
  <2>1. PICK m \in bad : \A k \in bad : m <= k
    <3>1. bad \in SUBSET Nat
      OBVIOUS
    <3> HIDE DEF bad
    <3> QED
      BY <1>1, <3>1, LeastOf
  <2>2. CASE m = 0
    <3>1. Is([n \in 0 .. 0 |-> base], 0)
      OBVIOUS
    <3> QED
      BY <2>1, <2>2, <3>1
  <2>3. CASE m # 0
    <3>1. m \in Nat /\ m - 1 \in Nat /\ m - 1 \notin bad
      <4>1. m \in Nat
        BY <2>1
      <4> HIDE DEF bad
      <4> QED
        BY <2>1, <2>3, <4>1
    <3>2. PICK g : Is(g, m - 1)
      BY <3>1
    <3>3. PICK h : h = [n \in 0 .. m |-> IF n = m THEN step[g[m - 1]] ELSE g[n]]
      OBVIOUS
    <3>4. g[m - 1] \in D
      BY <3>1, <3>2
    <3>5. h \in [0 .. m -> D]
      <4> SUFFICES ASSUME NEW n \in 0 .. m, n # m PROVE g[n] \in D
        BY <3>3, <3>4
      <4>1. n \in 0 .. m - 1
        BY <3>1
      <4> QED
        BY <3>2, <4>1
    <3>6. h[0] = base
      BY <2>3, <3>1, <3>2, <3>3
    <3>7. ASSUME NEW n \in 1 .. m PROVE h[n] = step[h[n - 1]]
      <4>1. CASE n = m
        BY <3>3, <3>1, <4>1
      <4>2. CASE n # m
        <5>1. n \in 1 .. m - 1 /\ n \in 0 .. m /\ n - 1 \in 0 .. m /\ n - 1 # m
          BY <3>1, <4>2
        <5>2. h[n] = g[n] /\ h[n - 1] = g[n - 1]
          BY <3>3, <4>2, <5>1
        <5> QED
          BY <3>2, <5>1, <5>2
      <4> QED
        BY <4>1, <4>2
    <3>8. Is(h, m)
      BY <3>5, <3>6, <3>7
    <3> QED
      BY <2>1, <3>8
  <2> QED
    BY <2>2, <2>3
<1>2. PICK g : Is(g, N)
  BY <1>1
<1> QED
  BY <1>2 DEF Iterated

\* Induction, over the numbers up to N and over the subsets of S that are left when an
\* element is taken away: what holds is a set, not a predicate.
LEMMA NumbersReached ==
    ASSUME NEW N \in Nat, NEW holds, 0 \in holds,
           \A n \in 1 .. N : n - 1 \in holds => n \in holds
    PROVE  0 .. N \subseteq holds
<1> DEFINE bad == {n \in 0 .. N : n \notin holds}
<1>1. ASSUME bad # {} PROVE FALSE
  <2>1. PICK m \in bad : \A k \in bad : m <= k
    <3>1. bad \in SUBSET Nat
      OBVIOUS
    <3> HIDE DEF bad
    <3> QED
      BY <1>1, <3>1, LeastOf
  <2>2. m \in 1 .. N /\ m - 1 \in 0 .. N
    BY <2>1
  <2>3. m - 1 \notin bad
    <3> HIDE DEF bad
    <3> QED
      BY <2>1, <2>2
  <2> QED
    BY <2>1, <2>2, <2>3
<1> QED
  BY <1>1

\* Recursion over the numbers up to N where what a step does is of its place.
StepsOver(N, D, base, step) == N \in Nat /\ base \in D /\ step \in [1 .. N -> [D -> D]]
SteppedOver(N, D, base, step, g) ==
    /\ g \in [0 .. N -> D] /\ g[0] = base
    /\ \A n \in 1 .. N : g[n] = step[n][g[n - 1]]
LEMMA RecursionOverPlaces ==
    ASSUME NEW N, NEW D, NEW base, NEW step, StepsOver(N, D, base, step)
    PROVE  \E g : SteppedOver(N, D, base, step, g)
<1> USE DEF StepsOver
<1>1. PICK E : E = (0 .. N) \X D
  OBVIOUS
<1>2. PICK move : move = [p \in E |-> IF p[1] < N THEN <<p[1] + 1, step[p[1] + 1][p[2]]>> ELSE p]
  OBVIOUS
<1>3. ASSUME NEW p \in E PROVE move[p] \in E
  <2>1. p[1] \in 0 .. N /\ p[2] \in D
    BY <1>1
  <2>2. CASE p[1] < N
    <3>1. p[1] + 1 \in 1 .. N /\ p[1] + 1 \in 0 .. N
      BY <2>1, <2>2
    <3>2. step[p[1] + 1][p[2]] \in D
      BY <2>1, <3>1
    <3>3. move[p] = <<p[1] + 1, step[p[1] + 1][p[2]]>>
      BY <1>2, <2>2
    <3> QED
      BY <1>1, <3>1, <3>2, <3>3
  <2>3. CASE ~(p[1] < N)
    BY <1>2, <2>3
  <2> QED
    BY <2>2, <2>3
<1>4. <<0, base>> \in E /\ move \in [E -> E]
  BY <1>1, <1>2, <1>3
<1>5. PICK h : Iterated(N, E, <<0, base>>, move, h)
  BY <1>4, RecursionOnNumbers DEF Iterable
<1>6. PICK holds : holds = {n \in 0 .. N : h[n][1] = n}
  OBVIOUS
<1>7. \A n \in 0 .. N : h[n] \in E
  BY <1>5 DEF Iterated
<1>8. h[0] = <<0, base>>
  BY <1>5 DEF Iterated
<1>9. ASSUME NEW n \in 1 .. N, h[n - 1][1] = n - 1
      PROVE  h[n] = <<n, step[n][h[n - 1][2]]>>
  <2>1. n - 1 \in 0 .. N /\ n \in 0 .. N /\ n # 0 /\ n - 1 < N /\ (n - 1) + 1 = n
    OBVIOUS
  <2>2. h[n] = move[h[n - 1]] /\ h[n - 1] \in E
    BY <1>5, <1>7, <2>1 DEF Iterated
  <2> QED
    BY <1>2, <1>9, <2>1, <2>2
<1>10. 0 .. N \subseteq holds
  <2>1. 0 \in holds
    BY <1>6, <1>8
  <2>2. ASSUME NEW n \in 1 .. N, n - 1 \in holds PROVE n \in holds
    <3>1. h[n - 1][1] = n - 1 /\ n \in 0 .. N
      BY <1>6, <2>2
    <3> QED
      BY <1>6, <1>9, <3>1
  <2> QED
    BY <2>1, <2>2, NumbersReached
<1>11. PICK g : g = [n \in 0 .. N |-> h[n][2]]
  OBVIOUS
<1>12. g \in [0 .. N -> D]
  BY <1>1, <1>7, <1>11
<1>13. g[0] = base
  BY <1>8, <1>11
<1>14. ASSUME NEW n \in 1 .. N PROVE g[n] = step[n][g[n - 1]]
  <2>1. n - 1 \in 0 .. N /\ n \in 0 .. N
    OBVIOUS
  <2>2. h[n - 1][1] = n - 1
    BY <1>6, <1>10, <2>1
  <2>3. h[n] = <<n, step[n][h[n - 1][2]]>>
    BY <1>9, <2>2
  <2> QED
    BY <1>11, <2>1, <2>3
<1> QED
  BY <1>12, <1>13, <1>14 DEF SteppedOver

LEMMA SetsReached ==
    ASSUME NEW S, IsFiniteSet(S), NEW pick,
           \A s \in SUBSET S : s # {} => pick[s] \in s,
           NEW holds, {} \in holds,
           \A s \in SUBSET S : s # {} /\ s \ {pick[s]} \in holds => s \in holds
    PROVE  SUBSET S \subseteq holds
<1> DEFINE bad == {s \in SUBSET S : s \notin holds}
<1>1. ASSUME bad # {} PROVE FALSE
  <2>1. PICK s \in bad : \A t \in bad : Cardinality(t) >= Cardinality(s)
    <3>1. bad \in SUBSET (SUBSET S)
      OBVIOUS
    <3> HIDE DEF bad
    <3> QED
      BY <1>1, <3>1, SmallestOf
  <2>2. s # {} /\ s \in SUBSET S /\ pick[s] \in s /\ s \ {pick[s]} \in SUBSET S
    BY <2>1
  <2>3. IsFiniteSet(s) /\ Cardinality(s) \in Nat
    BY <2>2, FS_Subset, FS_CardinalityType
  <2>4. Cardinality(s \ {pick[s]}) = Cardinality(s) - 1
    BY <2>2, <2>3, FS_RemoveElement
  <2>5. s \ {pick[s]} \notin bad
    <3> HIDE DEF bad
    <3> QED
      BY <2>1, <2>3, <2>4
  <2> QED
    BY <2>1, <2>2, <2>5
<1> QED
  BY <1>1

\* A fold is a function defined by recursion over the subsets of a finite set: an element
\* is picked, and the step for it taken from what the others came to.
Foldable(S, pick, D, base, step) ==
    /\ IsFiniteSet(S) /\ base \in D /\ step \in [S -> [D -> D]]
    /\ \A s \in SUBSET S : s # {} => pick[s] \in s
FoldsTo(S, pick, D, base, step, g) ==
    /\ g \in [SUBSET S -> D]
    /\ \A s \in SUBSET S : g[s] = IF s = {} THEN base ELSE step[pick[s]][g[s \ {pick[s]}]]

LEMMA RecursionOnSets ==
    ASSUME NEW S, NEW pick, NEW D, NEW base, NEW step, Foldable(S, pick, D, base, step)
    PROVE  \E g : FoldsTo(S, pick, D, base, step, g)
<1> USE DEF Foldable
<1> DEFINE Small(m) == {s \in SUBSET S : Cardinality(s) <= m}
           Is(g, m) == /\ g \in [Small(m) -> D]
                       /\ \A s \in Small(m) :
                             g[s] = IF s = {} THEN base ELSE step[pick[s]][g[s \ {pick[s]}]]
<1>1. \A s \in SUBSET S : IsFiniteSet(s) /\ Cardinality(s) \in Nat
  BY FS_Subset, FS_CardinalityType
<1>2. ASSUME NEW s \in SUBSET S, s # {}
      PROVE  /\ s \ {pick[s]} \in SUBSET S
             /\ Cardinality(s \ {pick[s]}) = Cardinality(s) - 1
  BY <1>1, <1>2, FS_RemoveElement
<1>3. Small(0) = {{}}
  <2>1. \A s \in SUBSET S : Cardinality(s) = 0 <=> s = {}
    BY <1>1, FS_EmptySet
  <2>2. \A s \in SUBSET S : Cardinality(s) <= 0 <=> Cardinality(s) = 0
    BY <1>1
  <2> QED
    BY <2>1, <2>2
<1>4. \E g : Is(g, 0)
  <2>1. Is([s \in Small(0) |-> base], 0)
    BY <1>3
  <2> QED
    BY <2>1
<1>5. ASSUME NEW m \in Nat, m # 0, NEW g, Is(g, m - 1) PROVE \E h : Is(h, m)
  <2>1. PICK h : h = [s \in Small(m) |->
                        IF s \in Small(m - 1) THEN g[s] ELSE step[pick[s]][g[s \ {pick[s]}]]]
    OBVIOUS
  <2>2. ASSUME NEW s \in Small(m), s # {}
        PROVE  /\ s \ {pick[s]} \in Small(m - 1) /\ s \ {pick[s]} \in Small(m)
               /\ g[s \ {pick[s]}] \in D /\ pick[s] \in S
    <3>1. Cardinality(s \ {pick[s]}) = Cardinality(s) - 1 /\ Cardinality(s) \in Nat
      BY <1>1, <1>2, <2>2
    <3>2. s \ {pick[s]} \in Small(m - 1) /\ s \ {pick[s]} \in Small(m)
      BY <3>1, <1>5
    <3> QED
      BY <1>5, <2>2, <3>2
  <2>3. {} \in Small(m - 1)
    BY <1>5, FS_EmptySet
  <2>4. h \in [Small(m) -> D]
    <3> SUFFICES ASSUME NEW s \in Small(m) PROVE h[s] \in D
      BY <2>1
    <3>1. CASE s \in Small(m - 1)
      BY <1>5, <2>1, <3>1
    <3>2. CASE s \notin Small(m - 1)
      <4>1. s # {}
        BY <2>3, <3>2
      <4>2. g[s \ {pick[s]}] \in D /\ step[pick[s]] \in [D -> D]
        BY <2>2, <4>1
      <4> QED
        BY <2>1, <3>2, <4>2
    <3> QED
      BY <3>1, <3>2
  <2>5. ASSUME NEW s \in Small(m)
        PROVE  h[s] = IF s = {} THEN base ELSE step[pick[s]][h[s \ {pick[s]}]]
    <3>1. CASE s = {}
      BY <1>5, <2>1, <2>3, <3>1
    <3>2. CASE s # {}
      <4>1. h[s \ {pick[s]}] = g[s \ {pick[s]}]
        BY <2>1, <2>2, <3>2
      <4>2. h[s] = step[pick[s]][g[s \ {pick[s]}]]
        BY <1>5, <2>1, <3>2
      <4> QED
        BY <3>2, <4>1, <4>2
    <3> QED
      BY <3>1, <3>2
  <2> QED
    BY <2>4, <2>5
<1>6. PICK N \in Nat : N = Cardinality(S)
  BY FS_CardinalityType
<1>7. Small(N) = SUBSET S
  BY <1>6, FS_Subset
<1>8. PICK g : Is(g, N)
  <2> DEFINE holds == {m \in Nat : \E g : Is(g, m)}
  <2> HIDE DEF Is
  <2>1. 0 \in holds
    BY <1>4
  <2>2. ASSUME NEW n \in 1 .. N, n - 1 \in holds PROVE n \in holds
    <3>1. n \in Nat /\ n # 0 /\ \E g : Is(g, n - 1)
      BY <2>2
    <3>2. \E g : Is(g, n)
      BY <1>5, <3>1
    <3> QED
      BY <3>1, <3>2
  <2>3. 0 .. N \subseteq holds
    <3> HIDE DEF holds
    <3> QED
      BY <2>1, <2>2, NumbersReached
  <2>4. N \in holds
    <3> HIDE DEF holds
    <3> QED
      BY <2>3
  <2> QED
    BY <2>4
<1>9. /\ g \in [SUBSET S -> D]
      /\ \A s \in SUBSET S :
            g[s] = IF s = {} THEN base ELSE step[pick[s]][g[s \ {pick[s]}]]
  <2> HIDE DEF Small
  <2> QED
    BY <1>7, <1>8
<1> QED
  BY <1>9 DEF FoldsTo
=============================================================================
