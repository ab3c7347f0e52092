--------------------------- MODULE WorkflowProofs ---------------------------
(***************************************************************************)
(* For every set of files and every bound: a workflow keeps StepPromise,   *)
(* and starts children only while its run may go on.                       *)
(***************************************************************************)
EXTENDS WorkflowRun, Induction, TLAPS

\* What the refinement needs to know of a state: the steps of the file have a status.
Shape == status \in [Ids(file) -> {"none", "ok", "failed", "skipped"}]

\* Every step of a run leaves the statuses with the shape of the file.
LEMMA ShapeKept == Shape /\ [Next]_vars => Shape'
<1> SUFFICES ASSUME Shape, [Next]_vars PROVE Shape'
    OBVIOUS
<1> USE DEF Shape, Ids
<1>1. CASE Refuse \/ Confirm \/ Finish
    BY <1>1 DEF Refuse, Confirm, Finish, RunVars
<1>2. CASE Interrupt
    BY <1>2 DEF Interrupt, RunVars
<1>3. CASE Wave
  <2>1. file' = file
      BY <1>3 DEF Wave
  <2>2. PICK run : status' = [i \in Ids(file) |->
                       IF i \in Blocked \cup (Ready \ run) THEN "skipped" ELSE status[i]]
      BY <1>3 DEF Wave
  <2> QED
      BY <2>1, <2>2
<1>4. CASE Launch
    BY <1>4 DEF Launch
<1>5. ASSUME NEW t \in 1 .. Len(tasks), ChildEnds(t) PROVE Shape'
    BY <1>5 DEF ChildEnds, RunVars
<1>6. CASE Gather
    BY <1>6 DEF Gather
<1>7. CASE Fold
  <2>1. file' = file /\ status' = [i \in Ids(file) |-> IF i \in Ready THEN Folded(i) ELSE status[i]]
      BY <1>7 DEF Fold
  <2>2. \A i \in Ids(file) : Folded(i) \in {"none", "ok", "failed", "skipped"}
      BY DEF Folded
  <2> QED
      BY <2>1, <2>2
<1>8. CASE Again
    BY <1>8 DEF Again
<1>9. CASE UNCHANGED vars
    BY <1>9 DEF vars
<1> QED
    BY <1>1, <1>2, <1>3, <1>4, <1>5, <1>6, <1>7, <1>8, <1>9 DEF Next

\* Every step of a run settles steps as the promise allows, starts the next run, or
\* leaves the statuses as they are.
LEMMA StepKept ==
    Shape /\ [Next]_vars => [Promise!Settle \/ Promise!Again]_(<<[i \in Ids(file) |-> Needs(file, i)], status>>)
<1> SUFFICES ASSUME Shape, [Next]_vars
             PROVE  \/ Promise!Settle \/ Promise!Again
                    \/ UNCHANGED <<[i \in Ids(file) |-> Needs(file, i)], status>>
    OBVIOUS
<1>same. ASSUME file' = file, status' = status
         PROVE  UNCHANGED <<[i \in Ids(file) |-> Needs(file, i)], status>>
    BY <1>same
<1>1. CASE Refuse \/ Confirm \/ Finish
    BY <1>same, <1>1 DEF Refuse, Confirm, Finish, RunVars
<1>2. CASE Interrupt
    BY <1>same, <1>2 DEF Interrupt, RunVars
<1>3. CASE Wave
  <2>1. file' = file
      BY <1>3 DEF Wave
  <2>2. PICK run : status' = [i \in Ids(file) |->
                       IF i \in Blocked \cup (Ready \ run) THEN "skipped" ELSE status[i]]
      BY <1>3 DEF Wave
  <2>3. \A i \in Blocked \cup Ready : status[i] = "none"
      BY DEF Blocked, Ready, Unsettled
  <2>4. DOMAIN status = Ids(file) /\ DOMAIN status' = Ids(file)
      BY <2>2 DEF Shape
  <2>5. \A i \in Ids(file) : status'[i] = status[i] \/ (status[i] = "none" /\ status'[i] = "skipped")
      BY <2>2, <2>3
  <2>6. Promise!Settle
      BY <2>1, <2>4, <2>5 DEF Promise!Settle, Promise!MaySettle
  <2> QED
      BY <2>6
<1>4. CASE Launch
    BY <1>same, <1>4 DEF Launch
<1>5. ASSUME NEW t \in 1 .. Len(tasks), ChildEnds(t)
      PROVE  UNCHANGED <<[i \in Ids(file) |-> Needs(file, i)], status>>
    BY <1>same, <1>5 DEF ChildEnds, RunVars
<1>6. CASE Gather
    BY <1>same, <1>6 DEF Gather
<1>7. CASE Fold
  <2>1. file' = file /\ status' = [i \in Ids(file) |-> IF i \in Ready THEN Folded(i) ELSE status[i]]
      BY <1>7 DEF Fold
  <2>2. \A i \in Ids(file) : Folded(i) \in {"ok", "failed", "skipped"}
      BY DEF Folded
  <2>3. \A i \in Ready : i \in Ids(file) /\ status[i] = "none"
                         /\ \A n \in Needs(file, i) : status[n] = "ok"
      BY DEF Ready, Unsettled
  <2>4. DOMAIN status = Ids(file) /\ DOMAIN status' = Ids(file)
      BY <2>1 DEF Shape
  <2>5. ASSUME NEW i \in DOMAIN status
        PROVE  \/ status'[i] = status[i]
               \/ status[i] = "none" /\ Promise!MaySettle(i, status'[i])
    <3>1. CASE i \in Ready
        BY <3>1, <2>1, <2>2, <2>3 DEF Promise!MaySettle
    <3>2. CASE i \notin Ready
        BY <3>2, <2>1, <2>4
    <3> QED
        BY <3>1, <3>2
  <2>6. Promise!Settle
      BY <2>1, <2>4, <2>5 DEF Promise!Settle
  <2> QED
      BY <2>6
<1>8. CASE Again
  <2>1. PICK w \in Files : file' = w /\ status' = [i \in Ids(w) |-> "none"]
      BY <1>8 DEF Again
  <2>2. Promise!Again
      BY <2>1 DEF Promise!Again, Promise!None
  <2> QED
      BY <2>2
<1>9. CASE UNCHANGED vars
    BY <1>same, <1>9 DEF vars
<1> QED
    BY <1>1, <1>2, <1>3, <1>4, <1>5, <1>6, <1>7, <1>8, <1>9 DEF Next

\* A workflow settles each step once and runs none before what it needs has answered,
\* for every file, every width and every budget (workflow.rs run, next_wave).
THEOREM PromiseKept == Spec => KeepsPromise
<1>1. Init => Shape
    BY DEF Init, Fresh, Shape
<1>2. Shape /\ [Next]_vars => Shape'
    BY ShapeKept
<1>3. Init => Promise!Init
    BY DEF Init, Fresh, Promise!Init, Promise!None
<1>4. Shape /\ [Next]_vars => [Promise!Settle \/ Promise!Again]_(<<[i \in Ids(file) |-> Needs(file, i)], status>>)
    BY StepKept
<1> QED
    BY <1>1, <1>2, <1>3, <1>4, PTL DEF Spec, KeepsPromise, Promise!Spec

-----------------------------------------------------------------------------
(* Children are started only while the run may go on.  The invariant says  *)
(* what each place of run knows: where children may be out and what they   *)
(* were weighed against, that the steps of a wave still stand on answers,  *)
(* that a failure that stops has stopped, and that what ran in a run with  *)
(* a warm cache is of the wave that is on.                                 *)

FlowTypes ==
    /\ file \in Files /\ Accepted(file)
    /\ Shape
    /\ text \in [Ids(file) -> SUBSET (Nat \X Values)]
    /\ tasks \in Seq([step : Ids(file), item : Nat])
    /\ pos \in Nat
    /\ DOMAIN outcome = 1 .. Len(tasks)
    /\ \A t \in 1 .. Len(tasks) : outcome[t].value \in Values
    /\ launched \subseteq 1 .. Len(tasks)
    /\ DOMAIN answer = launched
    /\ \A t \in launched : answer[t].value \in Values /\ answer[t].cost \in 0 .. MaxCost
    /\ spent \in Nat /\ worst \in 0 .. MaxCost
    /\ ran \subseteq Ids(file)
OutInChunks ==
    /\ phase # "children" => launched = {}
    /\ phase \notin {"chunk", "children"} => tasks = <<>> /\ ~missed
    /\ phase = "children" => /\ ~stopped
                             /\ launched \subseteq Chunk
                             /\ spent + worst * Cardinality(Chunk) < file.budget
WaveReady == \A t \in 1 .. Len(tasks) : tasks[t].step \in Ready
OkClosed ==
    \A i \in Ids(file) : status[i] = "ok" => \A n \in Needs(file, i) : status[n] = "ok"
FailuresStop == FailedForGood => stopped
\* What was kept answers the step it was kept for.
StoreFits ==
    \A k \in DOMAIN store :
        /\ store[k].value \in Values
        /\ \E f \in Files : /\ f.cache /\ k.step \in Ids(f)
                            /\ f.steps[k.step].version = k.version
                            /\ Fits(f.steps[k.step], store[k].value)
WarmRuns ==
    file.cache /\ ~cold => /\ ~missed => ran = {}
                           /\ \A i \in ran : status[i] = "none"
FlowInv ==
    /\ FlowTypes /\ OutInChunks /\ WaveReady /\ OkClosed
    /\ FailuresStop /\ StoreFits /\ WarmRuns /\ WarmBehindWarm

-----------------------------------------------------------------------------
(* The recursive functions and the fold a wave is made with. *)

\* Sequences of one kind, laid end to end, are a sequence of that kind.
LEMMA FlattenIn ==
    ASSUME NEW T, NEW seqs \in Seq(Seq(T))
    PROVE  FlattenSeq(seqs) \in Seq(T)
<1>1. CASE Len(seqs) = 0
  BY <1>1, seqs = <<>> DEF FlattenSeq
<1>2. CASE Len(seqs) # 0
  <2>1. PICK last \in Nat : Len(seqs) = last + 1
    <3>1. Len(seqs) \in Nat /\ Len(seqs) - 1 \in Nat /\ Len(seqs) = (Len(seqs) - 1) + 1
      BY <1>2
    <3> QED
      BY <3>1
  <2>2. seqs \in [1 .. last + 1 -> Seq(T)]
    BY <2>1
  <2>3. PICK D : D = Nat \X Seq(T)
    OBVIOUS
  <2>4. PICK step : step = [d \in D |-> IF d[1] \in 1 .. last + 1
                                       THEN <<d[1] + 1, d[2] \o seqs[d[1]]>> ELSE d]
    OBVIOUS
  <2>5. PICK g : Iterated(last, D, <<2, seqs[1]>>, step, g)
    <3>1. <<2, seqs[1]>> \in D
      BY <2>2, <2>3
    <3>2. step \in [D -> D]
      <4> SUFFICES ASSUME NEW d \in D
                   PROVE  (IF d[1] \in 1 .. last + 1
                           THEN <<d[1] + 1, d[2] \o seqs[d[1]]>> ELSE d) \in D
        BY <2>4
      <4>1. PICK n \in Nat, s \in Seq(T) : d = <<n, s>>
        BY <2>3
      <4>2. ASSUME n \in 1 .. last + 1 PROVE s \o seqs[n] \in Seq(T)
        BY <2>2, <4>2
      <4>3. CASE n \in 1 .. last + 1
        <5>1. d[1] = n /\ d[2] = s /\ n + 1 \in Nat
          BY <4>1
        <5>2. <<n + 1, s \o seqs[n]>> \in D
          BY <2>3, <4>2, <4>3, <5>1
        <5> QED
          BY <4>3, <5>1, <5>2
      <4>4. CASE n \notin 1 .. last + 1
        BY <4>1, <4>4
      <4> QED
        BY <4>3, <4>4
    <3>3. Iterable(last, D, <<2, seqs[1]>>, step)
      BY <3>1, <3>2 DEF Iterable
    <3> QED
      BY <3>3, RecursionOnNumbers
  <2>6. \A n \in 0 .. last : g[n] \in D /\ g[n] = IF n = 0 THEN <<2, seqs[1]>> ELSE step[g[n - 1]]
    BY <2>5 DEF Iterated
  <2>7. PICK holds : holds = {n \in 0 .. last : g[n][1] = n + 2}
    OBVIOUS
  <2>8. 0 \in holds
    BY <2>6, <2>7
  <2>9. ASSUME NEW n \in 1 .. last, n - 1 \in holds
        PROVE  n \in holds /\ g[n] = <<n + 2, g[n - 1][2] \o seqs[n + 1]>>
    <3>1. n \in 0 .. last /\ n # 0 /\ n - 1 \in 0 .. last /\ n + 1 \in 1 .. last + 1
      OBVIOUS
    <3>2. g[n - 1] \in D /\ g[n - 1][1] = n + 1
      BY <2>6, <2>7, <2>9, <3>1
    <3>3. g[n] = step[g[n - 1]]
      BY <2>6, <3>1
    <3>4. PICK d \in D : d = g[n - 1] /\ d[1] = n + 1
      BY <3>2
    <3>5. step[d] = <<n + 2, d[2] \o seqs[n + 1]>>
      <4>1. (n + 1) + 1 = n + 2
        OBVIOUS
      <4>2. step[d] = <<d[1] + 1, d[2] \o seqs[d[1]]>>
        BY <2>4, <3>1, <3>4
      <4> QED
        BY <3>4, <4>1, <4>2
    <3>6. g[n] = <<n + 2, d[2] \o seqs[n + 1]>>
      BY <3>3, <3>4, <3>5
    <3> QED
      BY <2>7, <3>1, <3>4, <3>6
  <2>10. 0 .. last \subseteq holds
    BY <2>8, <2>9, NumbersReached
  <2>11. PICK flat : flat = [i \in 1 .. last + 1 |-> g[i - 1][2]]
    OBVIOUS
  <2> DEFINE Flat(f) == [i \in 1 .. Len(seqs) |->
                            IF i = 1 THEN seqs[i] ELSE f[i - 1] \o seqs[i]]
  <2>12. flat = Flat(flat)
    <3>1. flat[1] = seqs[1]
      BY <2>6, <2>11
    <3>2. ASSUME NEW i \in 1 .. last + 1, i # 1 PROVE flat[i] = flat[i - 1] \o seqs[i]
      <4>1. PICK n \in 1 .. last : i = n + 1
        <5>1. i - 1 \in 1 .. last /\ i = (i - 1) + 1
          BY <3>2
        <5> QED
          BY <5>1
      <4>2. n - 1 \in holds /\ i - 1 = n /\ n \in 1 .. last + 1
        BY <2>10, <4>1
      <4>3. flat[i] = g[n][2] /\ flat[i - 1] = g[n - 1][2]
        BY <2>11, <4>1, <4>2
      <4>4. g[n] = <<n + 2, g[n - 1][2] \o seqs[n + 1]>>
        BY <2>9, <4>1, <4>2
      <4>5. g[n][2] = g[n - 1][2] \o seqs[n + 1]
        <5>1. \A a, b : <<a, b>>[2] = b
          OBVIOUS
        <5> QED
          BY <4>4, <5>1, Zenon
      <4> QED
        BY <4>1, <4>2, <4>3, <4>5
    <3> QED
      BY <2>1, <2>11, <3>1, <3>2
  <2>13. FlattenSeq(seqs) = (CHOOSE f : f = Flat(f))[Len(seqs)]
    BY <1>2 DEF FlattenSeq
  <2>14. PICK f : FlattenSeq(seqs) = f[Len(seqs)] /\ f = Flat(f)
    <3> HIDE DEF Flat
    <3> QED
      BY <2>12, <2>13
  <2>15. f[1] = seqs[1] /\ \A n \in 1 .. last : f[n + 1] = f[n] \o seqs[n + 1]
    <3>1. ASSUME NEW n \in 1 .. last PROVE f[n + 1] = f[n] \o seqs[n + 1]
      <4>1. n + 1 \in 1 .. Len(seqs) /\ n + 1 # 1 /\ (n + 1) - 1 = n
        BY <2>1
      <4> QED
        BY <2>14, <4>1
    <3>2. 1 \in 1 .. Len(seqs)
      BY <2>1
    <3>3. f[1] = seqs[1]
      BY <2>14, <3>2
    <3> QED
      BY <3>1, <3>3
  <2>16. PICK good : good = {n \in 0 .. last : f[n + 1] \in Seq(T)}
    OBVIOUS
  <2>17. 0 \in good
    BY <2>2, <2>15, <2>16
  <2>18. ASSUME NEW n \in 1 .. last, n - 1 \in good PROVE n \in good
    <3>1. n + 1 \in 1 .. last + 1 /\ (n - 1) + 1 = n /\ n \in 0 .. last
      OBVIOUS
    <3>2. f[n] \in Seq(T) /\ seqs[n + 1] \in Seq(T)
      BY <2>2, <2>16, <2>18, <3>1
    <3>3. f[n + 1] = f[n] \o seqs[n + 1]
      BY <2>15
    <3>4. f[n] \o seqs[n + 1] \in Seq(T)
      BY <3>2
    <3> QED
      BY <2>16, <3>1, <3>3, <3>4
  <2>19. 0 .. last \subseteq good
    BY <2>17, <2>18, NumbersReached
  <2>20. last \in good
    BY <2>19
  <2>21. f[Len(seqs)] \in Seq(T)
    BY <2>1, <2>16, <2>20
  <2> QED
    BY <2>14, <2>21
<1> QED
  BY <1>1, <1>2

\* Everything an answered step stands on has answered.
LEMMA BelowSettled ==
    ASSUME file.steps \in Seq(Steps(Len(file.steps) + 1)), Shape, OkClosed,
           \A i \in Ids(file) : Needs(file, i) \subseteq Ids(file),
           NEW i \in Ids(file), \A n \in Needs(file, i) : status[n] = "ok"
    PROVE  \A n \in Below(file, i) : status[n] = "ok"
<1>1. PICK N \in Nat : N = Len(file.steps)
  OBVIOUS
<1>2. PICK D : D = SUBSET Ids(file)
  OBVIOUS
<1>3. PICK step : step = [d \in D |-> d \cup UNION {Needs(file, j) : j \in d}]
  OBVIOUS
<1>4. PICK g : Iterated(N, D, Needs(file, i), step, g)
  <2>1. step \in [D -> D]
    BY <1>2, <1>3
  <2>2. Iterable(N, D, Needs(file, i), step)
    BY <1>2, <2>1 DEF Iterable
  <2> QED
    BY <2>2, RecursionOnNumbers
<1> DEFINE Down(f) == [n \in 0 .. Len(file.steps) |->
                        IF n = 0 THEN Needs(file, i)
                        ELSE f[n - 1] \cup UNION {Needs(file, j) : j \in f[n - 1]}]
<1>5. g = Down(g)
  <2>1. ASSUME NEW n \in 0 .. N, n # 0
        PROVE  g[n] = g[n - 1] \cup UNION {Needs(file, j) : j \in g[n - 1]}
    <3>1. n - 1 \in 0 .. N
      BY <2>1
    <3>2. g[n] = step[g[n - 1]] /\ g[n - 1] \in D
      BY <1>4, <2>1, <3>1 DEF Iterated
    <3> QED
      BY <1>3, <3>2
  <2>2. g \in [0 .. N -> D] /\ g[0] = Needs(file, i)
    BY <1>4 DEF Iterated
  <2> QED
    BY <1>1, <2>1, <2>2
<1>6. PICK f : Below(file, i) = f[Len(file.steps)] /\ f = Down(f)
  <2>1. Below(file, i) = (CHOOSE f : f = Down(f))[Len(file.steps)]
    BY DEF Below
  <2> HIDE DEF Down
  <2> QED
    BY <1>5, <2>1
<1>7. PICK settled : settled = {j \in Ids(file) : status[j] = "ok"}
  OBVIOUS
<1>8. PICK holds : holds = {n \in 0 .. N : f[n] \subseteq settled}
  OBVIOUS
<1>9. 0 \in holds
  <2>1. f[0] = Needs(file, i)
    BY <1>1, <1>6
  <2> QED
    BY <1>7, <1>8, <2>1
<1>10. ASSUME NEW n \in 1 .. N, n - 1 \in holds PROVE n \in holds
  <2>1. n \in 0 .. N /\ n # 0
    OBVIOUS
  <2>2. f[n] = f[n - 1] \cup UNION {Needs(file, j) : j \in f[n - 1]}
    BY <1>1, <1>6, <2>1
  <2>3. \A j \in settled : Needs(file, j) \subseteq settled
    BY <1>7 DEF OkClosed
  <2> QED
    BY <1>8, <1>10, <2>1, <2>2, <2>3
<1>11. 0 .. N \subseteq holds
  BY <1>9, <1>10, NumbersReached
<1>12. f[N] \subseteq settled
  <2>1. N \in holds
    BY <1>11
  <2> QED
    BY <1>8, <2>1
<1> QED
  BY <1>1, <1>6, <1>7, <1>12

\* Together the children of a chunk cost no more than its size times the dearest.
LEMMA SumBound ==
    ASSUME NEW S, IsFiniteSet(S), NEW most \in Nat,
           \A t \in S : answer[t].cost \in Nat
    PROVE  /\ MapThenSumSet(LAMBDA t : answer[t].cost, S) \in Nat
           /\ (\A t \in S : answer[t].cost <= most)
                 => MapThenSumSet(LAMBDA t : answer[t].cost, S) <= most * Cardinality(S)
<1> DEFINE Summed(iter) ==
             [s \in SUBSET S |-> IF s = {} THEN 0
                ELSE LET x == CHOOSE x \in s : TRUE IN answer[x].cost + iter[s \ {x}]]
<1>1. PICK pick : pick = [s \in SUBSET S |-> CHOOSE x \in s : TRUE]
  OBVIOUS
<1>2. PICK step : step = [x \in S |-> [d \in Nat |-> answer[x].cost + d]]
  OBVIOUS
<1>3. \A s \in SUBSET S : s # {} => pick[s] \in s
  BY <1>1
<1>4. step \in [S -> [Nat -> Nat]]
  BY <1>2
<1>5. PICK g : FoldsTo(S, pick, Nat, 0, step, g)
  <2>1. Foldable(S, pick, Nat, 0, step)
    BY <1>3, <1>4 DEF Foldable
  <2> QED
    BY <2>1, RecursionOnSets
<1> USE DEF FoldsTo
<1>6. g = Summed(g)
  <2>1. ASSUME NEW s \in SUBSET S, s # {}
        PROVE  step[pick[s]][g[s \ {pick[s]}]] = answer[pick[s]].cost + g[s \ {pick[s]}]
    BY <1>2, <1>3, <1>5, <2>1
  <2> QED
    BY <1>1, <1>5, <2>1
<1>7. PICK iter : /\ MapThenSumSet(LAMBDA t : answer[t].cost, S) = iter[S]
                  /\ iter = Summed(iter)
  <2>1. MapThenSumSet(LAMBDA t : answer[t].cost, S) = (CHOOSE iter : iter = Summed(iter))[S]
    BY DEF MapThenSumSet, MapThenFoldSet
  <2> HIDE DEF Summed
  <2> QED
    BY <1>6, <2>1
<1>8. /\ iter[{}] = 0
      /\ \A s \in SUBSET S : s # {} => iter[s] = answer[pick[s]].cost + iter[s \ {pick[s]}]
  BY <1>1, <1>7
<1>9. PICK holds : holds = {s \in SUBSET S :
        /\ iter[s] \in Nat
        /\ (\A t \in S : answer[t].cost <= most) => iter[s] <= most * Cardinality(s)}
  OBVIOUS
<1>10. {} \in holds
  BY <1>8, <1>9, FS_EmptySet
<1>11. ASSUME NEW s \in SUBSET S, s # {}, s \ {pick[s]} \in holds PROVE s \in holds
  <2>1. PICK x \in S : x = pick[s] /\ x \in s
    BY <1>3, <1>11
  <2>2. PICK m \in Nat : Cardinality(s) = m + 1 /\ Cardinality(s \ {x}) = m
    <3>1. IsFiniteSet(s) /\ IsFiniteSet(s \ {x})
      BY FS_Subset, FS_RemoveElement
    <3>2. Cardinality(s) \in Nat /\ Cardinality(s \ {x}) \in Nat
      BY <3>1, FS_CardinalityType
    <3>3. Cardinality(s \ {x}) = Cardinality(s) - 1
      BY <2>1, <3>1, FS_RemoveElement
    <3> QED
      BY <3>2, <3>3
  <2>3. PICK a \in Nat, b \in Nat : a = answer[x].cost /\ b = iter[s \ {x}] /\ iter[s] = a + b
    BY <1>8, <1>9, <1>11, <2>1
  <2>4. ASSUME \A t \in S : answer[t].cost <= most PROVE a + b <= most * (m + 1)
    <3>1. a <= most /\ b <= most * m
      BY <1>9, <1>11, <2>1, <2>2, <2>3, <2>4
    <3> QED
      BY <3>1
  <2> QED
    BY <1>9, <2>2, <2>3, <2>4
<1>12. S \in holds
  <2>1. SUBSET S \subseteq holds
    BY <1>3, <1>10, <1>11, SetsReached
  <2> QED
    BY <2>1
<1>13. /\ iter[S] \in Nat
       /\ (\A t \in S : answer[t].cost <= most) => iter[S] <= most * Cardinality(S)
  BY <1>9, <1>12
<1> QED
  BY <1>7, <1>13

-----------------------------------------------------------------------------
(* The invariant, action by action. *)

\* What a file says is of its shape.
LEMMA FileFacts ==
    ASSUME FlowTypes
    PROVE  /\ file.steps \in Seq(Steps(Len(file.steps) + 1)) /\ Len(file.steps) \in Nat
           /\ file.parallel \in Nat \ {0} /\ file.fanout \in Nat \ {0} /\ file.budget \in Nat
           /\ \A i \in Ids(file) : Needs(file, i) \subseteq Ids(file)
<1>1. file \in Files /\ Accepted(file)
  BY DEF FlowTypes
<1>2. file.steps \in Seq(Steps(Len(file.steps) + 1))
  BY <1>1, FilesAssumption
<1> QED
  BY <1>1, <1>2, FilesAssumption DEF Accepted

LEMMA TaskFacts ==
    ASSUME FlowTypes
    PROVE  \A t \in 1 .. Len(tasks) : tasks[t].step \in Ids(file) /\ tasks[t].item \in Nat
<1>1. PICK placed : placed = [step : Ids(file), item : Nat]
  OBVIOUS
<1>2. tasks \in Seq(placed)
  BY <1>1 DEF FlowTypes
<1>3. \A t \in 1 .. Len(tasks) : tasks[t] \in placed
  BY <1>2
<1> QED
  BY <1>1, <1>3

LEMMA ChunkSize ==
    ASSUME FlowTypes
    PROVE  /\ IsFiniteSet(Chunk) /\ Cardinality(Chunk) \in Nat
           /\ Chunk \subseteq 1 .. Len(tasks)
<1>1. PICK a \in Int, b \in Int : Chunk = a .. b /\ 1 <= a /\ b <= Len(tasks)
  <2>1. file.parallel \in Nat /\ pos \in Nat /\ Len(tasks) \in Nat
    BY FileFacts DEF FlowTypes
  <2> QED
    BY <2>1 DEF Chunk
<1>2. IsFiniteSet(Chunk)
  BY <1>1, FS_Interval
<1>3. Chunk \subseteq 1 .. Len(tasks)
  BY <1>1
<1> QED
  BY <1>2, <1>3, FS_CardinalityType

\* An interrupt, and the ends of a run, leave the waves alone.
LEMMA RestsKeepFlow ==
    ASSUME FlowInv, UNCHANGED <<file, WaveVars, RunVars, store>>,
           \/ phase' = phase
           \/ phase \notin {"chunk", "children"} /\ phase' \notin {"chunk", "children"}
    PROVE  FlowInv'
<1> USE DEF FlowInv
<1>1. UNCHANGED <<file, tasks, pos, outcome, launched, answer, missed>>
  BY DEF WaveVars
<1>2. UNCHANGED <<status, text, spent, worst, stopped, cold, ran, store>>
  BY DEF RunVars
<1>3. FlowTypes'
  BY <1>1, <1>2 DEF FlowTypes, Shape
<1>4. OutInChunks'
  BY <1>1, <1>2 DEF OutInChunks, Chunk
<1>5. WaveReady' /\ OkClosed' /\ FailuresStop' /\ StoreFits' /\ WarmRuns' /\ WarmBehindWarm'
  BY <1>1, <1>2 DEF WaveReady, Ready, Unsettled, OkClosed, FailuresStop, FailedForGood, Step,
                    StoreFits, WarmRuns, WarmBehindWarm
<1> QED
  BY <1>3, <1>4, <1>5

LEMMA InitFlow == Init => FlowInv
<1> SUFFICES ASSUME Init PROVE FlowInv
  OBVIOUS
<1> USE DEF Init
<1>1. PICK w \in Files : Accepted(w) /\ Fresh(w)
  OBVIOUS
<1>2. file = w /\ status = [i \in Ids(w) |-> "none"] /\ text = [i \in Ids(w) |-> {}]
  BY <1>1 DEF Fresh
<1>3. Len(tasks) = 0 /\ DOMAIN outcome = {} /\ DOMAIN answer = {} /\ DOMAIN store = {}
  OBVIOUS
<1>4. FlowTypes
  <2>1. tasks \in Seq([step : Ids(file), item : Nat])
    OBVIOUS
  <2>2. DOMAIN outcome = 1 .. Len(tasks)
    BY <1>3
  <2> QED
    BY <1>1, <1>2, <1>3, <2>1, <2>2, BoundsAssumption DEF FlowTypes, Shape
<1>5. ~FailedForGood /\ OkClosed
  BY <1>2, <1>3 DEF FailedForGood, OkClosed
<1> QED
  BY <1>3, <1>4, <1>5 DEF FlowInv, OutInChunks, WaveReady, FailuresStop, StoreFits, WarmRuns,
                          WarmBehindWarm

LEMMA AgainKeepsFlow == FlowInv /\ Again => FlowInv'
<1> SUFFICES ASSUME FlowInv, Again PROVE FlowInv'
  OBVIOUS
<1>1. PICK w \in Files : /\ Accepted(w) /\ file' = w
                         /\ status' = [i \in Ids(w) |-> "none"]
                         /\ text' = [i \in Ids(w) |-> {}]
  BY DEF Again
<1>2. /\ phase \notin {"chunk", "children"} /\ phase' = "confirm"
      /\ spent' = 0 /\ worst' = 0 /\ ~stopped' /\ ~cold' /\ ran' = {}
      /\ UNCHANGED <<tasks, pos, outcome, launched, answer, missed, store>>
  BY DEF Again, WaveVars
<1>3. tasks = <<>> /\ launched = {} /\ ~missed
  BY <1>2 DEF FlowInv, OutInChunks
<1>4. FlowTypes'
  <2>1. tasks' \in Seq([step : Ids(file'), item : Nat])
    BY <1>2, <1>3
  <2> QED
    BY <1>1, <1>2, <1>3, <2>1, BoundsAssumption DEF FlowInv, FlowTypes, Shape
<1>5. Len(tasks') = 0
  BY <1>2, <1>3
<1>6. ~FailedForGood' /\ OkClosed'
  BY <1>1, <1>5 DEF FailedForGood, OkClosed
<1>7. StoreFits'
  BY <1>2 DEF FlowInv, StoreFits
<1> QED
  BY <1>2, <1>3, <1>4, <1>5, <1>6, <1>7 DEF FlowInv, OutInChunks, WaveReady, FailuresStop,
                                            WarmRuns, WarmBehindWarm

LEMMA ChildEndsKeepsFlow == FlowInv /\ (\E t \in 1 .. Len(tasks) : ChildEnds(t)) => FlowInv'
<1> SUFFICES ASSUME FlowInv, NEW t \in 1 .. Len(tasks), ChildEnds(t) PROVE FlowInv'
  OBVIOUS
<1>1. UNCHANGED <<file, phase, tasks, pos, outcome, launched, missed, store>>
  BY DEF ChildEnds
<1>2. UNCHANGED <<status, text, spent, worst, stopped, cold, ran>>
  BY DEF ChildEnds, RunVars
<1>3. PICK back : /\ answer' = [answer EXCEPT ![t] = back]
                  /\ back.value \in Values /\ back.cost \in 0 .. MaxCost
  <2>1. Says(file, tasks[t].step) \subseteq Values
    BY BoundsAssumption DEF Says, Values
  <2>2. 1 .. MaxCost \subseteq 0 .. MaxCost /\ 0 \in Values
    BY BoundsAssumption DEF Values
  <2>3. PICK cost \in 1 .. MaxCost :
          \E tag, value, cut :
             /\ value = 0 \/ value \in Says(file, tasks[t].step)
             /\ answer' = [answer EXCEPT ![t] =
                   [tag |-> tag, value |-> value, cost |-> cost, cut |-> cut]]
    BY Zenon DEF ChildEnds
  <2>4. PICK tag, value, cut :
             /\ value = 0 \/ value \in Says(file, tasks[t].step)
             /\ answer' = [answer EXCEPT ![t] =
                   [tag |-> tag, value |-> value, cost |-> cost, cut |-> cut]]
    BY <2>3
  <2>5. PICK back : back = [tag |-> tag, value |-> value, cost |-> cost, cut |-> cut]
    OBVIOUS
  <2>6. back.value \in Values /\ back.cost \in 0 .. MaxCost
    BY <2>1, <2>2, <2>4, <2>5
  <2> QED
    BY <2>4, <2>5, <2>6
<1>4. FlowTypes'
  BY <1>1, <1>2, <1>3 DEF FlowInv, FlowTypes, Shape
<1>5. OutInChunks'
  BY <1>1, <1>2 DEF FlowInv, OutInChunks, Chunk
<1>6. WaveReady' /\ OkClosed' /\ FailuresStop' /\ StoreFits' /\ WarmRuns' /\ WarmBehindWarm'
  BY <1>1, <1>2 DEF FlowInv, WaveReady, Ready, Unsettled, OkClosed, FailuresStop, FailedForGood,
                    Step, StoreFits, WarmRuns, WarmBehindWarm
<1> QED
  BY <1>4, <1>5, <1>6 DEF FlowInv

\* A wave holds steps that are ready, and they stay so until it is folded.
LEMMA WaveKeepsFlow == FlowInv /\ Wave => FlowInv'
<1> SUFFICES ASSUME FlowInv, Wave PROVE FlowInv'
  OBVIOUS
<1>0. FlowTypes /\ OutInChunks /\ OkClosed /\ FailuresStop /\ StoreFits /\ WarmRuns
  BY DEF FlowInv
<1>1. PICK run : /\ run = {i \in Ready : Opens(i)}
                 /\ status' = [i \in Ids(file) |->
                       IF i \in Blocked \cup (Ready \ run) THEN "skipped" ELSE status[i]]
                 /\ tasks' = FlattenSeq([i \in Ids(file) |-> IF i \in run THEN TasksOf(i) ELSE <<>>])
                 /\ outcome' = [t \in 1 .. Len(tasks') |-> Unknown]
  BY DEF Wave
<1>2. /\ phase = "wave" /\ phase' = "chunk"
      /\ pos' = 0 /\ launched' = {} /\ answer' = <<>> /\ ~missed'
      /\ UNCHANGED <<file, text, spent, worst, stopped, cold, cancel, store, runs, ran>>
  BY DEF Wave
<1>3. run \subseteq Ready /\ Ready \subseteq Ids(file)
  BY <1>1 DEF Ready, Unsettled
<1>4. \A i \in run : TasksOf(i) \in Seq([step : run, item : Nat])
  <2> SUFFICES ASSUME NEW i \in run PROVE TasksOf(i) \in Seq([step : run, item : Nat])
    OBVIOUS
  <2>1. CASE Step(i).over = 0
    BY <2>1 DEF TasksOf
  <2>2. CASE Step(i).over # 0
    <3>1. PICK over \in Ids(file) : over = Step(i).over
      <4>1. FansOut(file, i)
        BY <1>0, <1>3 DEF FlowTypes, Accepted
      <4> QED
        BY <2>2, <4>1 DEF FansOut, Step
    <3>2. Said(over) \in Nat
      <4>1. text[over] \in SUBSET (Nat \X Values)
        BY <1>0, <3>1 DEF FlowTypes
      <4>2. Values \subseteq Nat
        BY BoundsAssumption DEF Values
      <4>3. ASSUME text[over] # {} PROVE (CHOOSE one \in text[over] : TRUE) \in text[over]
        BY <4>3
      <4> QED
        BY <4>1, <4>2, <4>3 DEF Said
    <3>3. PICK most \in Nat : most = IF Said(over) < file.fanout THEN Said(over) ELSE file.fanout
      BY <1>0, <3>2, FileFacts
    <3>4. TasksOf(i) = [k \in 1 .. most |-> [step |-> i, item |-> k]]
      BY <2>2, <3>1, <3>3 DEF TasksOf
    <3> QED
      BY <3>4
  <2> QED
    BY <2>1, <2>2
<1>5. PICK T : T = [step : run, item : Nat]
  OBVIOUS
<1>6. PICK next \in Seq(T) : tasks' = next
  <2>1. PICK seqs : seqs = [i \in Ids(file) |-> IF i \in run THEN TasksOf(i) ELSE <<>>]
    OBVIOUS
  <2>2. PICK lists : lists = Seq(T)
    OBVIOUS
  <2>none. <<>> \in lists
    BY <2>2
  <2>3. \A i \in run : TasksOf(i) \in lists
    BY <1>4, <1>5, <2>2
  <2>4. seqs \in [Ids(file) -> lists]
    BY <2>1, <2>none, <2>3
  <2>5. PICK n \in Nat : Ids(file) = 1 .. n
    BY <1>0, FileFacts DEF Ids
  <2>6. seqs \in Seq(lists)
    BY <2>4, <2>5
  <2>7. FlattenSeq(seqs) \in Seq(T)
    BY <2>2, <2>6, FlattenIn
  <2> QED
    BY <1>1, <2>1, <2>7
<1>7. /\ \A t \in 1 .. Len(tasks') : tasks'[t].step \in run
      /\ tasks' \in Seq([step : Ids(file), item : Nat])
  <2>1. PICK n \in Nat : n = Len(next) /\ next \in [1 .. n -> T]
    OBVIOUS
  <2>2. PICK placed : placed = [step : Ids(file), item : Nat]
    OBVIOUS
  <2>3. T \subseteq placed /\ \A x \in T : x.step \in run
    BY <1>3, <1>5, <2>2
  <2>4. next \in Seq(placed)
    <3>1. next \in [1 .. n -> placed]
      BY <2>1, <2>3
    <3> QED
      BY <3>1
  <2>5. \A t \in 1 .. Len(next) : next[t].step \in run
    BY <2>1, <2>3
  <2> QED
    BY <1>6, <2>2, <2>4, <2>5
<1>8. Shape'
  BY <1>0, ShapeKept DEF FlowTypes, Next
<1>9. FlowTypes'
  <2>1. 0 \in Values /\ \A t \in 1 .. Len(tasks') : outcome'[t].value = 0
    BY <1>1, BoundsAssumption DEF Unknown, Values
  <2>2. Len(tasks') \in Nat /\ DOMAIN outcome' = 1 .. Len(tasks')
    BY <1>1, <1>7
  <2>3. DOMAIN answer' = {}
    BY <1>2
  <2> QED
    BY <1>0, <1>2, <1>7, <1>8, <2>1, <2>2, <2>3 DEF FlowTypes
<1>10. OutInChunks'
  BY <1>2 DEF OutInChunks
<1>11. Blocked \cap Ready = {} /\ \A i \in Blocked \cup Ready : status[i] = "none"
  <2>1. \A i \in Blocked : i \notin Ready
    BY DEF Blocked, Ready
  <2> QED
    BY <2>1 DEF Blocked, Ready, Unsettled
<1>12. /\ \A i \in Ids(file) : status[i] # "none" => status'[i] = status[i]
       /\ \A i \in run : status'[i] = "none"
       /\ \A i \in Ids(file) : status'[i] = status[i] \/ status'[i] = "skipped"
  BY <1>1, <1>3, <1>11
<1>13. WaveReady'
  <2>1. ASSUME NEW i \in run PROVE i \in Ready'
    <3>1. i \in Ids(file) /\ \A n \in Needs(file, i) : n \in Ids(file) /\ status[n] = "ok"
      BY <1>0, <1>3, FileFacts DEF Ready
    <3> QED
      BY <1>2, <1>12, <3>1 DEF Ready, Unsettled
  <2> QED
    BY <1>7, <2>1 DEF WaveReady
<1>14. OkClosed'
  <2> SUFFICES ASSUME NEW i \in Ids(file), status'[i] = "ok", NEW n \in Needs(file, i)
               PROVE  status'[n] = "ok"
    BY <1>2 DEF OkClosed
  <2>1. status[i] = "ok"
    BY <1>12
  <2>2. n \in Ids(file) /\ status[n] = "ok"
    BY <1>0, <2>1, FileFacts DEF OkClosed
  <2> QED
    BY <1>12, <2>2
<1>15. FailuresStop'
  <2>1. \A t \in 1 .. Len(tasks') : outcome'[t].tag = "none"
    BY <1>1 DEF Unknown
  <2>2. FailedForGood' => FailedForGood
    BY <1>2, <1>12, <2>1 DEF FailedForGood, Step
  <2> QED
    BY <1>0, <1>2, <2>2 DEF FailuresStop
<1>16. WarmRuns'
  <2>1. tasks = <<>> /\ ~missed
    BY <1>0, <1>2 DEF OutInChunks
  <2> QED
    BY <1>0, <1>2, <2>1 DEF WarmRuns
<1>17. WarmBehindWarm'
  <2>1. \A t \in 1 .. Len(tasks') : ~outcome'[t].cached
    BY <1>1 DEF Unknown
  <2> QED
    BY <2>1 DEF WarmBehindWarm
<1>18. StoreFits'
  BY <1>0, <1>2 DEF StoreFits
<1> QED
  BY <1>9, <1>10, <1>13, <1>14, <1>15, <1>16, <1>17, <1>18 DEF FlowInv

\* What a hit says is an answer of the shape the step asks for: it was kept for it.
LEMMA HitsFit ==
    ASSUME FlowTypes, StoreFits, NEW t \in 1 .. Len(tasks), file.cache, Key(t) \in DOMAIN store
    PROVE  /\ store[Key(t)].value \in Values
           /\ Fits(Step(tasks[t].step), store[Key(t)].value)
<1>1. PICK i \in Ids(file) : i = tasks[t].step
  BY TaskFacts
<1>2. Key(t).step = i /\ Key(t).version = file.steps[i].version
  BY <1>1 DEF Key, Step
<1>3. PICK f \in Files : /\ f.cache /\ i \in Ids(f)
                         /\ f.steps[i].version = file.steps[i].version
                         /\ Fits(f.steps[i], store[Key(t)].value)
  BY <1>2 DEF StoreFits
<1>4. i \in (DOMAIN f.steps) \cap (DOMAIN file.steps) /\ file \in Files
  <2>1. f.steps \in Seq(Steps(Len(f.steps) + 1)) /\ file.steps \in Seq(Steps(Len(file.steps) + 1))
    BY <1>3, FilesAssumption, FileFacts
  <2> QED
    BY <1>1, <1>3, <2>1, SMTT(30) DEF Ids, FlowTypes
<1>5. f.steps[i].json = file.steps[i].json
  BY <1>3, <1>4, VersionsAssumption
<1> QED
  BY <1>1, <1>3, <1>5 DEF Fits, Step, StoreFits

\* Children are launched for steps that have not ended; what was answered from the cache
\* stands on steps that had.
LEMMA LaunchKeepsFlow == FlowInv /\ Launch => FlowInv'
<1> SUFFICES ASSUME FlowInv, Launch PROVE FlowInv'
  OBVIOUS
<1>0. /\ FlowTypes /\ OutInChunks /\ WaveReady /\ OkClosed
      /\ FailuresStop /\ StoreFits /\ WarmRuns /\ WarmBehindWarm
  BY DEF FlowInv
<1>1. PICK hits, gone :
        /\ hits = IF Weighed(Chunk) \/ ~file.cache \/ cold THEN {}
                  ELSE {t \in Chunk : Key(t) \in DOMAIN store}
        /\ gone = IF Weighed(Chunk) THEN {} ELSE Chunk \ hits
        /\ stopped' = Weighed(Chunk)
        /\ outcome' = [t \in DOMAIN outcome |->
              IF t \notin Chunk THEN outcome[t]
              ELSE IF Weighed(Chunk) THEN [Unknown EXCEPT !.tag = "skipped"]
              ELSE IF t \in hits
                   THEN Answered(Step(tasks[t].step), store[Key(t)].value, TRUE)
              ELSE Unknown]
        /\ launched' = gone
        /\ answer' = [t \in gone |-> Running]
        /\ missed' = (missed \/ (file.cache /\ gone # {}))
        /\ ran' = ran \cup {tasks[t].step : t \in gone}
        /\ pos' = IF Weighed(Chunk) THEN pos + Cardinality(Chunk) ELSE pos
        /\ phase' = IF Weighed(Chunk) THEN "chunk" ELSE "children"
  BY DEF Launch
<1>2. UNCHANGED <<file, status, text, tasks, spent, worst, cold, cancel, store, runs>>
  BY DEF Launch
<1>3. /\ Chunk \subseteq 1 .. Len(tasks) /\ Cardinality(Chunk) \in Nat
      /\ gone \subseteq Chunk /\ hits \subseteq Chunk
  BY <1>0, <1>1, ChunkSize
<1>4. ASSUME NEW t \in hits
      PROVE  /\ file.cache /\ ~cold
             /\ store[Key(t)].value \in Values
             /\ Fits(Step(tasks[t].step), store[Key(t)].value)
  BY <1>0, <1>1, <1>3, <1>4, HitsFit
<1>5. ASSUME NEW t \in 1 .. Len(tasks)
      PROVE  /\ outcome'[t].value \in Values
             /\ outcome'[t].tag = "failed" => outcome[t].tag = "failed"
             /\ outcome'[t].cached => outcome[t].cached \/ t \in hits
  <2>1. t \in DOMAIN outcome /\ outcome[t].value \in Values /\ 0 \in Values
    BY <1>0, BoundsAssumption DEF FlowTypes, Values
  <2>2. CASE t \notin Chunk
    BY <1>1, <2>1, <2>2
  <2>3. CASE t \in hits
    <3>1. outcome'[t] = Answered(Step(tasks[t].step), store[Key(t)].value, TRUE)
      BY <1>1, <1>3, <2>1, <2>3
    <3> QED
      BY <1>4, <2>3, <3>1 DEF Answered
  <2>4. CASE t \in Chunk /\ t \notin hits
    <3>1. outcome'[t] = [Unknown EXCEPT !.tag = "skipped"] \/ outcome'[t] = Unknown
      BY <1>1, <2>1, <2>4
    <3> QED
      BY <2>1, <3>1 DEF Unknown
  <2> QED
    BY <2>2, <2>3, <2>4
<1>6. \A t \in gone : tasks[t].step \in Ids(file) /\ status[tasks[t].step] = "none"
  BY <1>0, <1>3 DEF WaveReady, Ready, Unsettled
<1>7. FlowTypes'
  <2>1. pos' \in Nat
    BY <1>0, <1>1, <1>3 DEF FlowTypes
  <2>2. DOMAIN answer' = launched' /\ \A t \in launched' :
                                         answer'[t].value \in Values /\ answer'[t].cost \in 0 .. MaxCost
    BY <1>1, BoundsAssumption DEF Running, Values
  <2>3. DOMAIN outcome' = 1 .. Len(tasks) /\ ran' \subseteq Ids(file)
    BY <1>0, <1>1, <1>6 DEF FlowTypes
  <2> QED
    BY <1>0, <1>1, <1>2, <1>3, <1>5, <2>1, <2>2, <2>3 DEF FlowTypes, Shape
<1>8. OutInChunks'
  <2>1. CASE Weighed(Chunk)
    BY <1>1, <2>1 DEF OutInChunks
  <2>2. CASE ~Weighed(Chunk)
    <3>1. spent + worst * Cardinality(Chunk) < file.budget
      <4>1. PICK most \in Nat : most = worst * Cardinality(Chunk)
        BY <1>0, <1>3, BoundsAssumption DEF FlowTypes
      <4>2. ~(spent + most >= file.budget)
        BY <2>2, <4>1 DEF Weighed
      <4>3. spent \in Nat /\ file.budget \in Nat
        BY <1>0, FileFacts DEF FlowTypes
      <4> QED
        BY <4>1, <4>2, <4>3
    <3>2. Chunk' = Chunk
      BY <1>1, <1>2, <2>2 DEF Chunk
    <3> QED
      BY <1>1, <1>2, <1>3, <2>2, <3>1, <3>2 DEF OutInChunks
  <2> QED
    BY <2>1, <2>2
<1>9. WaveReady' /\ OkClosed' /\ StoreFits'
  BY <1>0, <1>2 DEF WaveReady, Ready, Unsettled, OkClosed, StoreFits
<1>10. FailuresStop'
  <2>1. FailedForGood' => FailedForGood
    BY <1>2, <1>5 DEF FailedForGood, Step
  <2>2. stopped => Weighed(Chunk)
    BY DEF Weighed
  <2> QED
    BY <1>0, <1>1, <2>1, <2>2 DEF FailuresStop
<1>11. WarmRuns'
  BY <1>0, <1>1, <1>2, <1>6 DEF WarmRuns
<1>12. WarmBehindWarm'
  <2> SUFFICES ASSUME NEW t \in 1 .. Len(tasks), outcome'[t].cached,
                      NEW j \in Below(file, tasks[t].step), j \in ran'
               PROVE  FALSE
    BY <1>2 DEF WarmBehindWarm
  <2>1. status[j] = "ok"
    <3>1. tasks[t].step \in Ready
      BY <1>0 DEF WaveReady
    <3>2. /\ tasks[t].step \in Ids(file)
          /\ \A n \in Needs(file, tasks[t].step) : status[n] = "ok"
      BY <3>1 DEF Ready, Unsettled
    <3>3. /\ file.steps \in Seq(Steps(Len(file.steps) + 1)) /\ Shape
          /\ \A i \in Ids(file) : Needs(file, i) \subseteq Ids(file)
      BY <1>0, FileFacts DEF FlowTypes
    <3> QED
      BY <1>0, <3>2, <3>3, BelowSettled
  <2>2. j \in ran
    BY <1>1, <1>6, <2>1
  <2>3. CASE outcome[t].cached
    BY <1>0, <2>2, <2>3 DEF WarmBehindWarm
  <2>4. CASE t \in hits
    BY <1>0, <1>4, <2>1, <2>2, <2>4 DEF WarmRuns
  <2> QED
    BY <1>5, <2>3, <2>4
<1> QED
  BY <1>7, <1>8, <1>9, <1>10, <1>11, <1>12 DEF FlowInv

\* What the children of a chunk cost, together and the dearest of them.
LEMMA ChunkCosts ==
    ASSUME FlowTypes, phase = "children", OutInChunks
    PROVE  /\ MapThenSumSet(LAMBDA t : answer[t].cost, launched) \in Nat
           /\ (\A t \in launched : answer[t].cost <= worst)
                 => MapThenSumSet(LAMBDA t : answer[t].cost, launched) <= worst * Cardinality(Chunk)
           /\ Dearest \in 0 .. MaxCost
<1>1. /\ launched \subseteq Chunk /\ IsFiniteSet(Chunk) /\ worst \in Nat
      /\ \A t \in launched : answer[t].cost \in 0 .. MaxCost
  BY ChunkSize, BoundsAssumption DEF FlowTypes, OutInChunks
<1>2. IsFiniteSet(launched) /\ Cardinality(launched) <= Cardinality(Chunk)
  BY <1>1, FS_Subset
<1>3. \A t \in launched : answer[t].cost \in Nat
  BY <1>1, BoundsAssumption
<1>4. PICK sum : sum = MapThenSumSet(LAMBDA t : answer[t].cost, launched)
  OBVIOUS
<1>5. sum \in Nat /\ ((\A t \in launched : answer[t].cost <= worst) => sum <= worst * Cardinality(launched))
  BY <1>1, <1>2, <1>3, <1>4, SumBound
<1>6. worst * Cardinality(launched) <= worst * Cardinality(Chunk)
  <2>1. PICK a \in Nat, b \in Nat : a = Cardinality(launched) /\ b = Cardinality(Chunk) /\ a <= b
    BY <1>1, <1>2, FS_CardinalityType
  <2>2. worst * a <= worst * b
    BY <1>1, <2>1
  <2> QED
    BY <2>1, <2>2
<1>7. Dearest \in 0 .. MaxCost
  <2>1. PICK costs : costs = {worst} \cup {answer[t].cost : t \in launched}
    OBVIOUS
  <2>2. costs \in SUBSET (0 .. MaxCost) /\ costs # {}
    BY <1>1, <2>1 DEF FlowTypes
  <2>3. \E x \in costs : \A y \in costs : x >= y
    <3>1. PICK x \in costs : \A y \in costs : y <= x
      BY <2>2, BoundsAssumption, GreatestOf
    <3>2. \A y \in costs : x >= y
      BY <2>2, <3>1
    <3> QED
      BY <3>2
  <2>4. Max(costs) \in costs
    BY <2>3 DEF Max
  <2> QED
    BY <2>1, <2>2, <2>4 DEF Dearest
<1>8. sum <= worst * Cardinality(Chunk) \/ ~ \A t \in launched : answer[t].cost <= worst
  <2>1. PICK a \in Nat, b \in Nat : a = worst * Cardinality(launched) /\ b = worst * Cardinality(Chunk)
    BY <1>1, <1>2, FS_CardinalityType
  <2> QED
    BY <1>5, <1>6, <2>1
<1> QED
  BY <1>4, <1>5, <1>7, <1>8

\* Only whole answers of the right shape are kept, and a failure that stops is seen.
LEMMA GatherKeepsFlow == FlowInv /\ Gather => FlowInv'
<1> SUFFICES ASSUME FlowInv, Gather PROVE FlowInv'
  OBVIOUS
<1>0. /\ FlowTypes /\ OutInChunks /\ WaveReady /\ OkClosed
      /\ FailuresStop /\ StoreFits /\ WarmRuns /\ WarmBehindWarm
  BY DEF FlowInv
<1>1. /\ phase = "children" /\ phase' = "chunk"
      /\ outcome' = [t \in DOMAIN outcome |-> IF t \in launched THEN Came(t) ELSE outcome[t]]
      /\ worst' = Dearest
      /\ stopped' = \E t \in launched : Came(t).tag = "failed" /\ Step(tasks[t].step).stop
      /\ pos' = pos + Cardinality(Chunk)
      /\ launched' = {} /\ answer' = <<>>
      /\ UNCHANGED <<file, status, text, tasks, cold, missed, cancel, runs, ran>>
  BY DEF Gather
<1>2. spent' = spent + MapThenSumSet(LAMBDA t : answer[t].cost, launched)
  BY DEF Gather
<1>3. PICK kept : /\ kept = {t \in launched : Keeps(t)}
                  /\ store' = [k \in DOMAIN store \cup {Key(t) : t \in kept} |->
                        IF \E t \in kept : Key(t) = k
                        THEN [value |-> answer[CHOOSE u \in kept : Key(u) = k].value,
                              cut |-> answer[CHOOSE u \in kept : Key(u) = k].cut]
                        ELSE store[k]]
  BY DEF Gather
<1>4. ~stopped /\ launched \subseteq 1 .. Len(tasks) /\ Cardinality(Chunk) \in Nat
  BY <1>0, <1>1, ChunkSize DEF OutInChunks, FlowTypes
<1>5. \A t \in launched : ~Came(t).cached /\ Came(t).value \in Values
  BY <1>0, BoundsAssumption DEF Came, Answered, Unknown, FlowTypes, Values
<1>6. FlowTypes'
  <2>1. spent' \in Nat
    <3>1. PICK sum \in Nat : sum = MapThenSumSet(LAMBDA t : answer[t].cost, launched)
      BY <1>0, <1>1, ChunkCosts
    <3> QED
      BY <1>0, <1>2, <3>1 DEF FlowTypes
  <2>2. worst' \in 0 .. MaxCost
    BY <1>0, <1>1, ChunkCosts
  <2>3. DOMAIN outcome' = 1 .. Len(tasks) /\ \A t \in 1 .. Len(tasks) : outcome'[t].value \in Values
    BY <1>0, <1>1, <1>5 DEF FlowTypes
  <2>4. pos' \in Nat /\ DOMAIN answer' = launched' /\ launched' = {}
    BY <1>0, <1>1, <1>4 DEF FlowTypes
  <2> QED
    BY <1>0, <1>1, <2>1, <2>2, <2>3, <2>4 DEF FlowTypes, Shape
<1>7. OutInChunks' /\ WaveReady' /\ OkClosed' /\ WarmRuns'
  BY <1>0, <1>1 DEF OutInChunks, WaveReady, Ready, Unsettled, OkClosed, WarmRuns
<1>8. FailuresStop'
  <2>1. ~FailedForGood
    BY <1>0, <1>4 DEF FailuresStop
  <2>2. DOMAIN outcome = 1 .. Len(tasks)
    BY <1>0 DEF FlowTypes
  <2> QED
    BY <1>1, <2>1, <2>2 DEF FailuresStop, FailedForGood, Step
<1>9. StoreFits'
  <2> SUFFICES ASSUME NEW k \in DOMAIN store'
               PROVE  /\ store'[k].value \in Values
                      /\ \E f \in Files : /\ f.cache /\ k.step \in Ids(f)
                                          /\ f.steps[k.step].version = k.version
                                          /\ Fits(f.steps[k.step], store'[k].value)
    BY DEF StoreFits
  <2>1. CASE \E t \in kept : Key(t) = k
    <3>1. PICK t \in kept : /\ Key(t) = k
                            /\ store'[k].value = answer[t].value
      BY <1>3, <2>1
    <3>2. t \in launched /\ t \in 1 .. Len(tasks) /\ Keeps(t)
      BY <1>3, <1>4, <3>1
    <3>3. file.cache /\ answer[t].tag # "failed" /\ Fits(Step(tasks[t].step), answer[t].value)
      BY <3>2 DEF Keeps, Came, Answered, Unknown
    <3>4. k.step = tasks[t].step /\ k.version = file.steps[tasks[t].step].version
      BY <3>1 DEF Key, Step
    <3>5. /\ file \in Files /\ tasks[t].step \in Ids(file)
          /\ answer[t].value \in Values
      BY <1>0, <3>2, TaskFacts DEF FlowTypes
    <3> QED
      BY <3>1, <3>3, <3>4, <3>5 DEF Step
  <2>2. CASE ~ \E t \in kept : Key(t) = k
    <3>1. k \in DOMAIN store /\ store'[k] = store[k]
      BY <1>3, <2>2
    <3> QED
      BY <1>0, <3>1 DEF StoreFits
  <2> QED
    BY <2>1, <2>2
<1>10. WarmBehindWarm'
  <2>1. DOMAIN outcome = 1 .. Len(tasks)
    BY <1>0 DEF FlowTypes
  <2>2. \A t \in 1 .. Len(tasks) : outcome'[t].cached => outcome[t].cached
    BY <1>1, <1>5, <2>1
  <2> QED
    BY <1>0, <1>1, <2>2 DEF WarmBehindWarm
<1> QED
  BY <1>6, <1>7, <1>8, <1>9, <1>10 DEF FlowInv

\* A wave that is folded settles its steps; those behind it still stand on answers.
LEMMA FoldKeepsFlow == FlowInv /\ Fold => FlowInv'
<1> SUFFICES ASSUME FlowInv, Fold PROVE FlowInv'
  OBVIOUS
<1>0. /\ FlowTypes /\ OutInChunks /\ WaveReady /\ OkClosed
      /\ FailuresStop /\ StoreFits /\ WarmRuns /\ WarmBehindWarm
  BY DEF FlowInv
<1>1. /\ phase = "chunk" /\ phase' = "wave"
      /\ status' = [i \in Ids(file) |-> IF i \in Ready THEN Folded(i) ELSE status[i]]
      /\ text' = [i \in Ids(file) |-> IF i \in Ready THEN Left(i) ELSE text[i]]
      /\ cold' = (cold \/ missed)
      /\ tasks' = <<>> /\ outcome' = <<>> /\ pos' = 0 /\ ~missed'
      /\ UNCHANGED <<file, launched, answer, spent, worst, stopped, cancel, store, runs, ran>>
  BY DEF Fold, Misses
<1>2. launched = {} /\ Len(tasks') = 0 /\ DOMAIN outcome' = {}
  BY <1>0, <1>1 DEF OutInChunks
<1>3. Shape'
  BY <1>0, ShapeKept DEF FlowTypes, Next
<1>4. FlowTypes'
  <2>1. tasks' \in Seq([step : Ids(file), item : Nat]) /\ DOMAIN outcome' = 1 .. Len(tasks')
    BY <1>1, <1>2
  <2>2. ASSUME NEW i \in Ids(file) PROVE Left(i) \subseteq Nat \X Values
    <3>1. \A t \in 1 .. Len(tasks) : tasks[t].item \in Nat /\ outcome[t].value \in Values
      BY <1>0, TaskFacts DEF FlowTypes
    <3> QED
      BY <3>1 DEF Left, TasksIn
  <2>3. text' \in [Ids(file) -> SUBSET (Nat \X Values)]
    BY <1>0, <1>1, <2>2 DEF FlowTypes
  <2> QED
    BY <1>0, <1>1, <1>2, <1>3, <2>1, <2>3 DEF FlowTypes
<1>5. OutInChunks' /\ WaveReady' /\ WarmBehindWarm' /\ StoreFits'
  BY <1>0, <1>1, <1>2 DEF OutInChunks, WaveReady, WarmBehindWarm, StoreFits
<1>6. OkClosed'
  <2> SUFFICES ASSUME NEW i \in Ids(file), status'[i] = "ok", NEW n \in Needs(file, i)
               PROVE  status'[n] = "ok"
    BY <1>1 DEF OkClosed
  <2>1. n \in Ids(file)
    BY <1>0, FileFacts
  <2>2. status[n] = "ok"
    BY <1>0, <1>1 DEF OkClosed, Ready
  <2>3. n \notin Ready
    BY <2>2 DEF Ready, Unsettled
  <2> QED
    BY <1>1, <2>1, <2>2, <2>3
<1>7. FailuresStop'
  <2>1. \A i \in Ids(file) : Folded(i) = "failed" => TasksIn(i, "failed") # {}
    BY DEF Folded
  <2>2. FailedForGood' => FailedForGood
    <3>1. ASSUME NEW i \in Ids(file), status'[i] = "failed", Step(i).stop PROVE FailedForGood
      <4>1. CASE i \in Ready
        <5>1. PICK t \in 1 .. Len(tasks) : tasks[t].step = i /\ outcome[t].tag = "failed"
          BY <1>1, <2>1, <3>1, <4>1 DEF TasksIn
        <5> QED
          BY <3>1, <5>1 DEF FailedForGood
      <4>2. CASE i \notin Ready
        BY <1>1, <3>1, <4>2 DEF FailedForGood
      <4> QED
        BY <4>1, <4>2
    <3> QED
      BY <1>1, <1>2, <3>1 DEF FailedForGood, Step
  <2> QED
    BY <1>0, <1>1, <2>2 DEF FailuresStop
<1>8. WarmRuns'
  BY <1>0, <1>1 DEF WarmRuns
<1> QED
  BY <1>4, <1>5, <1>6, <1>7, <1>8 DEF FlowInv

LEMMA StepKeepsFlow == FlowInv /\ [Next]_vars => FlowInv'
<1> SUFFICES ASSUME FlowInv, [Next]_vars PROVE FlowInv'
  OBVIOUS
<1>1. CASE Refuse \/ Confirm \/ Finish
  <2>1. /\ phase \notin {"chunk", "children"} /\ phase' \notin {"chunk", "children"}
        /\ UNCHANGED <<file, WaveVars, RunVars, store>>
    BY <1>1 DEF Refuse, Confirm, Finish
  <2> QED
    BY <2>1, RestsKeepFlow
<1>2. CASE Interrupt
  <2>1. phase' = phase /\ UNCHANGED <<file, WaveVars, RunVars, store>>
    BY <1>2 DEF Interrupt
  <2> QED
    BY <2>1, RestsKeepFlow
<1>3. CASE UNCHANGED vars
  <2>1. phase' = phase /\ UNCHANGED <<file, WaveVars, RunVars, store>>
    BY <1>3 DEF vars, WaveVars, RunVars
  <2> QED
    BY <2>1, RestsKeepFlow
<1> QED
  BY <1>1, <1>2, <1>3, WaveKeepsFlow, LaunchKeepsFlow, GatherKeepsFlow, FoldKeepsFlow,
     AgainKeepsFlow, ChildEndsKeepsFlow DEF Next

-----------------------------------------------------------------------------
(* What the invariant says of a step. *)

\* A chunk is launched only by a run that nothing has stopped.
LEMMA StoppedLaunchesNone ==
    ASSUME FlowInv, [Next]_vars, cancel \/ FailedForGood
    PROVE  launched' \subseteq launched
<1>1. CASE Launch
  <2>1. Weighed(Chunk)
    BY DEF FlowInv, FailuresStop, Weighed
  <2> QED
    BY <1>1, <2>1 DEF Launch
<1>2. CASE Wave \/ Gather \/ Fold
  BY <1>2 DEF Wave, Gather, Fold
<1>3. CASE Refuse \/ Confirm \/ Finish \/ Again \/ Interrupt
  BY <1>3 DEF Refuse, Confirm, Finish, Again, Interrupt, WaveVars
<1>4. ASSUME NEW t \in 1 .. Len(tasks), ChildEnds(t) PROVE launched' = launched
  BY <1>4 DEF ChildEnds
<1>5. CASE UNCHANGED vars
  BY <1>5 DEF vars
<1> QED
  BY <1>1, <1>2, <1>3, <1>4, <1>5 DEF Next

\* A chunk of children no dearer than before stays under what it was weighed against.
LEMMA ChunkStaysUnder ==
    ASSUME FlowInv, [Next]_vars, launched # {}, launched' = {},
           \A t \in launched : answer[t].cost <= worst
    PROVE  spent' < file.budget
<1>1. phase = "children"
  BY DEF FlowInv, OutInChunks
<1>2. CASE Gather
  <2>1. PICK sum \in Nat : /\ sum = MapThenSumSet(LAMBDA t : answer[t].cost, launched)
                           /\ sum <= worst * Cardinality(Chunk)
    BY <1>1, ChunkCosts DEF FlowInv
  <2>2. spent' = spent + sum
    BY <1>2, <2>1 DEF Gather
  <2>3. PICK most \in Nat : most = worst * Cardinality(Chunk)
    BY ChunkSize, BoundsAssumption DEF FlowInv, FlowTypes
  <2>4. spent \in Nat /\ file.budget \in Nat /\ spent + most < file.budget
    BY <1>1, <2>3, FileFacts DEF FlowInv, FlowTypes, OutInChunks
  <2> QED
    BY <2>1, <2>2, <2>3, <2>4
<1>3. ASSUME NEW t \in 1 .. Len(tasks), ChildEnds(t) PROVE launched' = launched
  BY <1>3 DEF ChildEnds
<1>4. CASE Interrupt \/ UNCHANGED vars
  BY <1>4 DEF Interrupt, WaveVars, vars
<1>5. CASE Refuse \/ Confirm \/ Finish \/ Again \/ Wave \/ Launch \/ Fold
  BY <1>1, <1>5 DEF Refuse, Confirm, Finish, Again, Wave, Launch, Fold
<1> QED
  BY <1>2, <1>3, <1>4, <1>5 DEF Next

\* Children are started only while the run may go on, within its budget, and for what no
\* result kept from before can answer, for every file, width, cost and number of runs
\* (workflow.rs run: stopped, ahead, cold).
THEOREM LaunchesAreSound == Spec => LaunchesSound
<1>1. Init => FlowInv
  BY InitFlow
<1>2. FlowInv /\ [Next]_vars => FlowInv'
  BY StepKeepsFlow
<1>3. FlowInv => WarmBehindWarm
  BY DEF FlowInv
<1>4. FlowInv /\ [Next]_vars => [cancel \/ FailedForGood => launched' \subseteq launched]_vars
  BY StoppedLaunchesNone
<1>5. FlowInv /\ [Next]_vars =>
        [launched # {} /\ launched' = {} /\ (\A t \in launched : answer[t].cost <= worst)
           => spent' < file.budget]_vars
  BY ChunkStaysUnder
<1> QED
  BY <1>1, <1>2, <1>3, <1>4, <1>5, PTL DEF Spec, LaunchesSound, NoLaunchAfterStop, BudgetKept
=============================================================================
