------------------------------ MODULE SavedProofs ------------------------------
(***************************************************************************)
(* What is saved of what the user said.  Of a conversation, for every      *)
(* window, every set of models and any number of turns, calls and          *)
(* compactions: the history keeps what was said, each call with its        *)
(* output, and each request extends the one before it.  Of the judge's     *)
(* authorization memory, for any number of messages and notes: each        *)
(* message is noted once or waits, and no active note is lost.             *)
(***************************************************************************)
EXTENDS Compaction, Authorization, Induction, SequenceTheorems, FiniteSetTheorems, TLAPS

(* The conversation.  Each call has its result beside it, so that what cuts a history between *)
(* two messages of the user cuts no pair; and what stands for a message goes on standing.      *)

ItemKinds == {"user", "summary", "abort", "long", "short", "gone", "call", "say", "env", "effort", "server"}
Outputs == {"long", "short", "gone"}
Items == [is : ItemKinds, n : Nat, of : SUBSET Nat]
Histories == Seq(Items)

\* The call of an output is just before it, its output just after a call; and only what was
\* made of other items stands for any.
Well(items) ==
    \A i \in DOMAIN items :
        /\ items[i].is = "call" =>
             i + 1 \in DOMAIN items /\ items[i + 1].is \in Outputs /\ items[i + 1].n = items[i].n
        /\ items[i].is \in Outputs =>
             i - 1 \in DOMAIN items /\ items[i - 1].is = "call" /\ items[i - 1].n = items[i].n
        /\ items[i].is \notin {"summary", "server"} => items[i].of = {}

InTurn == {"step", "calling", "closing"}
ConvoTypes ==
    /\ convo \in Histories
    /\ copy = Unset \/ copy \in [made : BOOLEAN, items : Histories]
    /\ phase \in {"idle", "step", "calling", "compacting", "closing", "ending", "dead"}
    /\ turn \in [err : {"none", "overflow", "bad", "failed"}, retried : BOOLEAN, update : Nat,
                 pure : BOOLEAN, rewritten : BOOLEAN, place : Nat]
    /\ phase = "compacting" =>
         /\ pass \in [items : Histories, from : {"user", "tool", "turn"}, call : {"trigger", "ask"}]
         /\ Folds(pass.items)
    /\ halted \in BOOLEAN /\ next \in {"no", "plain", "worded"}
    /\ effort \in Nat /\ base \in Nat /\ place \in {0, 1}
    /\ spent \in [turns : Nat, steps : Nat, tricks : Nat]
    /\ misplaced \in BOOLEAN

Extended(items) ==
    guard = Unset \/ guard = forsaken \/ (guard \in Histories /\ IsPrefix(guard, items))
\* The guard has a request that the next one extends, or is reset, or has the one given up.
GuardInv ==
    /\ missed # "cut"
    /\ phase # "compacting" => Extended(convo)

CopyInv == copy # Unset /\ copy.made => phase = "idle" /\ Well(copy.items) /\ lived \subseteq Stands(copy.items)
PassInv ==
    phase = "compacting" =>
        /\ Well(pass.items) /\ lived \subseteq Stands(pass.items)
        /\ guard = Append(pass.items, Piece(pass.call, 0))
        /\ pass.from = "tool" \/ (pass.from = "turn" /\ turn.err = "overflow") =>
              ToldPlace(pass.items) = turn.place
        /\ pass.from = "tool" /\ brain \in Able /\ ~turn.rewritten => Announced(pass.items, base) = effort
TurnInv ==
    /\ phase \in InTurn \/ (phase = "ending" /\ turn.err = "overflow" /\ ~halted) =>
         ToldPlace(convo) = turn.place
    /\ phase \in {"step", "calling"} /\ brain \in Able /\ ~turn.rewritten =>
         Announced(convo, base) = effort
    /\ phase \in InTurn /\ turn.pure => convo # <<>> /\ Last(convo).is = "user"
    /\ phase = "calling" => guard = convo
SaidInv == Well(convo) /\ lived \subseteq Stands(convo) /\ CopyInv /\ PassInv /\ TurnInv
ConvoInv == ConvoTypes /\ GuardInv /\ (misplaced \/ SaidInv)

LEMMA PieceIs ==
    ASSUME NEW is, NEW n \in Nat
    PROVE  /\ Piece(is, n).is = is /\ Piece(is, n).n = n /\ Piece(is, n).of = {}
           /\ is \in ItemKinds => Piece(is, n) \in Items
  BY DEF Piece, Items

\* What is left of a history is its items at those places, in their order.
Placed(items, at, o, e) ==
    /\ o \in Histories /\ e \in [DOMAIN o -> at]
    /\ \A k \in DOMAIN o : o[k] = items[e[k]]
    /\ \A k, l \in DOMAIN o : k < l => e[k] < e[l]
    /\ \A i \in at : \E k \in DOMAIN o : e[k] = i
LEMMA PlacedNext ==
    ASSUME NEW items \in Histories, NEW n \in 1 .. Len(items), NEW at \in SUBSET (1 .. n - 1), NEW o, NEW e,
           Placed(items, at, o, e)
    PROVE  \E d : Placed(items, at \cup {n}, Append(o, items[n]), d)
<1>1. PICK N \in Nat : N = Len(o) /\ DOMAIN o = 1 .. N
  BY DEF Placed, Histories
<1>2. items[n] \in Items
  BY DEF Histories
<1>3. PICK p : p = Append(o, items[n])
  OBVIOUS
<1>4. /\ p \in Histories /\ DOMAIN p = 1 .. N + 1 /\ p[N + 1] = items[n]
      /\ \A k \in 1 .. N : p[k] = o[k]
  BY <1>1, <1>2, <1>3 DEF Placed, Histories
<1>5. PICK d : d = [k \in 1 .. N + 1 |-> IF k = N + 1 THEN n ELSE e[k]]
  OBVIOUS
<1>6. /\ \A k \in 1 .. N : e[k] \in at /\ e[k] \in 1 .. n - 1 /\ p[k] = items[e[k]]
      /\ \A k, l \in 1 .. N : k < l => e[k] < e[l]
      /\ \A i \in at : \E k \in 1 .. N : e[k] = i
  BY <1>1, <1>4 DEF Placed
<1>7. /\ d[N + 1] = n /\ \A k \in 1 .. N : d[k] = e[k]
      /\ \A k \in 1 .. N + 1 : k = N + 1 \/ k \in 1 .. N
      /\ \A k \in 1 .. N : k \in 1 .. N + 1
  BY <1>1, <1>5
<1>8. d \in [1 .. N + 1 -> at \cup {n}] /\ \A k \in 1 .. N + 1 : p[k] = items[d[k]]
  <2>1. \A k \in 1 .. N + 1 : d[k] \in at \cup {n}
    BY <1>6, <1>7
  <2>2. \A k \in 1 .. N + 1 : p[k] = items[d[k]]
    BY <1>4, <1>6, <1>7
  <2> QED
    BY <1>5, <2>1, <2>2
<1>9. ASSUME NEW k \in 1 .. N + 1, NEW l \in 1 .. N + 1, k < l PROVE d[k] < d[l]
  <2>1. k \in 1 .. N
    BY <1>9
  <2> QED
    BY <1>6, <1>7, <1>9, <2>1
<1>10. \A i \in at \cup {n} : \E k \in 1 .. N + 1 : d[k] = i
  BY <1>6, <1>7
<1>11. Placed(items, at \cup {n}, p, d)
  BY <1>4, <1>8, <1>9, <1>10 DEF Placed
<1> QED
  BY <1>3, <1>11

LEMMA OnlyOf ==
    ASSUME NEW items \in Histories, NEW at \in SUBSET DOMAIN items
    PROVE  \E e : Placed(items, at, Only(items, at), e)
<1>1. PICK N \in Nat : N = Len(items) /\ DOMAIN items = 1 .. N
  BY DEF Histories
<1>2. PICK D : D = Histories
  OBVIOUS
<1>3. PICK step : step = [n \in 1 .. N |-> [d \in D |-> IF n \in at THEN Append(d, items[n]) ELSE d]]
  OBVIOUS
<1>4. step \in [1 .. N -> [D -> D]]
  <2>1. \A n \in 1 .. N : items[n] \in Items
    BY <1>1 DEF Histories
  <2>2. \A n \in 1 .. N : \A d \in D : Append(d, items[n]) \in D
    BY <1>2, <2>1 DEF Histories
  <2> QED
    BY <1>3, <2>2
<1>5. PICK e \in D : e = <<>> /\ DOMAIN e = {}
  <2>1. <<>> \in D /\ DOMAIN <<>> = {}
    BY <1>2 DEF Histories
  <2> QED
    BY <2>1
<1>6. PICK g \in [0 .. N -> D] : g[0] = e /\ \A n \in 1 .. N : g[n] = step[n][g[n - 1]]
  <2>1. StepsOver(N, D, e, step)
    BY <1>1, <1>4, <1>5 DEF StepsOver
  <2>2. PICK g : SteppedOver(N, D, e, step, g)
    BY <2>1, RecursionOverPlaces
  <2> QED
    BY <2>2 DEF SteppedOver
<1> DEFINE Left(f) == [n \in 0 .. Len(items) |->
                        IF n = 0 THEN <<>>
                        ELSE IF n \in at THEN Append(f[n - 1], items[n]) ELSE f[n - 1]]
<1>7. g = Left(g)
  <2>1. ASSUME NEW n \in 0 .. N, n # 0
        PROVE  g[n] = IF n \in at THEN Append(g[n - 1], items[n]) ELSE g[n - 1]
    <3>1. n \in 1 .. N /\ n - 1 \in 0 .. N
      BY <2>1
    <3>2. g[n] = step[n][g[n - 1]] /\ g[n - 1] \in D
      BY <1>6, <3>1
    <3> QED
      BY <1>3, <3>1, <3>2
  <2> QED
    BY <1>1, <1>5, <1>6, <2>1
<1>8. PICK f : Only(items, at) = f[Len(items)] /\ f = Left(f)
  <2>1. Only(items, at) = (CHOOSE f : f = Left(f))[Len(items)]
    BY DEF Only
  <2> HIDE DEF Left
  <2> QED
    BY <1>7, <2>1
<1>9. f[0] = <<>> /\ \A n \in 1 .. N : f[n] = IF n \in at THEN Append(f[n - 1], items[n]) ELSE f[n - 1]
  <2>1. \A n \in 0 .. N : f[n] = IF n = 0 THEN <<>>
                        ELSE IF n \in at THEN Append(f[n - 1], items[n]) ELSE f[n - 1]
    BY <1>1, <1>8
  <2>2. \A n \in 1 .. N : n \in 0 .. N /\ n # 0
    OBVIOUS
  <2>3. 0 \in 0 .. N
    OBVIOUS
  <2> HIDE DEF Left
  <2> QED
    BY <2>1, <2>2, <2>3
<1> HIDE DEF Left
<1>10. PICK holds : holds = {n \in 0 .. N : \E d : Placed(items, at \cap (1 .. n), f[n], d)}
  OBVIOUS
<1>11. 0 \in holds
  <2>1. at \cap (1 .. 0) = {}
    OBVIOUS
  <2>2. PICK d : d = [k \in {} |-> 0]
    OBVIOUS
  <2>3. d \in [{} -> {}]
    BY <2>2
  <2>4. Placed(items, {}, e, d)
    BY <1>2, <1>5, <2>3 DEF Placed
  <2>5. Placed(items, at \cap (1 .. 0), f[0], d)
    BY <1>5, <1>9, <2>1, <2>4
  <2> QED
    BY <1>10, <2>5
<1>12. ASSUME NEW n \in 1 .. N, n - 1 \in holds PROVE n \in holds
  <2>1. PICK d : Placed(items, at \cap (1 .. n - 1), f[n - 1], d)
    BY <1>10, <1>12
  <2>2. CASE n \in at
    <3>1. at \cap (1 .. n) = (at \cap (1 .. n - 1)) \cup {n}
      BY <2>2
    <3>2. PICK c : Placed(items, (at \cap (1 .. n - 1)) \cup {n}, Append(f[n - 1], items[n]), c)
      <4>1. PICK sub : sub = at \cap (1 .. n - 1)
        OBVIOUS
      <4>2. sub \in SUBSET (1 .. n - 1) /\ n \in 1 .. Len(items) /\ Placed(items, sub, f[n - 1], d)
        BY <1>1, <2>1, <4>1
      <4> QED
        BY <4>1, <4>2, PlacedNext
    <3>3. Placed(items, at \cap (1 .. n), f[n], c)
      BY <1>9, <2>2, <3>1, <3>2
    <3> QED
      BY <1>10, <3>3
  <2>3. CASE n \notin at
    <3>1. at \cap (1 .. n) = at \cap (1 .. n - 1) /\ n \in 0 .. N
      BY <2>3
    <3>2. Placed(items, at \cap (1 .. n), f[n], d)
      BY <1>9, <2>1, <2>3, <3>1
    <3> QED
      BY <1>10, <3>1, <3>2
  <2> QED
    BY <2>2, <2>3
<1>13. N \in holds
  <2>1. 0 .. N \subseteq holds
    BY <1>11, <1>12, NumbersReached
  <2> QED
    BY <2>1
<1>14. at \cap (1 .. N) = at
  BY <1>1
<1> QED
  BY <1>1, <1>8, <1>10, <1>13, <1>14

LEMMA HistoryHas ==
    ASSUME NEW s \in Histories
    PROVE  /\ Len(s) \in Nat /\ DOMAIN s = 1 .. Len(s)
           /\ \A i \in DOMAIN s : s[i] \in Items /\ s[i].is \in ItemKinds /\ s[i].n \in Nat /\ s[i].of \in SUBSET Nat
<1>1. Len(s) \in Nat /\ DOMAIN s = 1 .. Len(s) /\ \A i \in DOMAIN s : s[i] \in Items
  BY DEF Histories
<1>2. \A x \in Items : x.is \in ItemKinds /\ x.n \in Nat /\ x.of \in SUBSET Nat
  BY DEF Items
<1> QED
  BY <1>1, <1>2

\* One history after the other, and the end of one.
LEMMA JoinedAre ==
    ASSUME NEW s \in Histories, NEW t \in Histories
    PROVE  /\ s \o t \in Histories /\ Len(s \o t) = Len(s) + Len(t)
           /\ DOMAIN (s \o t) = 1 .. Len(s) + Len(t)
           /\ \A i \in DOMAIN s : i \in DOMAIN (s \o t) /\ (s \o t)[i] = s[i]
           /\ \A j \in DOMAIN t : Len(s) + j \in DOMAIN (s \o t) /\ (s \o t)[Len(s) + j] = t[j]
           /\ \A k \in DOMAIN (s \o t) : k \in DOMAIN s \/ \E j \in DOMAIN t : k = Len(s) + j
<1>1. PICK m \in Nat, n \in Nat : m = Len(s) /\ n = Len(t) /\ DOMAIN s = 1 .. m /\ DOMAIN t = 1 .. n
  BY DEF Histories
<1>2. PICK j : j = s \o t
  OBVIOUS
<1>3. /\ j \in Histories /\ Len(j) = m + n /\ DOMAIN j = 1 .. m + n
      /\ \A i \in 1 .. m : j[i] = s[i]
      /\ \A i \in 1 .. n : j[m + i] = t[i]
  BY <1>1, <1>2 DEF Histories
<1>4. \A k \in 1 .. m + n : k \in 1 .. m \/ (k - m \in 1 .. n /\ k = m + (k - m))
  BY <1>1
<1>5. \A i \in 1 .. n : m + i \in 1 .. m + n
  BY <1>1
<1>6. \A i \in 1 .. m : i \in 1 .. m + n
  BY <1>1
<1> QED
  BY <1>1, <1>2, <1>3, <1>4, <1>5, <1>6

LEMMA SliceIs ==
    ASSUME NEW s \in Histories, NEW m \in 1 .. Len(s) + 1
    PROVE  /\ SubSeq(s, m, Len(s)) \in Histories
           /\ Len(SubSeq(s, m, Len(s))) = Len(s) - m + 1
           /\ DOMAIN SubSeq(s, m, Len(s)) = 1 .. Len(s) - m + 1
           /\ \A k \in 1 .. Len(s) - m + 1 : SubSeq(s, m, Len(s))[k] = s[m + k - 1]
<1>1. PICK n \in Nat : n = Len(s)
  BY DEF Histories
<1>2. PICK j : j = SubSeq(s, m, n)
  OBVIOUS
<1>3. j \in Histories /\ Len(j) = n - m + 1 /\ \A k \in 1 .. n - m + 1 : j[k] = s[m + k - 1]
  BY <1>1, <1>2 DEF Histories
<1> QED
  BY <1>1, <1>2, <1>3 DEF Histories

LEMMA FrontIs ==
    ASSUME NEW s \in Histories, NEW m \in 0 .. Len(s)
    PROVE  /\ SubSeq(s, 1, m) \in Histories /\ Len(SubSeq(s, 1, m)) = m
           /\ DOMAIN SubSeq(s, 1, m) = 1 .. m
           /\ \A k \in 1 .. m : SubSeq(s, 1, m)[k] = s[k]
<1>2. PICK j : j = SubSeq(s, 1, m)
  OBVIOUS
<1>3. j \in Histories /\ Len(j) = m /\ \A k \in 1 .. m : j[k] = s[k]
  BY <1>2 DEF Histories
<1> QED
  BY <1>2, <1>3 DEF Histories

LEMMA CutInTwo ==
    ASSUME NEW s \in Histories, NEW m \in 1 .. Len(s) + 1
    PROVE  s = SubSeq(s, 1, m - 1) \o SubSeq(s, m, Len(s))
<1>1. PICK n \in Nat : n = Len(s) /\ DOMAIN s = 1 .. n
  BY DEF Histories
<1>2. PICK a : a = SubSeq(s, 1, m - 1)
  OBVIOUS
<1>3. PICK b : b = SubSeq(s, m, n)
  OBVIOUS
<1>4. a \in Histories /\ Len(a) = m - 1 /\ DOMAIN a = 1 .. m - 1 /\ \A k \in 1 .. m - 1 : a[k] = s[k]
  BY <1>1, <1>2, FrontIs
<1>5. b \in Histories /\ Len(b) = n - m + 1 /\ DOMAIN b = 1 .. n - m + 1
      /\ \A k \in 1 .. n - m + 1 : b[k] = s[m + k - 1]
  BY <1>1, <1>3, SliceIs
<1>6. PICK j : j = a \o b
  OBVIOUS
<1>7. j \in Histories /\ Len(j) = n /\ DOMAIN j = 1 .. n
  <2>1. j \in Histories /\ Len(j) = Len(a) + Len(b) /\ DOMAIN j = 1 .. Len(a) + Len(b)
    BY <1>4, <1>5, <1>6, JoinedAre
  <2>2. (m - 1) + (n - m + 1) = n
    BY <1>1
  <2> QED
    BY <1>4, <1>5, <2>1, <2>2
<1>8. ASSUME NEW k \in 1 .. n PROVE j[k] = s[k]
  <2>1. CASE k \in 1 .. m - 1
    BY <1>4, <1>5, <1>6, <2>1, JoinedAre
  <2>2. CASE k \notin 1 .. m - 1
    <3>1. k - (m - 1) \in 1 .. n - m + 1 /\ k = (m - 1) + (k - (m - 1)) /\ m + (k - (m - 1)) - 1 = k
      BY <1>1, <2>2
    <3>2. j[(m - 1) + (k - (m - 1))] = b[k - (m - 1)]
      BY <1>4, <1>5, <1>6, <3>1, JoinedAre
    <3> QED
      BY <1>5, <3>1, <3>2
  <2> QED
    BY <2>1, <2>2
<1> QED
  BY <1>1, <1>2, <1>3, <1>6, <1>7, <1>8, SeqEqual DEF Histories

\* The last of its kind.
LEMMA LastIs ==
    ASSUME NEW s \in Histories, NEW is, NEW e \in DOMAIN s, s[e].is = is,
           \A k \in DOMAIN s : s[k].is = is => k <= e
    PROVE  LastOf(s, is) = <<s[e]>>
<1>1. e \in Where(s, is) /\ \A k \in Where(s, is) : k <= e /\ k \in Nat
  BY HistoryHas DEF Where
<1>2. Max(Where(s, is)) = e
  <2>1. Where(s, is) \in SUBSET Nat /\ e \in Nat
    BY <1>1
  <2> QED
    BY <1>1, <2>1 DEF Max
<1> QED
  BY <1>1, <1>2 DEF LastOf
LEMMA LastThere ==
    ASSUME NEW s \in Histories, NEW is, Where(s, is) # {}
    PROVE  \E e \in DOMAIN s : s[e].is = is /\ \A k \in DOMAIN s : s[k].is = is => k <= e
<1>1. PICK n \in Nat : n = Len(s) /\ DOMAIN s = 1 .. n
  BY HistoryHas
<1>2. Where(s, is) \in SUBSET (0 .. n)
  BY <1>1 DEF Where
<1>3. PICK e \in Where(s, is) : \A y \in Where(s, is) : y <= e
  BY <1>2, GreatestOf
<1> QED
  BY <1>3 DEF Where

LEMMA LastJoined ==
    ASSUME NEW s \in Histories, NEW t \in Histories, NEW is
    PROVE  LastOf(s \o t, is) = IF Where(t, is) = {} THEN LastOf(s, is) ELSE LastOf(t, is)
<1>1. PICK m \in Nat, n \in Nat : m = Len(s) /\ n = Len(t) /\ DOMAIN s = 1 .. m /\ DOMAIN t = 1 .. n
  BY HistoryHas
<1>2. PICK j \in Histories : j = s \o t
  BY JoinedAre
<1>3. /\ DOMAIN j = 1 .. m + n
      /\ \A i \in 1 .. m : i \in DOMAIN j /\ j[i] = s[i]
      /\ \A i \in 1 .. n : m + i \in DOMAIN j /\ j[m + i] = t[i]
      /\ \A k \in DOMAIN j : k \in 1 .. m \/ \E i \in 1 .. n : k = m + i
  <2>1. DOMAIN j = 1 .. m + n
    BY <1>1, <1>2, JoinedAre
  <2>2. \A i \in 1 .. m : i \in DOMAIN j /\ j[i] = s[i]
    BY <1>1, <1>2, JoinedAre
  <2>3. \A i \in 1 .. n : m + i \in DOMAIN j /\ j[m + i] = t[i]
    BY <1>1, <1>2, JoinedAre
  <2>4. \A k \in 1 .. m + n : k \in 1 .. m \/ (k - m \in 1 .. n /\ k = m + (k - m))
    BY <1>1
  <2> QED
    BY <2>1, <2>2, <2>3, <2>4
<1>4. CASE Where(t, is) # {}
  <2>1. PICK e \in DOMAIN t : t[e].is = is /\ \A k \in DOMAIN t : t[k].is = is => k <= e
    BY <1>4, LastThere
  <2>2. LastOf(t, is) = <<t[e]>>
    BY <2>1, LastIs
  <2>3. m + e \in DOMAIN j /\ j[m + e].is = is /\ j[m + e] = t[e]
    BY <1>1, <1>3, <2>1
  <2>4. ASSUME NEW k \in DOMAIN j, j[k].is = is PROVE k <= m + e
    <3>1. CASE k \in 1 .. m
      BY <1>1, <2>1, <3>1
    <3>2. CASE \E i \in 1 .. n : k = m + i
      <4>1. PICK i \in 1 .. n : k = m + i
        BY <3>2
      <4>2. t[i].is = is /\ i \in DOMAIN t
        BY <1>1, <1>3, <2>4, <4>1
      <4>3. i <= e
        BY <2>1, <4>2
      <4> QED
        BY <1>1, <2>1, <4>1, <4>3
    <3> QED
      BY <1>3, <3>1, <3>2
  <2>5. LastOf(j, is) = <<j[m + e]>>
    BY <2>3, <2>4, LastIs
  <2> QED
    BY <1>2, <1>4, <2>2, <2>3, <2>5
<1>5. CASE Where(t, is) = {} /\ Where(s, is) # {}
  <2>1. PICK e \in DOMAIN s : s[e].is = is /\ \A k \in DOMAIN s : s[k].is = is => k <= e
    BY <1>5, LastThere
  <2>2. LastOf(s, is) = <<s[e]>>
    BY <2>1, LastIs
  <2>3. ASSUME NEW k \in DOMAIN j, j[k].is = is PROVE k <= e
    <3>1. ~ \E i \in 1 .. n : k = m + i
      BY <1>1, <1>3, <1>5, <2>3 DEF Where
    <3> QED
      BY <1>1, <1>3, <2>1, <2>3, <3>1
  <2>4. LastOf(j, is) = <<j[e]>>
    BY <1>1, <1>3, <2>1, <2>3, LastIs
  <2> QED
    BY <1>1, <1>2, <1>3, <1>5, <2>1, <2>2, <2>4
<1>6. CASE Where(t, is) = {} /\ Where(s, is) = {}
  <2>1. Where(j, is) = {}
    <3>1. ASSUME NEW k \in DOMAIN j PROVE j[k].is # is
      <4>1. CASE k \in 1 .. m
        BY <1>1, <1>3, <1>6, <4>1 DEF Where
      <4>2. CASE \E i \in 1 .. n : k = m + i
        <5>1. PICK i \in 1 .. n : k = m + i
          BY <4>2
        <5> QED
          BY <1>1, <1>3, <1>6, <5>1 DEF Where
      <4> QED
        BY <1>3, <4>1, <4>2
    <3> QED
      BY <3>1 DEF Where
  <2> QED
    BY <1>2, <1>6, <2>1 DEF LastOf
<1> QED
  BY <1>4, <1>5, <1>6

LEMMA LastAlone ==
    ASSUME NEW s \in Histories, NEW is
    PROVE  /\ LastOf(s, is) \in Histories
           /\ \A k \in DOMAIN LastOf(s, is) : LastOf(s, is)[k].is = is /\ \E e \in DOMAIN s : LastOf(s, is)[k] = s[e]
           /\ LastOf(LastOf(s, is), is) = LastOf(s, is)
           /\ LastOf(s, is) = <<>> <=> Where(s, is) = {}
<1>1. CASE Where(s, is) = {}
  <2>1. PICK l : l = <<>> /\ DOMAIN l = {}
    OBVIOUS
  <2>2. LastOf(s, is) = l /\ l \in Histories /\ Where(l, is) = {}
    BY <1>1, <2>1 DEF LastOf, Histories, Where
  <2>3. LastOf(l, is) = l
    BY <2>1, <2>2 DEF LastOf
  <2> QED
    BY <1>1, <2>1, <2>2, <2>3
<1>2. CASE Where(s, is) # {}
  <2>1. PICK e \in DOMAIN s : s[e].is = is /\ \A k \in DOMAIN s : s[k].is = is => k <= e
    BY <1>2, LastThere
  <2>2. PICK x : x = s[e]
    OBVIOUS
  <2>3. x \in Items /\ x.is = is
    BY <2>1, <2>2, HistoryHas
  <2>4. PICK l : l = <<x>>
    OBVIOUS
  <2>5. l \in Histories /\ DOMAIN l = {1} /\ l[1] = x /\ l # <<>>
    BY <2>3, <2>4 DEF Histories
  <2>6. LastOf(s, is) = l
    BY <2>1, <2>2, <2>4, LastIs
  <2>7. LastOf(l, is) = <<l[1]>>
    BY <2>3, <2>5, LastIs
  <2> QED
    BY <1>2, <2>1, <2>2, <2>3, <2>4, <2>5, <2>6, <2>7
<1> QED
  BY <1>1, <1>2

\* What an item stands for.
HeldBy(item) == IF item.is \in {"user", "call", "say"} THEN {item.n} ELSE item.of
LEMMA StandsOf ==
    ASSUME NEW s
    PROVE  \A x : x \in Stands(s) <=> \E i \in DOMAIN s : x \in HeldBy(s[i])
  BY DEF Stands, HeldBy

LEMMA StandsJoined ==
    ASSUME NEW s \in Histories, NEW t \in Histories
    PROVE  Stands(s \o t) = Stands(s) \cup Stands(t)
<1>1. PICK j \in Histories : j = s \o t
  BY JoinedAre
<1>2. ASSUME NEW x \in Stands(j) PROVE x \in Stands(s) \cup Stands(t)
  <2>1. PICK k \in DOMAIN j : x \in HeldBy(j[k])
    BY <1>2, StandsOf
  <2>2. CASE k \in DOMAIN s
    <3>1. j[k] = s[k]
      BY <1>1, <2>2, JoinedAre
    <3> QED
      BY <2>1, <2>2, <3>1, StandsOf
  <2>3. CASE \E i \in DOMAIN t : k = Len(s) + i
    <3>1. PICK i \in DOMAIN t : k = Len(s) + i
      BY <2>3
    <3>2. j[k] = t[i]
      BY <1>1, <3>1, JoinedAre
    <3> QED
      BY <2>1, <3>2, StandsOf
  <2> QED
    BY <1>1, <2>2, <2>3, JoinedAre
<1>3. ASSUME NEW x \in Stands(s) PROVE x \in Stands(j)
  <2>1. PICK k \in DOMAIN s : x \in HeldBy(s[k])
    BY <1>3, StandsOf
  <2>2. k \in DOMAIN j /\ j[k] = s[k]
    BY <1>1, JoinedAre
  <2> QED
    BY <2>1, <2>2, StandsOf
<1>4. ASSUME NEW x \in Stands(t) PROVE x \in Stands(j)
  <2>1. PICK k \in DOMAIN t : x \in HeldBy(t[k])
    BY <1>4, StandsOf
  <2>2. Len(s) + k \in DOMAIN j /\ j[Len(s) + k] = t[k]
    BY <1>1, JoinedAre
  <2> QED
    BY <2>1, <2>2, StandsOf
<1> QED
  BY <1>1, <1>2, <1>3, <1>4

\* A history cut where no output begins is two; two are one.
LEMMA WellJoined ==
    ASSUME NEW s \in Histories, NEW t \in Histories, Well(s), Well(t)
    PROVE  Well(s \o t)
<1>1. PICK m \in Nat, n \in Nat : m = Len(s) /\ n = Len(t) /\ DOMAIN s = 1 .. m /\ DOMAIN t = 1 .. n
  BY HistoryHas
<1>2. PICK j \in Histories : j = s \o t
  BY JoinedAre
<1>3. DOMAIN j = 1 .. m + n
  BY <1>1, <1>2, JoinedAre
<1>4. \A i \in 1 .. m : i \in DOMAIN j /\ j[i] = s[i]
  BY <1>1, <1>2, JoinedAre
<1>5. \A i \in 1 .. n : m + i \in DOMAIN j /\ j[m + i] = t[i]
  BY <1>1, <1>2, JoinedAre
<1>6. ASSUME NEW k \in DOMAIN j
      PROVE  /\ j[k].is = "call" =>
                  k + 1 \in DOMAIN j /\ j[k + 1].is \in Outputs /\ j[k + 1].n = j[k].n
             /\ j[k].is \in Outputs =>
                  k - 1 \in DOMAIN j /\ j[k - 1].is = "call" /\ j[k - 1].n = j[k].n
             /\ j[k].is \notin {"summary", "server"} => j[k].of = {}
  <2>1. CASE k \in 1 .. m
    <3>1. j[k] = s[k] /\ k \in DOMAIN s
      BY <1>1, <1>4, <2>1
    <3>2. s[k].is = "call" => k + 1 \in 1 .. m /\ s[k + 1].is \in Outputs /\ s[k + 1].n = s[k].n
      BY <1>1, <3>1 DEF Well
    <3>3. s[k].is \in Outputs => k - 1 \in 1 .. m /\ s[k - 1].is = "call" /\ s[k - 1].n = s[k].n
      BY <1>1, <3>1 DEF Well
    <3>4. s[k].is \notin {"summary", "server"} => s[k].of = {}
      BY <3>1 DEF Well
    <3> QED
      BY <1>4, <3>1, <3>2, <3>3, <3>4
  <2>2. CASE k \notin 1 .. m
    <3>1. PICK i \in 1 .. n : k = m + i /\ i \in DOMAIN t /\ k + 1 = m + (i + 1) /\ k - 1 = m + (i - 1)
      <4>1. k \in 1 .. m + n
        BY <1>3
      <4>2. k - m \in 1 .. n /\ k = m + (k - m) /\ k + 1 = m + ((k - m) + 1) /\ k - 1 = m + ((k - m) - 1)
        BY <1>1, <2>2, <4>1
      <4> QED
        BY <1>1, <4>2
    <3>2. j[k] = t[i]
      BY <1>5, <3>1
    <3>3. t[i].is = "call" => i + 1 \in 1 .. n /\ t[i + 1].is \in Outputs /\ t[i + 1].n = t[i].n
      BY <1>1, <3>1 DEF Well
    <3>4. t[i].is \in Outputs => i - 1 \in 1 .. n /\ t[i - 1].is = "call" /\ t[i - 1].n = t[i].n
      BY <1>1, <3>1 DEF Well
    <3>5. t[i].is \notin {"summary", "server"} => t[i].of = {}
      BY <3>1 DEF Well
    <3>6. j[k].is = "call" => k + 1 \in DOMAIN j /\ j[k + 1].is \in Outputs /\ j[k + 1].n = j[k].n
      BY <1>5, <3>1, <3>2, <3>3
    <3>7. j[k].is \in Outputs => k - 1 \in DOMAIN j /\ j[k - 1].is = "call" /\ j[k - 1].n = j[k].n
      BY <1>5, <3>1, <3>2, <3>4
    <3> QED
      BY <3>2, <3>5, <3>6, <3>7
  <2> QED
    BY <2>1, <2>2
<1> QED
  BY <1>2, <1>6 DEF Well

LEMMA WellCut ==
    ASSUME NEW s \in Histories, Well(s), NEW m \in 1 .. Len(s) + 1,
           m = Len(s) + 1 \/ s[m].is \notin Outputs
    PROVE  Well(SubSeq(s, 1, m - 1)) /\ Well(SubSeq(s, m, Len(s)))
<1>1. PICK n \in Nat : n = Len(s) /\ DOMAIN s = 1 .. n
  BY HistoryHas
<1>2. PICK a : a = SubSeq(s, 1, m - 1)
  OBVIOUS
<1>3. PICK b : b = SubSeq(s, m, n)
  OBVIOUS
<1>4. DOMAIN a = 1 .. m - 1 /\ \A k \in 1 .. m - 1 : a[k] = s[k]
  BY <1>1, <1>2, FrontIs
<1>5. DOMAIN b = 1 .. n - m + 1 /\ \A k \in 1 .. n - m + 1 : b[k] = s[m + k - 1]
  BY <1>1, <1>3, SliceIs
<1>6. \A i \in 1 .. n :
        /\ s[i].is = "call" =>
             i + 1 \in 1 .. n /\ s[i + 1].is \in Outputs /\ s[i + 1].n = s[i].n
        /\ s[i].is \in Outputs =>
             i - 1 \in 1 .. n /\ s[i - 1].is = "call" /\ s[i - 1].n = s[i].n
        /\ s[i].is \notin {"summary", "server"} => s[i].of = {}
  BY <1>1 DEF Well
<1>7. ASSUME NEW k \in 1 .. m - 1
      PROVE  /\ a[k].is = "call" =>
                  k + 1 \in DOMAIN a /\ a[k + 1].is \in Outputs /\ a[k + 1].n = a[k].n
             /\ a[k].is \in Outputs =>
                  k - 1 \in DOMAIN a /\ a[k - 1].is = "call" /\ a[k - 1].n = a[k].n
             /\ a[k].is \notin {"summary", "server"} => a[k].of = {}
  <2>1. k \in 1 .. n /\ a[k] = s[k]
    BY <1>1, <1>4
  <2>2. s[k].is = "call" => k + 1 \in 1 .. m - 1
    <3>1. s[k].is = "call" => k + 1 \in 1 .. n /\ s[k + 1].is \in Outputs
      BY <1>6, <2>1
    <3>2. k + 1 \in 1 .. m - 1 \/ k + 1 = m
      OBVIOUS
    <3> QED
      BY <1>1, <3>1, <3>2
  <2>3. s[k].is \in Outputs => k - 1 \in 1 .. m - 1
    BY <1>1, <1>6, <2>1
  <2> QED
    BY <1>4, <1>6, <2>1, <2>2, <2>3
<1>8. ASSUME NEW k \in 1 .. n - m + 1
      PROVE  /\ b[k].is = "call" =>
                  k + 1 \in DOMAIN b /\ b[k + 1].is \in Outputs /\ b[k + 1].n = b[k].n
             /\ b[k].is \in Outputs =>
                  k - 1 \in DOMAIN b /\ b[k - 1].is = "call" /\ b[k - 1].n = b[k].n
             /\ b[k].is \notin {"summary", "server"} => b[k].of = {}
  <2>1. PICK i \in 1 .. n : i = m + k - 1 /\ i + 1 = m + (k + 1) - 1 /\ i - 1 = m + (k - 1) - 1
    BY <1>1
  <2>2. b[k] = s[i]
    BY <1>5, <2>1
  <2>3. s[i].is = "call" => k + 1 \in 1 .. n - m + 1
    <3>1. s[i].is = "call" => i + 1 \in 1 .. n
      BY <1>6
    <3> QED
      BY <1>1, <2>1, <3>1
  <2>4. s[i].is \in Outputs => k - 1 \in 1 .. n - m + 1
    <3>1. s[i].is \in Outputs => i # m
      BY <1>1, <2>1
    <3> QED
      BY <1>1, <2>1, <3>1
  <2>5. k + 1 \in 1 .. n - m + 1 => b[k + 1] = s[i + 1]
    BY <1>5, <2>1
  <2>6. k - 1 \in 1 .. n - m + 1 => b[k - 1] = s[i - 1]
    BY <1>5, <2>1
  <2> QED
    BY <1>5, <1>6, <2>2, <2>3, <2>4, <2>5, <2>6
<1>9. Well(a)
  BY <1>4, <1>7 DEF Well
<1>10. Well(b)
  BY <1>5, <1>8 DEF Well
<1> QED
  BY <1>1, <1>2, <1>3, <1>9, <1>10

\* One item that needs no other beside it.
Lone == ItemKinds \ ({"call"} \cup Outputs)
LEMMA LoneIs ==
    ASSUME NEW x \in Items, x.is \in Lone, x.is \notin {"summary", "server"} => x.of = {}
    PROVE  /\ <<x>> \in Histories /\ Well(<<x>>) /\ Stands(<<x>>) = HeldBy(x)
           /\ DOMAIN <<x>> = {1} /\ <<x>>[1] = x
           /\ \A is : x.is # is => Where(<<x>>, is) = {}
           /\ \A is : x.is = is => LastOf(<<x>>, is) = <<x>>
<1>1. PICK l : l = <<x>>
  OBVIOUS
<1>2. l \in Histories /\ DOMAIN l = {1} /\ l[1] = x
  BY <1>1 DEF Histories
<1>3. Well(l)
  BY <1>2 DEF Well, Lone, Outputs
<1>4. Stands(l) = HeldBy(x)
  BY <1>2, StandsOf
<1>5. \A is : x.is # is => Where(l, is) = {}
  BY <1>2 DEF Where
<1>6. ASSUME NEW is, x.is = is PROVE LastOf(l, is) = l
  <2>1. LastOf(l, is) = <<l[1]>>
    BY <1>2, <1>6, LastIs
  <2> QED
    BY <1>1, <1>2, <2>1
<1> QED
  BY <1>1, <1>2, <1>3, <1>4, <1>5, <1>6

LEMMA AppendIs ==
    ASSUME NEW s \in Histories, NEW x \in Items
    PROVE  Append(s, x) = s \o <<x>>
<1>1. PICK n \in Nat : n = Len(s) /\ DOMAIN s = 1 .. n
  BY HistoryHas
<1>2. PICK l : l = <<x>>
  OBVIOUS
<1>3. l \in Histories /\ Len(l) = 1 /\ DOMAIN l = {1} /\ l[1] = x
  BY <1>2 DEF Histories
<1>4. PICK a : a = Append(s, x)
  OBVIOUS
<1>5. a \in Histories /\ Len(a) = n + 1 /\ DOMAIN a = 1 .. n + 1 /\ a[n + 1] = x /\ \A k \in 1 .. n : a[k] = s[k]
  BY <1>1, <1>4 DEF Histories
<1>6. PICK j : j = s \o l
  OBVIOUS
<1>7. j \in Histories /\ Len(j) = n + 1 /\ j[n + 1] = x /\ \A k \in 1 .. n : j[k] = s[k]
  <2>1. 1 \in DOMAIN l
    BY <1>3
  <2>2. j[n + 1] = l[1]
    BY <1>1, <1>3, <1>6, <2>1, JoinedAre
  <2>3. \A k \in DOMAIN s : j[k] = s[k]
    BY <1>3, <1>6, JoinedAre
  <2>4. j \in Histories /\ Len(j) = Len(s) + Len(l)
    BY <1>3, <1>6, JoinedAre
  <2> QED
    BY <1>1, <1>3, <2>2, <2>3, <2>4
<1>8. \A k \in 1 .. n + 1 : a[k] = j[k]
  <2>1. \A k \in 1 .. n + 1 : k \in 1 .. n \/ k = n + 1
    BY <1>1
  <2> QED
    BY <1>5, <1>7, <2>1
<1>9. a = j
  BY <1>1, <1>5, <1>7, <1>8, SeqEqual DEF Histories
<1> QED
  BY <1>2, <1>4, <1>6, <1>9

\* What a compacted history is to the one it was made of: it stands for as much, and has the
\* same environment.
SamePlace(s, t) == LastOf(t, "env") = LastOf(s, "env")
LEMMA PlaceTold ==
    ASSUME NEW s \in Histories, NEW t \in Histories, SamePlace(s, t)
    PROVE  ToldPlace(t) = ToldPlace(s)
<1>1. Where(s, "env") = {} <=> LastOf(s, "env") = <<>>
  BY LastAlone
<1>2. Where(t, "env") = {} <=> LastOf(t, "env") = <<>>
  BY LastAlone
<1> QED
  BY <1>1, <1>2 DEF SamePlace, ToldPlace

LEMMA EffortTold ==
    ASSUME NEW s \in Histories, NEW t \in Histories, NEW request,
           LastOf(t, "effort") = LastOf(s, "effort")
    PROVE  Announced(t, request) = Announced(s, request)
<1>1. Where(s, "effort") = {} <=> LastOf(s, "effort") = <<>>
  BY LastAlone
<1>2. Where(t, "effort") = {} <=> LastOf(t, "effort") = <<>>
  BY LastAlone
<1> QED
  BY <1>1, <1>2 DEF Announced

\* Evicting makes short of some long outputs.
LEMMA EvictIs ==
    ASSUME NEW s \in Histories, NEW excess
    PROVE  /\ Evict(s, excess) \in Histories /\ DOMAIN Evict(s, excess) = DOMAIN s
           /\ \A i \in DOMAIN s :
                 \/ Evict(s, excess)[i] = s[i]
                 \/ s[i].is = "long" /\ Evict(s, excess)[i] = Piece("gone", s[i].n)
<1>1. PICK n \in Nat : n = Len(s) /\ DOMAIN s = 1 .. n
  BY HistoryHas
<1>2. PICK out : out = Evicted(s, excess)
  OBVIOUS
<1>3. \A i \in out : s[i].is = "long"
  BY <1>2 DEF Evicted, Old, Where
<1>4. PICK t : t = Evict(s, excess)
  OBVIOUS
<1>5. t = [i \in 1 .. n |-> IF i \in out THEN Piece("gone", s[i].n) ELSE s[i]]
  BY <1>1, <1>2, <1>4 DEF Evict
<1>6. \A i \in 1 .. n : t[i] = s[i] \/ (s[i].is = "long" /\ t[i] = Piece("gone", s[i].n))
  BY <1>3, <1>5
<1>7. \A i \in 1 .. n : t[i] \in Items
  <2>1. \A i \in 1 .. n : s[i] \in Items /\ s[i].n \in Nat
    BY <1>1, HistoryHas
  <2>2. \A i \in 1 .. n : Piece("gone", s[i].n) \in Items
    BY <2>1, PieceIs DEF ItemKinds
  <2> QED
    BY <1>6, <2>1, <2>2
<1>8. t \in Histories /\ DOMAIN t = 1 .. n
  BY <1>1, <1>5, <1>7 DEF Histories
<1> QED
  BY <1>1, <1>4, <1>6, <1>8

LEMMA EvictKeeps ==
    ASSUME NEW s \in Histories, NEW excess
    PROVE  /\ Evict(s, excess) \in Histories
           /\ Users(Evict(s, excess)) = Users(s)
           /\ \A is : is \notin {"long", "gone"} => LastOf(Evict(s, excess), is) = LastOf(s, is)
           /\ Well(s) => Well(Evict(s, excess)) /\ Stands(Evict(s, excess)) = Stands(s)
<1>1. PICK t : t = Evict(s, excess)
  OBVIOUS
<1>2. /\ t \in Histories /\ DOMAIN t = DOMAIN s
      /\ \A i \in DOMAIN s : t[i] = s[i] \/ (s[i].is = "long" /\ t[i] = Piece("gone", s[i].n))
  BY <1>1, EvictIs
<1>3. \A i \in DOMAIN s : t[i] = s[i] \/ (s[i].is = "long" /\ t[i].is = "gone" /\ t[i].n = s[i].n /\ t[i].of = {})
  BY <1>2, HistoryHas, PieceIs
<1>4. Users(t) = Users(s)
  BY <1>2, <1>3 DEF Users, IsUser
<1>5. ASSUME NEW is, is \notin {"long", "gone"} PROVE LastOf(t, is) = LastOf(s, is)
  <2>1. \A i \in DOMAIN s : (t[i].is = is <=> s[i].is = is) /\ (s[i].is = is => t[i] = s[i])
    BY <1>3, <1>5
  <2>2. Where(t, is) = Where(s, is)
    BY <1>2, <2>1 DEF Where
  <2>3. CASE Where(s, is) = {}
    BY <2>2, <2>3 DEF LastOf
  <2>4. CASE Where(s, is) # {}
    <3>1. PICK e \in DOMAIN s : s[e].is = is /\ \A k \in DOMAIN s : s[k].is = is => k <= e
      BY <2>4, LastThere
    <3>2. LastOf(s, is) = <<s[e]>>
      BY <3>1, LastIs
    <3>3. LastOf(t, is) = <<t[e]>>
      BY <1>2, <2>1, <3>1, LastIs
    <3> QED
      BY <2>1, <3>1, <3>2, <3>3
  <2> QED
    BY <2>3, <2>4
<1>6. ASSUME Well(s) PROVE Well(t)
  <2>1. \A i \in DOMAIN s :
          /\ t[i].is = "call" <=> s[i].is = "call"
          /\ t[i].is \in Outputs <=> s[i].is \in Outputs
          /\ t[i].n = s[i].n
          /\ t[i].of = s[i].of \/ t[i].of = {}
          /\ t[i].is \in {"summary", "server"} <=> s[i].is \in {"summary", "server"}
    BY <1>3 DEF Outputs
  <2> QED
    BY <1>2, <1>6, <2>1 DEF Well
<1>7. ASSUME Well(s) PROVE Stands(t) = Stands(s)
  <2>1. \A i \in DOMAIN s : s[i].is = "long" => s[i].of = {}
    BY <1>7 DEF Well
  <2>2. \A i \in DOMAIN s : HeldBy(t[i]) = HeldBy(s[i])
    BY <1>3, <2>1 DEF HeldBy
  <2>3. \A x : x \in Stands(t) <=> x \in Stands(s)
    BY <1>2, <2>2, StandsOf
  <2> QED
    BY <2>3
<1> QED
  BY <1>1, <1>2, <1>4, <1>5, <1>6, <1>7

\* The first message and the last.
LEMMA MessagesOf ==
    ASSUME NEW s \in Histories, Folds(s)
    PROVE  Min(Users(s)) \in Users(s) /\ Max(Users(s)) \in Users(s)
<1>1. PICK n \in Nat : n = Len(s) /\ DOMAIN s = 1 .. n
  BY HistoryHas
<1>2. PICK U : U = Users(s)
  OBVIOUS
<1>3. U \subseteq 1 .. n /\ U \in SUBSET (0 .. n)
  BY <1>1, <1>2 DEF Users
<1>4. U # {}
  BY <1>2, FS_EmptySet DEF Folds
<1>5. PICK e \in U : \A y \in U : y <= e
  BY <1>3, <1>4, GreatestOf
<1>6. PICK d \in U : \A y \in U : d <= y
  BY <1>3, <1>4, LeastOf
<1>7. Max(U) \in U
  BY <1>5 DEF Max
<1>8. Min(U) \in U
  BY <1>6 DEF Min
<1> QED
  BY <1>2, <1>7, <1>8

\* Messages of the user need nothing beside them.
LEMMA MessagesAlone ==
    ASSUME NEW t \in Histories, \A i \in DOMAIN t : IsUser(t[i])
    PROVE  /\ Where(t, "env") = {}
           /\ (\A i \in DOMAIN t : t[i].is # "summary" => t[i].of = {}) => Well(t)
<1>1. \A i \in DOMAIN t : t[i].is \in {"user", "summary", "abort"}
  BY DEF IsUser
<1>2. Where(t, "env") = {}
  BY <1>1 DEF Where
<1>3. ASSUME \A i \in DOMAIN t : t[i].is # "summary" => t[i].of = {} PROVE Well(t)
  <2>1. \A i \in DOMAIN t : t[i].is # "call" /\ t[i].is \notin Outputs
    BY <1>1 DEF Outputs
  <2> QED
    BY <1>3, <2>1 DEF Well
<1> QED
  BY <1>2, <1>3

LEMMA PlaceAlone ==
    ASSUME NEW s \in Histories
    PROVE  LastOf(s, "env") \in Histories /\ (Well(s) => Well(LastOf(s, "env")))
<1>1. PICK l : l = LastOf(s, "env")
  OBVIOUS
<1>2. /\ l \in Histories
      /\ \A k \in DOMAIN l : l[k].is = "env" /\ \E e \in DOMAIN s : l[k] = s[e]
  BY <1>1, LastAlone
<1>3. ASSUME Well(s) PROVE Well(l)
  <2>1. \A k \in DOMAIN l : l[k].of = {}
    BY <1>2, <1>3 DEF Well
  <2>2. \A k \in DOMAIN l : l[k].is # "call" /\ l[k].is \notin Outputs
    BY <1>2 DEF Outputs
  <2> QED
    BY <2>1, <2>2 DEF Well
<1> QED
  BY <1>1, <1>2, <1>3

\* The summary and what is kept of a history stand for all of it.
LEMMA FoldKeeps ==
    ASSUME NEW s \in Histories, Folds(s), NEW x \in Items, x.is = "summary"
    PROVE  /\ Fold(s, x) \in Histories /\ SamePlace(s, Fold(s, x))
           /\ Well(s) => Well(Fold(s, x)) /\ x.of \subseteq Stands(Fold(s, x))
<1>1. PICK n \in Nat : n = Len(s) /\ DOMAIN s = 1 .. n
  BY HistoryHas
<1>2. PICK u \in 1 .. n, m \in 1 .. n :
        u = Min(Users(s)) /\ m = Max(Users(s)) /\ IsUser(s[u]) /\ IsUser(s[m])
  BY <1>1, MessagesOf DEF Users
<1>3. PICK p : p = <<s[u], x>>
  OBVIOUS
<1>4. s[u] \in Items /\ IsUser(x)
  BY <1>1, HistoryHas DEF IsUser
<1>5. p \in Histories /\ DOMAIN p = {1, 2} /\ p[1] = s[u] /\ p[2] = x
  <2>1. p \in Seq(Items) /\ Len(p) = 2 /\ p[1] = s[u] /\ p[2] = x
    BY <1>3, <1>4
  <2>2. 1 .. 2 = {1, 2}
    OBVIOUS
  <2> QED
    BY <2>1, <2>2 DEF Histories
<1>6. \A i \in DOMAIN p : IsUser(p[i])
  BY <1>2, <1>4, <1>5
<1>7. PICK l : l = LastOf(s, "env")
  OBVIOUS
<1>8. l \in Histories /\ (Well(s) => Well(l))
  BY <1>7, PlaceAlone
<1>9. PICK b : b = SubSeq(s, m, n)
  OBVIOUS
<1>10. b \in Histories
  BY <1>1, <1>9, SliceIs
<1>11. PICK a \in Histories : a = SubSeq(s, 1, m - 1) /\ s = a \o b
  <2>1. m - 1 \in 0 .. Len(s) /\ m \in 1 .. Len(s) + 1
    BY <1>1
  <2> QED
    BY <1>1, <1>9, <2>1, FrontIs, CutInTwo
<1>12. Fold(s, x) = (l \o p) \o b
  BY <1>1, <1>2, <1>3, <1>7, <1>9 DEF Fold
<1>13. PICK h \in Histories : h = l \o p
  BY <1>5, <1>8, JoinedAre
<1>14. PICK t \in Histories : t = h \o b
  BY <1>10, <1>13, JoinedAre
<1>15. SamePlace(s, t)
  <2>1. LastOf(t, "env") = IF Where(b, "env") = {} THEN LastOf(h, "env") ELSE LastOf(b, "env")
    BY <1>10, <1>14, LastJoined
  <2>2. LastOf(s, "env") = IF Where(b, "env") = {} THEN LastOf(a, "env") ELSE LastOf(b, "env")
    <3>1. LastOf(a \o b, "env") = IF Where(b, "env") = {} THEN LastOf(a, "env") ELSE LastOf(b, "env")
      BY <1>10, LastJoined
    <3> QED
      BY <1>11, <3>1
  <2>3. LastOf(h, "env") = LastOf(l, "env")
    <3>1. Where(p, "env") = {}
      BY <1>5, <1>6, MessagesAlone
    <3> QED
      BY <1>5, <1>8, <1>13, <3>1, LastJoined
  <2>4. LastOf(l, "env") = LastOf(s, "env")
    BY <1>7, LastAlone
  <2> QED
    BY <2>1, <2>2, <2>3, <2>4 DEF SamePlace
<1>16. ASSUME Well(s) PROVE Well(t) /\ x.of \subseteq Stands(t)
  <2>1. Well(p)
    <3>1. s[u].is # "summary" => s[u].of = {}
      BY <1>1, <1>2, <1>16 DEF Well, IsUser
    <3>2. \A i \in DOMAIN p : p[i].is # "summary" => p[i].of = {}
      BY <1>5, <3>1
    <3> QED
      BY <1>5, <1>6, <3>2, MessagesAlone
  <2>2. Well(h)
    BY <1>5, <1>8, <1>13, <1>16, <2>1, WellJoined
  <2>3. Well(b)
    <3>1. m \in 1 .. Len(s) + 1 /\ s[m].is \notin Outputs
      BY <1>1, <1>2 DEF IsUser, Outputs
    <3> QED
      BY <1>1, <1>9, <1>16, <3>1, WellCut
  <2>4. Well(t)
    BY <1>10, <1>13, <1>14, <2>2, <2>3, WellJoined
  <2>5. x.of \subseteq Stands(p)
    <3>1. HeldBy(p[2]) = x.of
      BY <1>5 DEF HeldBy
    <3> QED
      BY <1>5, <3>1, StandsOf
  <2>6. Stands(p) \subseteq Stands(h)
    BY <1>5, <1>8, <1>13, StandsJoined
  <2>7. Stands(h) \subseteq Stands(t)
    BY <1>10, <1>13, <1>14, StandsJoined
  <2> QED
    BY <2>4, <2>5, <2>6, <2>7
<1> QED
  BY <1>12, <1>13, <1>14, <1>15, <1>16

\* So do the messages kept and the item that came from the server.
LEMMA InstallKeeps ==
    ASSUME NEW s \in Histories, NEW x \in Items, x.is = "server"
    PROVE  /\ Install(s, x) \in Histories /\ SamePlace(s, Install(s, x))
           /\ Well(s) => Well(Install(s, x)) /\ x.of \subseteq Stands(Install(s, x))
<1>1. PICK o : o = Only(s, Users(s))
  OBVIOUS
<1>2. PICK e : Placed(s, Users(s), o, e)
  BY <1>1, OnlyOf DEF Users
<1>3. PICK n \in Nat : o \in Histories /\ n = Len(o) /\ DOMAIN o = 1 .. n
  BY <1>2, HistoryHas DEF Placed
<1>4. \A k \in 1 .. n : e[k] \in DOMAIN s /\ o[k] = s[e[k]] /\ IsUser(o[k])
  BY <1>2, <1>3 DEF Placed, Users
<1>5. PICK k \in 1 .. n + 1 : k = n - Min({Retained, n}) + 1
  <2>1. Min({Retained, n}) \in 0 .. n
    <3>1. \E y \in {Retained, n} : \A z \in {Retained, n} : y <= z
      BY RetainedAssumption
    <3>2. Min({Retained, n}) \in {Retained, n} /\ Min({Retained, n}) <= n
      BY <3>1 DEF Min
    <3> QED
      BY <3>2, RetainedAssumption
  <2> QED
    BY <2>1
<1>6. PICK b : b = SubSeq(o, k, n)
  OBVIOUS
<1>7. b \in Histories /\ \A i \in DOMAIN b : i \in 1 .. n - k + 1 /\ b[i] = o[k + i - 1]
  BY <1>3, <1>6, SliceIs
<1>8. \A i \in DOMAIN b : \E q \in DOMAIN s : b[i] = s[q] /\ IsUser(b[i])
  <2>1. \A i \in 1 .. n - k + 1 : k + i - 1 \in 1 .. n
    OBVIOUS
  <2> QED
    BY <1>4, <1>7, <2>1
<1>9. PICK l : l = LastOf(s, "env")
  OBVIOUS
<1>10. l \in Histories /\ (Well(s) => Well(l))
  BY <1>9, PlaceAlone
<1>11. Install(s, x) = (l \o b) \o <<x>>
  BY <1>1, <1>3, <1>5, <1>6, <1>9 DEF Install
<1>12. PICK h \in Histories : h = l \o b
  BY <1>7, <1>10, JoinedAre
<1>13. PICK c : c = <<x>>
  OBVIOUS
<1>14. c \in Histories /\ Well(c) /\ Stands(c) = x.of /\ Where(c, "env") = {}
  <2>1. x.is \in Lone /\ x.is # "env" /\ HeldBy(x) = x.of
    BY DEF Lone, ItemKinds, Outputs, HeldBy
  <2> QED
    BY <1>13, <2>1, LoneIs
<1>15. PICK t \in Histories : t = h \o c
  BY <1>12, <1>14, JoinedAre
<1>16. SamePlace(s, t)
  <2>1. LastOf(t, "env") = LastOf(h, "env")
    BY <1>12, <1>14, <1>15, LastJoined
  <2>2. LastOf(h, "env") = LastOf(l, "env")
    <3>1. Where(b, "env") = {}
      BY <1>7, <1>8, MessagesAlone
    <3> QED
      BY <1>7, <1>10, <1>12, <3>1, LastJoined
  <2>3. LastOf(l, "env") = LastOf(s, "env")
    BY <1>9, LastAlone
  <2> QED
    BY <2>1, <2>2, <2>3 DEF SamePlace
<1>17. ASSUME Well(s) PROVE Well(t) /\ x.of \subseteq Stands(t)
  <2>1. Well(b)
    <3>1. \A q \in DOMAIN s : IsUser(s[q]) /\ s[q].is # "summary" => s[q].of = {}
      BY <1>17 DEF Well, IsUser
    <3>2. \A i \in DOMAIN b : b[i].is # "summary" => b[i].of = {}
      BY <1>8, <3>1
    <3> QED
      BY <1>7, <1>8, <3>2, MessagesAlone
  <2>2. Well(h)
    BY <1>7, <1>10, <1>12, <1>17, <2>1, WellJoined
  <2>3. Well(t)
    BY <1>12, <1>14, <1>15, <2>2, WellJoined
  <2> QED
    BY <1>12, <1>14, <1>15, <2>3, StandsJoined
<1> QED
  BY <1>11, <1>12, <1>13, <1>15, <1>16, <1>17

\* A call is readable as its output is, and nothing between the two is dropped.
LEMMA ReadableKeeps ==
    ASSUME NEW s \in Histories
    PROVE  Readable(s) \in Histories /\ (Well(s) => Well(Readable(s)))
<1>1. PICK at : at = {i \in DOMAIN s : s[i].is \notin {"effort", "server"}}
  OBVIOUS
<1>2. PICK o : o = Readable(s)
  OBVIOUS
<1>3. at \in SUBSET DOMAIN s
  BY <1>1
<1>4. PICK e : Placed(s, at, o, e)
  <2>1. o = Only(s, at)
    BY <1>1, <1>2 DEF Readable
  <2> QED
    BY <1>3, <2>1, OnlyOf
<1>5. PICK n \in Nat : o \in Histories /\ n = Len(o) /\ DOMAIN o = 1 .. n
  BY <1>4, HistoryHas DEF Placed
<1>6. PICK m \in Nat : m = Len(s) /\ DOMAIN s = 1 .. m
  BY HistoryHas
<1>7. /\ \A k \in 1 .. n : e[k] \in at /\ e[k] \in 1 .. m /\ o[k] = s[e[k]]
      /\ \A k, l \in 1 .. n : k < l => e[k] < e[l]
      /\ \A i \in at : \E k \in 1 .. n : e[k] = i
  BY <1>3, <1>4, <1>5, <1>6 DEF Placed
<1>8. ASSUME NEW k \in 1 .. n, NEW l \in 1 .. n, e[l] = e[k] + 1 PROVE l = k + 1
  <2>1. k < l
    <3>1. l < k => e[l] < e[k]
      BY <1>7
    <3>2. e[k] \in 1 .. m
      BY <1>7
    <3> QED
      BY <1>8, <3>1, <3>2
  <2>2. k + 1 < l => FALSE
    <3>1. ASSUME k + 1 < l PROVE FALSE
      <4>1. k + 1 \in 1 .. n /\ k < k + 1
        BY <3>1
      <4>2. e[k] < e[k + 1] /\ e[k + 1] < e[l] /\ e[k + 1] \in 1 .. m /\ e[k] \in 1 .. m
        BY <1>7, <3>1, <4>1
      <4> QED
        BY <1>8, <4>2
    <3> QED
      BY <3>1
  <2> QED
    BY <2>1, <2>2
<1>9. ASSUME Well(s) PROVE Well(o)
  <2>1. ASSUME NEW k \in 1 .. n, o[k].is = "call"
        PROVE  k + 1 \in 1 .. n /\ o[k + 1].is \in Outputs /\ o[k + 1].n = o[k].n
    <3>1. PICK i \in 1 .. m : i = e[k] + 1 /\ s[i].is \in Outputs /\ s[i].n = o[k].n
      BY <1>6, <1>7, <1>9, <2>1 DEF Well
    <3>2. i \in at
      BY <1>1, <1>6, <3>1 DEF Outputs
    <3>3. PICK l \in 1 .. n : e[l] = i
      BY <1>7, <3>2
    <3>4. l = k + 1
      BY <1>8, <3>1, <3>3
    <3> QED
      BY <1>7, <3>1, <3>3, <3>4
  <2>2. ASSUME NEW k \in 1 .. n, o[k].is \in Outputs
        PROVE  k - 1 \in 1 .. n /\ o[k - 1].is = "call" /\ o[k - 1].n = o[k].n
    <3>1. PICK i \in 1 .. m : i = e[k] - 1 /\ s[i].is = "call" /\ s[i].n = o[k].n
      BY <1>6, <1>7, <1>9, <2>2 DEF Well
    <3>2. i \in at
      BY <1>1, <1>6, <3>1
    <3>3. PICK l \in 1 .. n : e[l] = i
      BY <1>7, <3>2
    <3>4. e[k] = e[l] + 1
      <4>1. e[k] \in 1 .. m
        BY <1>7
      <4> QED
        BY <3>1, <3>3, <4>1
    <3>5. k = l + 1
      BY <1>8, <3>4
    <3>6. l = k - 1
      BY <3>5
    <3> QED
      BY <1>7, <3>1, <3>3, <3>6
  <2>3. \A k \in 1 .. n : o[k].is \notin {"summary", "server"} => o[k].of = {}
    BY <1>6, <1>7, <1>9 DEF Well
  <2> QED
    BY <1>5, <2>1, <2>2, <2>3 DEF Well
<1> QED
  BY <1>2, <1>5, <1>9

\* An item that stands for nothing goes and leaves the rest.
LEMMA RemovalKeeps ==
    ASSUME NEW s \in Histories, NEW at \in DOMAIN s
    PROVE  /\ RemoveAt(s, at) \in Histories
           /\ Well(s) /\ s[at].is = "effort" =>
                Well(RemoveAt(s, at)) /\ Stands(s) \subseteq Stands(RemoveAt(s, at))
<1>1. PICK n \in Nat : n = Len(s) /\ DOMAIN s = 1 .. n
  BY HistoryHas
<1>2. PICK a \in Histories : a = SubSeq(s, 1, at - 1) /\ DOMAIN a = 1 .. at - 1 /\ \A k \in 1 .. at - 1 : a[k] = s[k]
  <2>1. at - 1 \in 0 .. Len(s)
    BY <1>1
  <2> QED
    BY <2>1, FrontIs
<1>3. at + 1 \in 1 .. Len(s) + 1
  BY <1>1
<1>4. PICK b \in Histories : /\ b = SubSeq(s, at + 1, n) /\ DOMAIN b = 1 .. n - at
                             /\ \A k \in 1 .. n - at : b[k] = s[at + k]
  <2>1. PICK b : b = SubSeq(s, at + 1, n)
    OBVIOUS
  <2>2. /\ b \in Histories /\ DOMAIN b = 1 .. n - (at + 1) + 1
        /\ \A k \in 1 .. n - (at + 1) + 1 : b[k] = s[(at + 1) + k - 1]
    BY <1>1, <1>3, <2>1, SliceIs
  <2>3. n - (at + 1) + 1 = n - at
    BY <1>1
  <2>4. ASSUME NEW k \in 1 .. n - at PROVE b[k] = s[at + k]
    <3>1. (at + 1) + k - 1 = at + k
      BY <1>1
    <3>2. b[k] = s[(at + 1) + k - 1]
      BY <2>2, <2>3
    <3> QED
      BY <3>1, <3>2
  <2>5. DOMAIN b = 1 .. n - at
    BY <2>2, <2>3
  <2> QED
    BY <2>1, <2>2, <2>4, <2>5
<1>5. PICK t \in Histories : t = a \o b
  BY JoinedAre
<1>6. RemoveAt(s, at) = t
  BY <1>1, <1>2, <1>4, <1>5 DEF RemoveAt
<1>7. ASSUME Well(s), s[at].is = "effort" PROVE Well(t) /\ Stands(s) \subseteq Stands(t)
  <2>1. Well(a)
    <3>1. at \in 1 .. Len(s) + 1 /\ s[at].is \notin Outputs
      BY <1>1, <1>7 DEF Outputs
    <3> QED
      BY <1>2, <1>7, <3>1, WellCut
  <2>2. Well(b)
    <3>1. at + 1 = Len(s) + 1 \/ s[at + 1].is \notin Outputs
      <4>1. CASE at + 1 \in 1 .. n
        <5>1. s[at + 1].is \in Outputs => s[(at + 1) - 1].is = "call"
          BY <1>1, <1>7, <4>1 DEF Well
        <5>2. (at + 1) - 1 = at
          BY <1>1
        <5> QED
          BY <1>7, <5>1, <5>2
      <4> QED
        BY <1>1, <4>1
    <3> QED
      BY <1>1, <1>3, <1>4, <1>7, <3>1, WellCut
  <2>3. Well(t)
    BY <1>5, <2>1, <2>2, WellJoined
  <2>4. ASSUME NEW x \in Stands(s) PROVE x \in Stands(t)
    <3>1. PICK i \in 1 .. n : x \in HeldBy(s[i])
      BY <1>1, <2>4, StandsOf
    <3>2. i # at
      <4>1. HeldBy(s[at]) = {}
        BY <1>7 DEF Well, HeldBy
      <4> QED
        BY <3>1, <4>1
    <3>3. CASE i < at
      <4>1. i \in 1 .. at - 1 /\ a[i] = s[i]
        BY <1>1, <1>2, <3>3
      <4>2. x \in Stands(a)
        BY <1>2, <3>1, <4>1, StandsOf
      <4> QED
        BY <1>5, <4>2, StandsJoined
    <3>4. CASE i > at
      <4>1. i - at \in 1 .. n - at /\ at + (i - at) = i
        BY <1>1, <3>4
      <4>2. b[i - at] = s[i]
        BY <1>4, <4>1
      <4>3. x \in Stands(b)
        BY <1>4, <3>1, <4>1, <4>2, StandsOf
      <4> QED
        BY <1>5, <4>3, StandsJoined
    <3> QED
      BY <1>1, <3>2, <3>3, <3>4
  <2> QED
    BY <2>3, <2>4
<1> QED
  BY <1>6, <1>7

\* A message taken back from the end takes only itself.
LEMMA FrontKeeps ==
    ASSUME NEW s \in Histories
    PROVE  /\ Front(s) \in Histories
           /\ Well(s) /\ s # <<>> /\ Last(s).is = "user" =>
                Well(Front(s)) /\ Stands(s) \ {Last(s).n} \subseteq Stands(Front(s))
<1>1. PICK n \in Nat : n = Len(s) /\ DOMAIN s = 1 .. n
  BY HistoryHas
<1>2. CASE n = 0
  <2>1. s = <<>>
    BY <1>1, <1>2 DEF Histories
  <2>2. PICK t : t = SubSeq(s, 1, n - 1)
    OBVIOUS
  <2>3. t \in Histories
    BY <1>1, <1>2, <2>2 DEF Histories
  <2> QED
    BY <1>1, <2>1, <2>2, <2>3 DEF Front
<1>3. CASE n # 0
  <2>1. n - 1 \in 0 .. Len(s) /\ n \in 1 .. Len(s) + 1 /\ n \in DOMAIN s
    BY <1>1, <1>3
  <2>2. PICK a \in Histories : a = SubSeq(s, 1, n - 1) /\ DOMAIN a = 1 .. n - 1 /\ \A k \in 1 .. n - 1 : a[k] = s[k]
    BY <2>1, FrontIs
  <2>3. Front(s) = a /\ Last(s) = s[n]
    BY <1>1, <2>2 DEF Front, Last
  <2>4. ASSUME Well(s), s[n].is = "user" PROVE Well(a) /\ Stands(s) \ {s[n].n} \subseteq Stands(a)
    <3>1. Well(a)
      BY <2>1, <2>2, <2>4, WellCut DEF Outputs
    <3>2. ASSUME NEW x \in Stands(s), x # s[n].n PROVE x \in Stands(a)
      <4>1. PICK i \in 1 .. n : x \in HeldBy(s[i])
        BY <1>1, <3>2, StandsOf
      <4>2. i # n
        BY <2>4, <3>2, <4>1 DEF HeldBy
      <4>3. i \in 1 .. n - 1
        BY <1>1, <4>2
      <4> QED
        BY <2>2, <4>1, <4>3, StandsOf
    <3> QED
      BY <3>1, <3>2
  <2> QED
    BY <2>3, <2>4
<1> QED
  BY <1>2, <1>3

\* A request that the history extends is extended by all that follows.
LEMMA PrefixGrows ==
    ASSUME NEW S, NEW g \in Seq(S), NEW s \in Seq(S), NEW j \in Seq(S), IsPrefix(g, s),
           Len(s) <= Len(j), \A i \in 1 .. Len(s) : j[i] = s[i]
    PROVE  IsPrefix(g, j)
<1>1. PICK n \in Nat, m \in Nat : n = Len(g) /\ m = Len(s) /\ n <= m
  BY DEF IsPrefix
<1>2. PICK a : a = SubSeq(g, 1, n)
  OBVIOUS
<1>3. PICK b : b = SubSeq(j, 1, n)
  OBVIOUS
<1>4. PICK c : c = SubSeq(s, 1, n)
  OBVIOUS
<1>5. a = c
  BY <1>1, <1>2, <1>4 DEF IsPrefix
<1>6. b \in Seq(S) /\ Len(b) = n /\ \A i \in 1 .. n : b[i] = j[i]
  BY <1>1, <1>3
<1>7. c \in Seq(S) /\ Len(c) = n /\ \A i \in 1 .. n : c[i] = s[i]
  BY <1>1, <1>4
<1>8. \A i \in 1 .. n : b[i] = c[i]
  BY <1>1, <1>6, <1>7
<1>9. b = c
  BY <1>6, <1>7, <1>8, SeqEqual
<1> QED
  BY <1>1, <1>2, <1>3, <1>5, <1>9 DEF IsPrefix

LEMMA MissesNone ==
    ASSUME NEW s \in Histories, Extended(s), NEW x
    PROVE  Misses(s) # "cut" /\ Misses(Append(s, x)) # "cut"
<1>1. PICK S : S = Items \cup {x}
  OBVIOUS
<1>2. Histories \subseteq Seq(S)
  BY <1>1 DEF Histories
<1>3. PICK j : j = Append(s, x)
  OBVIOUS
<1>4. s \in Seq(S)
  BY <1>2
<1>5. x \in S
  BY <1>1
<1>6. j \in Seq(S) /\ Len(j) = Len(s) + 1 /\ \A i \in 1 .. Len(s) : j[i] = s[i]
  BY <1>3, <1>4, <1>5
<1>7. ASSUME guard \in Histories, IsPrefix(guard, s) PROVE IsPrefix(guard, j)
  <2>1. guard \in Seq(S) /\ Len(s) <= Len(j)
    BY <1>2, <1>4, <1>6, <1>7
  <2> QED
    BY <1>4, <1>6, <1>7, <2>1, PrefixGrows
<1> QED
  BY <1>3, <1>7 DEF Misses, Extended

LEMMA SelfPrefix ==
    ASSUME NEW s \in Histories
    PROVE  IsPrefix(s, s)
<1>1. Len(s) \in Nat
  BY HistoryHas
<1> QED
  BY <1>1 DEF IsPrefix

LEMMA JoinedExtends ==
    ASSUME NEW s \in Histories, NEW t \in Histories, Extended(s)
    PROVE  Extended(s \o t)
<1>1. PICK j \in Histories : j = s \o t
  BY JoinedAre
<1>2. Len(s) <= Len(j) /\ \A i \in 1 .. Len(s) : j[i] = s[i]
  <2>1. Len(s) \in Nat /\ Len(t) \in Nat /\ DOMAIN s = 1 .. Len(s)
    BY HistoryHas
  <2>2. Len(j) = Len(s) + Len(t) /\ \A i \in DOMAIN s : j[i] = s[i]
    BY <1>1, JoinedAre
  <2> QED
    BY <2>1, <2>2
<1>3. s \in Seq(Items) /\ j \in Seq(Items)
  BY DEF Histories
<1>4. ASSUME guard \in Histories, IsPrefix(guard, s) PROVE IsPrefix(guard, j)
  <2>1. guard \in Seq(Items)
    BY <1>4 DEF Histories
  <2> QED
    BY <1>2, <1>3, <1>4, <2>1, PrefixGrows
<1> QED
  BY <1>1, <1>4 DEF Extended

\* What joins a history and tells neither the place nor the effort.
Plain(t) == t \in Histories /\ Well(t) /\ Where(t, "env") = {} /\ Where(t, "effort") = {}
LEMMA Grown ==
    ASSUME NEW s \in Histories, NEW t, Plain(t)
    PROVE  /\ s \o t \in Histories /\ SamePlace(s, s \o t) /\ LastOf(s \o t, "effort") = LastOf(s, "effort")
           /\ Well(s) => Well(s \o t)
           /\ Stands(s \o t) = Stands(s) \cup Stands(t)
           /\ Extended(s) => Extended(s \o t)
<1>1. t \in Histories /\ Well(t) /\ Where(t, "env") = {} /\ Where(t, "effort") = {}
  BY DEF Plain
<1>2. PICK j \in Histories : j = s \o t
  BY <1>1, JoinedAre
<1>3. SamePlace(s, j) /\ LastOf(j, "effort") = LastOf(s, "effort")
  BY <1>1, <1>2, LastJoined DEF SamePlace
<1>4. Stands(j) = Stands(s) \cup Stands(t) /\ (Well(s) => Well(j))
  BY <1>1, <1>2, StandsJoined, WellJoined
<1>5. Extended(s) => Extended(j)
  BY <1>1, <1>2, JoinedExtends
<1> QED
  BY <1>2, <1>3, <1>4, <1>5

LEMMA OneSaid ==
    ASSUME NEW is \in {"user", "say", "abort"}, NEW n \in Nat
    PROVE  /\ Plain(<<Piece(is, n)>>) /\ Piece(is, n) \in Items
           /\ is # "abort" => n \in Stands(<<Piece(is, n)>>)
<1>1. PICK x : x = Piece(is, n)
  OBVIOUS
<1>2. x \in Items /\ x.is = is /\ x.n = n /\ x.of = {} /\ x.is \in Lone
  BY <1>1, PieceIs DEF Lone, ItemKinds, Outputs
<1>3. /\ <<x>> \in Histories /\ Well(<<x>>) /\ Stands(<<x>>) = HeldBy(x)
      /\ Where(<<x>>, "env") = {} /\ Where(<<x>>, "effort") = {}
  BY <1>2, LoneIs
<1>4. is # "abort" => n \in HeldBy(x)
  BY <1>2 DEF HeldBy
<1> QED
  BY <1>1, <1>2, <1>3, <1>4 DEF Plain

LEMMA OneWork ==
    ASSUME NEW is \in {"long", "short"}, NEW n \in Nat
    PROVE  /\ Plain(<<Piece("call", n), Piece(is, n)>>)
           /\ n \in Stands(<<Piece("call", n), Piece(is, n)>>)
<1>1. PICK x \in Items : x = Piece("call", n) /\ x.is = "call" /\ x.n = n /\ x.of = {}
  BY PieceIs DEF ItemKinds
<1>2. PICK y \in Items : y = Piece(is, n) /\ y.is = is /\ y.n = n /\ y.of = {}
  BY PieceIs DEF ItemKinds
<1>3. PICK p : p = <<x, y>>
  OBVIOUS
<1>4. p \in Histories /\ DOMAIN p = {1, 2} /\ p[1] = x /\ p[2] = y
  <2>1. p \in Seq(Items) /\ Len(p) = 2 /\ p[1] = x /\ p[2] = y
    BY <1>3
  <2>2. 1 .. 2 = {1, 2}
    OBVIOUS
  <2> QED
    BY <2>1, <2>2 DEF Histories
<1>5. Where(p, "env") = {} /\ Where(p, "effort") = {}
  BY <1>1, <1>2, <1>4 DEF Where
<1>6. Well(p)
  BY <1>1, <1>2, <1>4 DEF Well, Outputs
<1>7. n \in Stands(p)
  <2>1. n \in HeldBy(p[1])
    BY <1>1, <1>4 DEF HeldBy
  <2> QED
    BY <1>4, <2>1, StandsOf
<1> QED
  BY <1>1, <1>2, <1>3, <1>4, <1>5, <1>6, <1>7 DEF Plain

LEMMA LastGrown ==
    ASSUME NEW s \in Histories, NEW x \in Items
    PROVE  s \o <<x>> # <<>> /\ Last(s \o <<x>>) = x
<1>1. PICK n \in Nat : n = Len(s)
  BY HistoryHas
<1>2. PICK a : a = Append(s, x)
  OBVIOUS
<1>3. a \in Histories /\ Len(a) = n + 1 /\ a[n + 1] = x
  BY <1>1, <1>2 DEF Histories
<1>4. a # <<>>
  BY <1>1, <1>3
<1> QED
  BY <1>2, <1>3, <1>4, AppendIs DEF Last

(* One compaction. *)
LEMMA Resumed ==
    ASSUME ConvoTypes, NEW from, NEW changed \in BOOLEAN, Resumes(from, changed)
    PROVE  /\ phase' \in {"idle", "step"} /\ next' \in {"no", "plain", "worded"}
           /\ turn' \in [err : {"none", "overflow", "bad", "failed"}, retried : BOOLEAN, update : Nat,
                         pure : BOOLEAN, rewritten : BOOLEAN, place : Nat]
           /\ turn'.place = turn.place /\ ~turn'.pure
           /\ phase' = "step" => from = "tool" \/ (from = "turn" /\ turn.err = "overflow" /\ turn'.rewritten)
           /\ ~turn'.rewritten => ~turn.rewritten /\ ~changed
<1>1. PICK again \in BOOLEAN : again = (from = "turn" /\ turn.err = "overflow" /\ changed /\ ~turn.retried)
  OBVIOUS
<1>2. /\ next' = IF from = "turn" \/ next = "no" THEN "no" ELSE IF from = "user" THEN "plain" ELSE next
      /\ phase' = IF from = "tool" \/ again THEN "step" ELSE "idle"
      /\ turn' = IF again THEN [turn EXCEPT !.err = "none", !.retried = TRUE, !.update = 0,
                                            !.pure = FALSE, !.rewritten = TRUE]
                 ELSE [turn EXCEPT !.pure = FALSE, !.rewritten = @ \/ changed]
  BY <1>1 DEF Resumes
<1>3. turn \in [err : {"none", "overflow", "bad", "failed"}, retried : BOOLEAN, update : Nat,
                pure : BOOLEAN, rewritten : BOOLEAN, place : Nat] /\ next \in {"no", "plain", "worded"}
  BY DEF ConvoTypes
<1>4. CASE again
  BY <1>1, <1>2, <1>3, <1>4
<1>5. CASE ~again
  <2>1. PICK r \in BOOLEAN : r = (turn.rewritten \/ changed)
    OBVIOUS
  <2>2. turn' = [turn EXCEPT !.pure = FALSE, !.rewritten = r]
    BY <1>2, <1>5, <2>1
  <2> QED
    BY <1>2, <1>3, <1>5, <2>1, <2>2
<1> QED
  BY <1>4, <1>5

\* What goes on after a compaction goes on as it should.
CopyTyped == copy = Unset \/ copy \in [made : BOOLEAN, items : Histories]
SpentTyped == spent \in [turns : Nat, steps : Nat, tricks : Nat]
\* What is known of the items that become the history, or are compacted into it.
Carried(items, from, changed) ==
    /\ Well(items) /\ lived' \subseteq Stands(items)
    /\ copy' # Unset => ~copy'.made
    /\ from = "tool" \/ (from = "turn" /\ turn.err = "overflow") => ToldPlace(items) = turn.place
    /\ from = "tool" /\ brain \in Able /\ ~turn.rewritten /\ ~changed => Announced(items, base) = effort
LEMMA Rests ==
    ASSUME ConvoTypes, NEW from, NEW changed \in BOOLEAN, Resumes(from, changed),
           convo' \in Histories, Extended(convo)', missed' # "cut",
           CopyTyped', SpentTyped', halted' \in BOOLEAN, UNCHANGED Setting, misplaced' \in BOOLEAN,
           misplaced' \/ Carried(convo', from, changed)
    PROVE  ConvoInv'
<1>1. /\ phase' \in {"idle", "step"} /\ next' \in {"no", "plain", "worded"}
      /\ turn' \in [err : {"none", "overflow", "bad", "failed"}, retried : BOOLEAN, update : Nat,
                    pure : BOOLEAN, rewritten : BOOLEAN, place : Nat]
      /\ turn'.place = turn.place /\ ~turn'.pure
      /\ phase' = "step" => from = "tool" \/ (from = "turn" /\ turn.err = "overflow" /\ turn'.rewritten)
      /\ ~turn'.rewritten => ~turn.rewritten /\ ~changed
  BY Resumed
<1>2. brain' = brain /\ base' = base /\ effort' = effort /\ place' = place
  BY DEF Setting
<1>3. ConvoTypes'
  <2>1. effort' \in Nat /\ base' \in Nat /\ place' \in {0, 1}
    BY <1>2 DEF ConvoTypes
  <2> QED
    BY <1>1, <2>1 DEF ConvoTypes, CopyTyped, SpentTyped
<1>4. GuardInv'
  BY DEF GuardInv
<1>5. ASSUME ~misplaced' PROVE SaidInv'
  <2>1. Carried(convo', from, changed)
    BY <1>5
  <2>2. CopyInv'
    BY <2>1 DEF CopyInv, Carried
  <2>3. PassInv'
    BY <1>1 DEF PassInv
  <2>4. phase' = "step" => ToldPlace(convo') = turn'.place
    BY <1>1, <2>1 DEF Carried
  <2>5. phase' = "step" /\ brain' \in Able /\ ~turn'.rewritten => Announced(convo', base') = effort'
    BY <1>1, <1>2, <2>1 DEF Carried
  <2>6. TurnInv'
    BY <1>1, <2>4, <2>5 DEF TurnInv, InTurn
  <2> QED
    BY <2>1, <2>2, <2>3, <2>6 DEF SaidInv, Carried
<1> QED
  BY <1>3, <1>4, <1>5 DEF ConvoInv

LEMMA PassBegins ==
    ASSUME ConvoTypes, NEW items \in Histories, Extended(items), missed # "cut",
           NEW by, NEW from \in {"user", "tool", "turn"}, NEW read, NEW worded, StartsPass(by, from, items, read, worded),
           CopyTyped', SpentTyped', halted' \in BOOLEAN, UNCHANGED Setting, UNCHANGED aside,
           misplaced \/ Carried(items, from, FALSE)
    PROVE  ConvoInv'
<1>0. misplaced' = misplaced /\ forsaken' = forsaken /\ misplaced \in BOOLEAN
  BY DEF aside, ConvoTypes
<1>1. PICK excess : excess = IF by = "size" THEN read - Aim ELSE IF by = "overflow" THEN Weight(items) ELSE 0
  OBVIOUS
<1>2. PICK left : left = Evict(items, excess)
  OBVIOUS
<1>3. /\ left \in Histories /\ SamePlace(items, left) /\ LastOf(left, "effort") = LastOf(items, "effort")
      /\ Well(items) => Well(left) /\ Stands(left) = Stands(items)
  BY <1>2, EvictKeeps DEF SamePlace
<1>4. ToldPlace(left) = ToldPlace(items) /\ \A request : Announced(left, request) = Announced(items, request)
  BY <1>3, PlaceTold, EffortTold
<1>5. misplaced \/ Carried(left, from, FALSE)
  BY <1>3, <1>4 DEF Carried
<1>6. \/ /\ IF left # items THEN Commit(left) ELSE convo' = items /\ UNCHANGED guard
         /\ Resumes(from, left # items)
         /\ UNCHANGED <<pass, missed>>
      \/ /\ Folds(left) /\ convo' = items
         /\ Calls(left, from, IF brain \in Able /\ ~worded THEN "trigger" ELSE "ask")
  BY <1>1, <1>2 DEF StartsPass
<1>7. ASSUME IF left # items THEN Commit(left) ELSE convo' = items /\ UNCHANGED guard,
             Resumes(from, left # items), UNCHANGED <<pass, missed>>
      PROVE  ConvoInv'
  <2>1. convo' = left /\ (guard' = Unset \/ (guard' = guard /\ left = items))
    BY <1>7 DEF Commit
  <2>2. Extended(convo)'
    BY <1>0, <2>1 DEF Extended
  <2>3. misplaced' \/ Carried(convo', from, left # items)
    BY <1>0, <1>5, <2>1 DEF Carried
  <2> QED
    BY <1>0, <1>3, <1>7, <2>1, <2>2, <2>3, Rests
<1>8. ASSUME NEW last, last = IF brain \in Able /\ ~worded THEN "trigger" ELSE "ask",
             Folds(left), convo' = items, Calls(left, from, last)
      PROVE  ConvoInv'
  <2>1. last \in {"trigger", "ask"}
    BY <1>8
  <2>2. PICK request : request = Append(left, Piece(last, 0))
    OBVIOUS
  <2>3. /\ guard' = request /\ missed' = IF left # convo' THEN "no" ELSE Misses(request)
        /\ pass' = [items |-> left, from |-> from, call |-> last] /\ phase' = "compacting"
        /\ size' = size /\ next' = next /\ turn' = turn
    BY <1>8, <2>2 DEF Calls
  <2>4. missed' # "cut"
    BY <1>8, <2>2, <2>3, MissesNone
  <2>5. ConvoTypes'
    BY <1>0, <1>3, <1>8, <2>1, <2>3 DEF ConvoTypes, CopyTyped, SpentTyped, Setting
  <2>6. ASSUME ~misplaced PROVE SaidInv'
    <3>1. Carried(left, from, FALSE) /\ Carried(items, from, FALSE)
      BY <1>5, <2>6
    <3>2. brain' = brain /\ base' = base /\ effort' = effort
      BY DEF Setting
    <3>3. pass'.items = left /\ pass'.from = from /\ pass'.call = last
      BY <2>3
    <3>4. PassInv'
      BY <2>2, <2>3, <3>1, <3>2, <3>3 DEF PassInv, Carried
    <3>5. CopyInv'
      BY <3>1 DEF CopyInv, Carried
    <3>6. TurnInv'
      BY <2>3 DEF TurnInv, InTurn
    <3> QED
      BY <1>8, <3>1, <3>4, <3>5, <3>6 DEF SaidInv, Carried
  <2> QED
    BY <1>0, <2>3, <2>4, <2>5, <2>6 DEF ConvoInv, GuardInv
<1> QED
  BY <1>6, <1>7, <1>8

\* The compaction that is under way ends on items that carry what it was given.
LEMMA PassEnds ==
    ASSUME ConvoInv, phase = "compacting", NEW t \in Histories, NEW changed \in BOOLEAN,
           convo' = t, Resumes(pass.from, changed), missed' # "cut", Extended(convo)',
           UNCHANGED <<halted, copy, Setting, lived, misplaced>>, SpentTyped',
           misplaced \/ (/\ Well(t) /\ lived \subseteq Stands(t) /\ SamePlace(pass.items, t)
                         /\ ~changed => t = pass.items)
    PROVE  ConvoInv'
<1>1. ConvoTypes /\ (misplaced \/ SaidInv) /\ misplaced' = misplaced /\ lived' = lived /\ copy' = copy
  BY DEF ConvoInv
<1>2. misplaced' \/ Carried(t, pass.from, changed)
  <2>1. SUFFICES ASSUME ~misplaced PROVE Carried(t, pass.from, changed)
    BY <1>1
  <2>2. CopyInv /\ PassInv /\ SamePlace(pass.items, t) /\ pass.items \in Histories
    BY <1>1, <2>1 DEF SaidInv, ConvoTypes
  <2>3. ToldPlace(t) = ToldPlace(pass.items)
    BY <2>2, PlaceTold
  <2>4. copy' # Unset => ~copy'.made
    BY <1>1, <2>2 DEF CopyInv
  <2>5. ~changed => Announced(t, base) = Announced(pass.items, base)
    BY <2>1
  <2> QED
    BY <1>1, <2>1, <2>2, <2>3, <2>4, <2>5 DEF Carried, PassInv
<1>3. CopyTyped' /\ halted' \in BOOLEAN /\ misplaced' \in BOOLEAN /\ UNCHANGED Setting
  BY <1>1 DEF ConvoTypes, CopyTyped
<1> QED
  BY <1>1, <1>2, <1>3, Rests

LEMMA TrickSpent ==
    ASSUME ConvoTypes, Trick \/ NoTrick
    PROVE  SpentTyped'
<1>1. spent \in [turns : Nat, steps : Nat, tricks : Nat]
  BY DEF ConvoTypes
<1>2. CASE NoTrick
  BY <1>1, <1>2 DEF NoTrick, SpentTyped
<1>3. CASE Trick
  BY <1>1, <1>3 DEF Trick, SpentTyped
<1> QED
  BY <1>2, <1>3

\* An item made of a history stands for it.
LEMMA MadeOf ==
    ASSUME NEW s \in Histories, NEW is \in {"summary", "server"}
    PROVE  [is |-> is, n |-> 0, of |-> Stands(s)] \in Items
<1>1. ASSUME NEW x \in Stands(s) PROVE x \in Nat
  <2>1. PICK i \in DOMAIN s : x \in HeldBy(s[i])
    BY <1>1, StandsOf
  <2>2. s[i].n \in Nat /\ s[i].of \in SUBSET Nat
    BY HistoryHas
  <2> QED
    BY <2>1, <2>2 DEF HeldBy
<1> QED
  BY <1>1 DEF Items, ItemKinds

LEMMA AnswerKeeps == ASSUME ConvoInv, PassAnswers PROVE ConvoInv'
<1>1. ConvoTypes /\ phase = "compacting" /\ missed # "cut" /\ (misplaced \/ SaidInv)
  BY DEF PassAnswers, ConvoInv, GuardInv
<1>2. PICK s \in Histories : s = pass.items /\ Folds(s)
  BY <1>1 DEF ConvoTypes
<1>3. PICK t : t = IF pass.call = "trigger" THEN Install(s, [is |-> "server", n |-> 0, of |-> Stands(s)])
                   ELSE Fold(s, [is |-> "summary", n |-> 0, of |-> Stands(s)])
  OBVIOUS
<1>4. t \in Histories /\ SamePlace(s, t) /\ (Well(s) => Well(t) /\ Stands(s) \subseteq Stands(t))
  <2>1. PICK x \in Items : x = [is |-> "server", n |-> 0, of |-> Stands(s)]
    BY MadeOf
  <2>2. PICK y \in Items : y = [is |-> "summary", n |-> 0, of |-> Stands(s)]
    BY MadeOf
  <2>3. x.is = "server" /\ x.of = Stands(s) /\ y.is = "summary" /\ y.of = Stands(s)
    BY <2>1, <2>2
  <2>4. Install(s, x) \in Histories /\ SamePlace(s, Install(s, x))
        /\ (Well(s) => Well(Install(s, x)) /\ Stands(s) \subseteq Stands(Install(s, x)))
    BY <2>3, InstallKeeps
  <2>5. Fold(s, y) \in Histories /\ SamePlace(s, Fold(s, y))
        /\ (Well(s) => Well(Fold(s, y)) /\ Stands(s) \subseteq Stands(Fold(s, y)))
    BY <1>2, <2>3, FoldKeeps
  <2> QED
    BY <1>3, <2>1, <2>2, <2>4, <2>5
<1>5. convo' = t /\ guard' = Unset /\ Resumes(pass.from, TRUE)
  BY <1>2, <1>3 DEF PassAnswers, Commit
<1>6. missed' # "cut" /\ UNCHANGED <<halted, copy, Setting, lived, misplaced>> /\ SpentTyped'
  BY <1>1, TrickSpent DEF PassAnswers, Settled, recalled, aside
<1>7. misplaced \/ (Well(s) /\ lived \subseteq Stands(s))
  BY <1>1, <1>2 DEF SaidInv, PassInv
<1>8. Extended(convo)'
  BY <1>5 DEF Extended
<1> QED
  BY <1>1, <1>2, <1>4, <1>5, <1>6, <1>7, <1>8, PassEnds

LEMMA OverflowKeeps == ASSUME ConvoInv, PassOverflows PROVE ConvoInv'
<1>1. ConvoTypes /\ phase = "compacting" /\ missed # "cut" /\ (misplaced \/ SaidInv)
  BY DEF PassOverflows, ConvoInv, GuardInv
<1>2. PICK s \in Histories : s = pass.items /\ Folds(s)
  BY <1>1 DEF ConvoTypes
<1>3. PICK x \in Items : x = [is |-> "summary", n |-> 0, of |-> Stands(s)]
  BY MadeOf
<1>4. PICK f : f = Fold(s, x)
  OBVIOUS
<1>5. f \in Histories /\ SamePlace(s, f) /\ (Well(s) => Well(f) /\ Stands(s) \subseteq Stands(f))
  BY <1>2, <1>3, <1>4, FoldKeeps
<1>6. PICK t : t = Evict(f, Weight(f))
  OBVIOUS
<1>7. t \in Histories /\ SamePlace(f, t) /\ (Well(f) => Well(t) /\ Stands(t) = Stands(f))
  BY <1>5, <1>6, EvictKeeps DEF SamePlace
<1>8. convo' = t /\ guard' = Unset /\ Resumes(pass.from, TRUE)
  BY <1>2, <1>3, <1>4, <1>6 DEF PassOverflows, Commit
<1>9. missed' # "cut" /\ UNCHANGED <<halted, copy, Setting, lived, misplaced>> /\ SpentTyped'
  BY <1>1, TrickSpent DEF PassOverflows, Settled, recalled, aside
<1>10. misplaced \/ (Well(s) /\ lived \subseteq Stands(s))
  BY <1>1, <1>2 DEF SaidInv, PassInv
<1>11. Extended(convo)' /\ SamePlace(s, t)
  BY <1>5, <1>7, <1>8 DEF Extended, SamePlace
<1> QED
  BY <1>1, <1>2, <1>5, <1>7, <1>8, <1>9, <1>10, <1>11, PassEnds

LEMMA PassFailKeeps == ASSUME ConvoInv, PassFails PROVE ConvoInv'
<1>1. ConvoTypes /\ phase = "compacting" /\ missed # "cut" /\ (misplaced \/ SaidInv)
  BY DEF PassFails, ConvoInv, GuardInv
<1>2. PICK s \in Histories : s = pass.items
  BY <1>1 DEF ConvoTypes
<1>3. convo' = s /\ Resumes(pass.from, FALSE) /\ (guard' = Unset \/ guard' = forsaken')
  BY <1>2 DEF PassFails, Commit
<1>4. missed' # "cut" /\ UNCHANGED <<halted, copy, Setting, lived, misplaced>> /\ SpentTyped'
  BY <1>1, TrickSpent DEF PassFails
<1>5. misplaced \/ (Well(s) /\ lived \subseteq Stands(s))
  BY <1>1, <1>2 DEF SaidInv, PassInv
<1>6. Extended(convo)' /\ SamePlace(s, s)
  BY <1>3 DEF Extended, SamePlace
<1> QED
  BY <1>1, <1>2, <1>3, <1>4, <1>5, <1>6, PassEnds

LEMMA ServerFailKeeps == ASSUME ConvoInv, ServerFails PROVE ConvoInv'
<1>1. /\ ConvoTypes /\ phase = "compacting" /\ (misplaced \/ SaidInv)
      /\ pass \in [items : Histories, from : {"user", "tool", "turn"}, call : {"trigger", "ask"}]
      /\ Folds(pass.items)
  BY DEF ServerFails, ConvoInv, ConvoTypes
<1>2. pass' = [pass EXCEPT !.call = "ask"] /\ missed' = "no" /\ guard' = Append(pass.items, Piece("ask", 0))
  BY DEF ServerFails, Afresh
<1>3. UNCHANGED <<convo, copy, size, phase, turn, halted, next, Setting, lived, aside>> /\ SpentTyped'
  BY <1>1, TrickSpent DEF ServerFails
<1>4. /\ pass' \in [items : Histories, from : {"user", "tool", "turn"}, call : {"trigger", "ask"}]
      /\ pass'.items = pass.items /\ pass'.from = pass.from /\ pass'.call = "ask"
  BY <1>1, <1>2
<1>5. ConvoTypes'
  BY <1>1, <1>3, <1>4 DEF ConvoTypes, Setting, aside, SpentTyped
<1>6. GuardInv'
  BY <1>1, <1>2, <1>3 DEF GuardInv
<1>7. ASSUME ~misplaced PROVE SaidInv'
  <2>1. CopyInv'
    BY <1>1, <1>3, <1>7 DEF SaidInv, CopyInv
  <2>2. PassInv'
    BY <1>1, <1>2, <1>3, <1>4, <1>7 DEF SaidInv, PassInv, Setting
  <2>3. TurnInv'
    BY <1>1, <1>3 DEF TurnInv, InTurn
  <2> QED
    BY <1>1, <1>3, <1>7, <2>1, <2>2, <2>3 DEF SaidInv
<1> QED
  BY <1>3, <1>5, <1>6, <1>7 DEF ConvoInv, aside

(* Between turns. *)
LEMMA DroppedIs ==
    ASSUME ConvoTypes, copy' = Dropped
    PROVE  CopyTyped' /\ (copy' # Unset => ~copy'.made)
<1>1. PICK none : none = <<>>
  OBVIOUS
<1>2. none \in Histories
  BY <1>1 DEF Histories
<1>3. [made |-> FALSE, items |-> none] \in [made : BOOLEAN, items : Histories]
  BY <1>2
<1> QED
  BY <1>1, <1>3 DEF Dropped, CopyTyped

\* A turn opens on items that stand for what was said.
LEMMA Opened ==
    ASSUME ConvoTypes, missed # "cut", NEW items \in Histories, OpenedOn(items),
           misplaced \/ (Well(items) /\ lived \subseteq Stands(items)),
           CopyTyped', copy' # Unset => ~copy'.made,
           guard' = Unset \/ (guard' = guard /\ Extended(items))
    PROVE  ConvoInv'
<1>1. PICK told \in Histories :
        /\ told = IF ToldPlace(items) = place THEN items ELSE Append(items, Piece("env", place))
        /\ (Well(items) => Well(told)) /\ Stands(items) \subseteq Stands(told)
        /\ (Extended(items) => Extended(told)) /\ ToldPlace(told) = place
  <2>1. CASE ToldPlace(items) = place
    BY <2>1
  <2>2. CASE ToldPlace(items) # place
    <3>1. PICK x \in Items : x = Piece("env", place) /\ x.is = "env" /\ x.n = place /\ x.of = {}
      BY PieceIs DEF ConvoTypes, ItemKinds
    <3>2. PICK l : l = <<x>>
      OBVIOUS
    <3>3. /\ l \in Histories /\ Well(l) /\ DOMAIN l = {1} /\ l[1] = x
          /\ LastOf(l, "env") = l
      <4>1. x.is \in Lone
        BY <3>1 DEF Lone, ItemKinds, Outputs
      <4> QED
        BY <3>1, <3>2, <4>1, LoneIs
    <3>4. PICK t \in Histories : t = items \o l
      BY <3>3, JoinedAre
    <3>5. t = Append(items, Piece("env", place))
      BY <3>1, <3>2, <3>4, AppendIs
    <3>6. (Well(items) => Well(t)) /\ Stands(items) \subseteq Stands(t)
      BY <3>3, <3>4, WellJoined, StandsJoined
    <3>7. Where(l, "env") # {}
      BY <3>1, <3>3 DEF Where
    <3>8. LastOf(t, "env") = l
      BY <3>3, <3>4, <3>7, LastJoined
    <3>9. ToldPlace(t) = place
      <4>1. Where(t, "env") # {}
        <5>1. l # <<>>
          BY <3>3
        <5> QED
          BY <3>8, <5>1, LastAlone
      <4> QED
        BY <3>1, <3>3, <3>8, <4>1 DEF ToldPlace
    <3>10. ASSUME Extended(items) PROVE Extended(t)
      BY <3>3, <3>4, <3>10, JoinedExtends
    <3> QED
      BY <2>2, <3>5, <3>6, <3>9, <3>10
  <2> QED
    BY <2>1, <2>2
<1>2. PICK change \in Histories :
        /\ change = EffortChange(told) /\ Well(change) /\ Where(change, "env") = {}
        /\ \/ Where(change, "effort") = {} /\ (brain \in Able => Announced(told, base) = effort)
           \/ /\ Where(change, "effort") # {}
              /\ LastOf(change, "effort")[1].n = effort
  <2>1. CASE brain \in Able /\ Announced(told, base) # effort
    <3>1. PICK x \in Items : x = Piece("effort", effort) /\ x.is = "effort" /\ x.n = effort /\ x.of = {}
      BY PieceIs DEF ConvoTypes, ItemKinds
    <3>2. PICK l : l = <<x>>
      OBVIOUS
    <3>3. /\ l \in Histories /\ Well(l) /\ DOMAIN l = {1} /\ l[1] = x
          /\ LastOf(l, "effort") = l /\ Where(l, "env") = {}
      <4>1. x.is \in Lone
        BY <3>1 DEF Lone, ItemKinds, Outputs
      <4> QED
        BY <3>1, <3>2, <4>1, LoneIs
    <3>4. l = EffortChange(told)
      BY <2>1, <3>1, <3>2 DEF EffortChange
    <3>5. Where(l, "effort") # {}
      BY <3>1, <3>3 DEF Where
    <3> QED
      BY <3>1, <3>3, <3>4, <3>5
  <2>2. CASE ~(brain \in Able /\ Announced(told, base) # effort)
    <3>1. PICK l : l = <<>>
      OBVIOUS
    <3>2. l = EffortChange(told)
      BY <2>2, <3>1 DEF EffortChange
    <3>3. l \in Histories /\ DOMAIN l = {}
      BY <3>1 DEF Histories
    <3>4. Well(l) /\ Where(l, "env") = {} /\ Where(l, "effort") = {}
      BY <3>3 DEF Well, Where
    <3> QED
      BY <2>2, <3>2, <3>3, <3>4
  <2> QED
    BY <2>1, <2>2
<1>3. PICK h \in Histories : h = told \o change
  BY JoinedAre
<1>4. /\ (Well(items) => Well(h)) /\ Stands(items) \subseteq Stands(h) /\ (Extended(items) => Extended(h))
      /\ ToldPlace(h) = place /\ (brain \in Able => Announced(h, base) = effort)
  <2>1. (Well(items) => Well(h)) /\ Stands(items) \subseteq Stands(h)
    BY <1>1, <1>2, <1>3, WellJoined, StandsJoined
  <2>2. Extended(items) => Extended(h)
    BY <1>1, <1>2, <1>3, JoinedExtends
  <2>3. ToldPlace(h) = place
    <3>1. LastOf(h, "env") = LastOf(told, "env")
      BY <1>2, <1>3, LastJoined
    <3> QED
      BY <1>1, <3>1, PlaceTold DEF SamePlace
  <2>4. CASE Where(change, "effort") = {} /\ (brain \in Able => Announced(told, base) = effort)
    <3>1. LastOf(h, "effort") = LastOf(told, "effort")
      BY <1>3, <2>4, LastJoined
    <3>2. Announced(h, base) = Announced(told, base)
      BY <3>1, EffortTold
    <3> QED
      BY <2>1, <2>2, <2>3, <2>4, <3>2
  <2>5. CASE Where(change, "effort") # {} /\ LastOf(change, "effort")[1].n = effort
    <3>1. LastOf(h, "effort") = LastOf(change, "effort")
      BY <1>3, <2>5, LastJoined
    <3>2. Where(h, "effort") # {}
      BY <2>5, <3>1, LastAlone
    <3>3. Announced(h, base) = effort
      BY <2>5, <3>1, <3>2 DEF Announced
    <3> QED
      BY <2>1, <2>2, <2>3, <3>3
  <2> QED
    BY <1>2, <2>4, <2>5
<1>5. PICK n \in Nat : n = Number
  BY DEF Number, ConvoTypes
<1>6. PICK u : u = <<Piece("user", n)>>
  OBVIOUS
<1>7. Plain(u) /\ n \in Stands(u) /\ Piece("user", n) \in Items
  BY <1>6, OneSaid
<1>8. PICK t \in Histories : t = h \o u
  BY <1>7, Grown
<1>9. /\ SamePlace(h, t) /\ LastOf(t, "effort") = LastOf(h, "effort")
      /\ (Well(h) => Well(t)) /\ Stands(t) = Stands(h) \cup Stands(u) /\ (Extended(h) => Extended(t))
  BY <1>7, <1>8, Grown
<1>10. t # <<>> /\ Last(t).is = "user"
  <2>1. t # <<>> /\ Last(t) = Piece("user", n)
    BY <1>6, <1>7, <1>8, LastGrown
  <2> QED
    BY <2>1, PieceIs
<1>11. convo' = t
  BY <1>1, <1>2, <1>3, <1>5, <1>6, <1>8 DEF OpenedOn
<1>12. PICK at \in Nat : turn' = [NoTurn EXCEPT !.update = at, !.pure = TRUE, !.place = place]
  <2>1. turn' = [NoTurn EXCEPT !.update = IF change = <<>> THEN 0 ELSE Len(told) + 1,
                               !.pure = TRUE, !.place = place]
    BY <1>1, <1>2 DEF OpenedOn
  <2>2. PICK at : at = IF change = <<>> THEN 0 ELSE Len(told) + 1
    OBVIOUS
  <2>3. at \in Nat
    BY <2>2, HistoryHas
  <2> QED
    BY <2>1, <2>2, <2>3
<1>13. /\ turn' \in [err : {"none", "overflow", "bad", "failed"}, retried : BOOLEAN, update : Nat,
                     pure : BOOLEAN, rewritten : BOOLEAN, place : Nat]
       /\ turn'.place = place
  <2>1. place \in Nat
    BY DEF ConvoTypes
  <2> QED
    BY <1>12, <2>1 DEF NoTurn
<1>14. /\ lived' = lived \cup {n} /\ halted' = FALSE /\ phase' = "step" /\ SpentTyped'
       /\ UNCHANGED <<pass, next, Setting, missed, aside>>
  BY <1>5 DEF OpenedOn, ConvoTypes, SpentTyped
<1>15. ConvoTypes'
  BY <1>11, <1>13, <1>14 DEF ConvoTypes, Setting, aside, SpentTyped, CopyTyped
<1>16. Extended(convo)'
  <2>1. CASE guard' = Unset
    BY <2>1 DEF Extended
  <2>2. CASE guard' = guard /\ Extended(items)
    <3>1. Extended(t)
      BY <1>4, <1>9, <2>2
    <3> QED
      BY <1>11, <1>14, <2>2, <3>1 DEF Extended, aside
  <2> QED
    BY <2>1, <2>2
<1>17. ASSUME ~misplaced PROVE SaidInv'
  <2>1. Well(t) /\ lived' \subseteq Stands(t)
    BY <1>4, <1>7, <1>9, <1>14, <1>17
  <2>2. ToldPlace(t) = place
    BY <1>4, <1>9, PlaceTold
  <2>3. brain \in Able => Announced(t, base) = effort
    BY <1>4, <1>9, EffortTold
  <2>4. TurnInv'
    BY <1>10, <1>11, <1>13, <1>14, <2>2, <2>3 DEF TurnInv, InTurn, Setting
  <2>5. CopyInv' /\ PassInv'
    BY <1>14 DEF CopyInv, PassInv
  <2> QED
    BY <1>11, <2>1, <2>4, <2>5 DEF SaidInv
<1> QED
  BY <1>14, <1>15, <1>16, <1>17 DEF ConvoInv, GuardInv, aside

LEMMA OpenKeeps == ASSUME ConvoInv, OpensTurn PROVE ConvoInv'
<1>1. ConvoTypes /\ missed # "cut" /\ convo \in Histories /\ (misplaced \/ (Well(convo) /\ lived \subseteq Stands(convo)))
  BY DEF ConvoInv, ConvoTypes, GuardInv, SaidInv
<1>2. OpenedOn(convo) /\ copy' = Dropped /\ guard' = guard /\ phase = "idle"
  BY DEF OpensTurn
<1>3. Extended(convo)
  BY <1>2 DEF ConvoInv, GuardInv
<1> QED
  BY <1>1, <1>2, <1>3, DroppedIs, Opened

LEMMA OpenOnCopyKeeps == ASSUME ConvoInv, OpensOnCopy PROVE ConvoInv'
<1>1. ConvoTypes /\ missed # "cut" /\ (misplaced \/ SaidInv)
  BY DEF ConvoInv, GuardInv
<1>2. /\ copy # Unset /\ copy.made /\ OpenedOn(copy.items) /\ guard' = Unset
      /\ copy' = [copy EXCEPT !.made = FALSE, !.items = <<>>]
  BY DEF OpensOnCopy
<1>3. copy \in [made : BOOLEAN, items : Histories]
  BY <1>1, <1>2 DEF ConvoTypes
<1>4. CopyTyped' /\ ~copy'.made
  <2>1. PICK none : none = <<>>
    OBVIOUS
  <2>2. none \in Histories
    BY <2>1 DEF Histories
  <2>3. copy' = [copy EXCEPT !.made = FALSE, !.items = none]
    BY <1>2, <2>1
  <2> QED
    BY <1>3, <2>2, <2>3 DEF CopyTyped
<1>5. copy.items \in Histories /\ (misplaced \/ (Well(copy.items) /\ lived \subseteq Stands(copy.items)))
  BY <1>1, <1>2, <1>3 DEF SaidInv, CopyInv
<1> QED
  BY <1>1, <1>2, <1>4, <1>5, Opened

LEMMA CompactsKeeps == ASSUME ConvoInv, Compacts PROVE ConvoInv'
<1>1. /\ ConvoTypes /\ missed # "cut" /\ convo \in Histories /\ phase = "idle" /\ Extended(convo)
      /\ misplaced \/ (Well(convo) /\ lived \subseteq Stands(convo))
  BY DEF Compacts, ConvoInv, ConvoTypes, GuardInv, SaidInv
<1>2. /\ Trick /\ halted' = FALSE /\ copy' = Dropped /\ UNCHANGED <<Setting, lived, aside>>
      /\ \E worded \in BOOLEAN : StartsPass("asked", "user", convo, size, worded)
  BY DEF Compacts
<1>3. PICK worded \in BOOLEAN : StartsPass("asked", "user", convo, size, worded)
  BY <1>2
<1>4. CopyTyped' /\ (copy' # Unset => ~copy'.made) /\ SpentTyped'
  BY <1>1, <1>2, DroppedIs, TrickSpent
<1>5. misplaced \/ Carried(convo, "user", FALSE)
  BY <1>1, <1>2, <1>4 DEF Carried
<1>6. UNCHANGED Setting /\ UNCHANGED aside /\ halted' \in BOOLEAN
  BY <1>2
<1> QED
  BY <1>1, <1>3, <1>4, <1>5, <1>6, PassBegins

\* What happens while nothing runs leaves what nothing running promises.
LEMMA IdleStays ==
    ASSUME ConvoInv, phase = "idle", phase' = phase, turn' = turn, next' = next, misplaced' = misplaced,
           convo' \in Histories, CopyTyped', SpentTyped', halted' \in BOOLEAN,
           effort' \in Nat, base' \in Nat, place' \in {0, 1}, missed' # "cut", Extended(convo)',
           misplaced \/ (/\ Well(convo') /\ lived' \subseteq Stands(convo')
                         /\ copy' # Unset /\ copy'.made => Well(copy'.items) /\ lived' \subseteq Stands(copy'.items))
    PROVE  ConvoInv'
<1>1. ConvoTypes'
  BY DEF ConvoInv, ConvoTypes, CopyTyped, SpentTyped
<1>2. GuardInv'
  BY DEF GuardInv
<1>3. ASSUME ~misplaced PROVE SaidInv'
  BY <1>3 DEF SaidInv, CopyInv, PassInv, TurnInv, InTurn
<1> QED
  BY <1>1, <1>2, <1>3 DEF ConvoInv

LEMMA SeededExtends ==
    ASSUME ConvoInv, guard' = Seeded, convo' = convo
    PROVE  Extended(convo)' /\ convo \in Histories
<1>1. convo \in Histories
  BY DEF ConvoInv, ConvoTypes
<1> QED
  BY <1>1, SelfPrefix DEF Extended, Seeded

LEMMA CopiesKeeps == ASSUME ConvoInv, Copies PROVE ConvoInv'
<1>1. /\ ConvoTypes /\ missed # "cut" /\ convo \in Histories /\ phase = "idle" /\ Extended(convo)
      /\ misplaced \/ (Well(convo) /\ lived \subseteq Stands(convo))
  BY DEF Copies, ConvoInv, ConvoTypes, GuardInv, SaidInv
<1>2. /\ guard' = Seeded /\ Trick
      /\ UNCHANGED <<convo, size, phase, turn, pass, halted, next, Setting, lived, aside>>
  BY DEF Copies
<1>3. PICK none \in Histories : none = <<>>
  <2>1. PICK none : none = <<>>
    OBVIOUS
  <2>2. none \in Histories
    BY <2>1 DEF Histories
  <2> QED
    BY <2>1, <2>2
<1>4. PICK f : f = Fold(convo, [is |-> "summary", n |-> 0, of |-> Stands(convo)])
  OBVIOUS
<1>5. ASSUME Folds(convo) PROVE f \in Histories /\ (Well(convo) => Well(f) /\ Stands(convo) \subseteq Stands(f))
  <2>1. PICK x \in Items : x = [is |-> "summary", n |-> 0, of |-> Stands(convo)]
    BY <1>1, MadeOf
  <2>2. x.is = "summary" /\ x.of = Stands(convo)
    BY <2>1
  <2> QED
    BY <1>1, <1>4, <1>5, <2>1, <2>2, FoldKeeps
<1>6. \/ copy' = [made |-> FALSE, items |-> none]
      \/ Folds(convo) /\ copy' = [made |-> TRUE, items |-> f]
  BY <1>3, <1>4 DEF Copies
<1>7. CopyTyped'
  <2>1. CASE copy' = [made |-> FALSE, items |-> none]
    BY <2>1 DEF CopyTyped
  <2>2. CASE Folds(convo) /\ copy' = [made |-> TRUE, items |-> f]
    <3>1. f \in Histories
      BY <1>5, <2>2
    <3> QED
      BY <2>2, <3>1 DEF CopyTyped
  <2> QED
    BY <1>6, <2>1, <2>2
<1>8. misplaced \/ (copy' # Unset /\ copy'.made => Well(copy'.items) /\ lived' \subseteq Stands(copy'.items))
  <2>1. CASE copy' = [made |-> FALSE, items |-> none]
    BY <2>1
  <2>2. CASE Folds(convo) /\ copy' = [made |-> TRUE, items |-> f]
    BY <1>1, <1>2, <1>5, <2>2
  <2> QED
    BY <1>6, <2>1, <2>2
<1>9. missed' # "cut"
  <2>1. missed' = missed \/ missed' = Misses(Append(convo, Piece("ask", 0)))
    BY DEF Copies
  <2> QED
    BY <1>1, <2>1, MissesNone
<1>10. Extended(convo)' /\ SpentTyped'
  BY <1>1, <1>2, SeededExtends, TrickSpent
<1>11. /\ convo' = convo /\ phase' = phase /\ turn' = turn /\ next' = next /\ misplaced' = misplaced /\ lived' = lived
       /\ halted' \in BOOLEAN /\ effort' \in Nat /\ base' \in Nat /\ place' \in {0, 1}
  BY <1>1, <1>2 DEF ConvoTypes, Setting, aside
<1> QED
  BY <1>1, <1>7, <1>8, <1>9, <1>10, <1>11, IdleStays

LEMMA BtwKeeps == ASSUME ConvoInv, Btw PROVE ConvoInv'
<1>1. /\ ConvoTypes /\ missed # "cut" /\ convo \in Histories /\ phase = "idle" /\ Extended(convo)
      /\ misplaced \/ (Well(convo) /\ lived \subseteq Stands(convo) /\ CopyInv)
  BY DEF Btw, ConvoInv, ConvoTypes, GuardInv, SaidInv
<1>2. /\ guard' = Seeded /\ Trick /\ halted' = FALSE
      /\ missed' = Misses(Append(convo, Piece("question", 0)))
      /\ UNCHANGED <<convo, copy, size, phase, turn, pass, next, Setting, lived, aside>>
  BY DEF Btw
<1>3. missed' # "cut"
  BY <1>1, <1>2, MissesNone
<1>4. Extended(convo)' /\ SpentTyped'
  BY <1>1, <1>2, SeededExtends, TrickSpent
<1>5. /\ convo' = convo /\ phase' = phase /\ turn' = turn /\ next' = next /\ misplaced' = misplaced /\ lived' = lived
      /\ copy' = copy /\ CopyTyped'
      /\ halted' \in BOOLEAN /\ effort' \in Nat /\ base' \in Nat /\ place' \in {0, 1}
  BY <1>1, <1>2 DEF ConvoTypes, Setting, aside, CopyTyped
<1> QED
  BY <1>1, <1>3, <1>4, <1>5, IdleStays DEF CopyInv

LEMMA ClearsKeeps == ASSUME ConvoInv, Clears PROVE ConvoInv'
<1>1. ConvoTypes /\ missed # "cut" /\ phase = "idle"
  BY DEF Clears, ConvoInv, GuardInv
<1>2. /\ convo' = <<>> /\ guard' = Unset /\ Trick /\ copy' = Dropped /\ lived' = {}
      /\ UNCHANGED <<phase, turn, pass, halted, next, Setting, missed, aside>>
  BY DEF Clears
<1>3. convo' \in Histories /\ Well(convo')
  <2>1. PICK none : none = <<>>
    OBVIOUS
  <2>2. none \in Histories /\ DOMAIN none = {}
    BY <2>1 DEF Histories
  <2> QED
    BY <1>2, <2>1, <2>2 DEF Well
<1>4. CopyTyped' /\ (copy' # Unset => ~copy'.made) /\ SpentTyped' /\ Extended(convo)'
  BY <1>1, <1>2, DroppedIs, TrickSpent DEF Extended
<1>5. /\ phase' = phase /\ turn' = turn /\ next' = next /\ misplaced' = misplaced /\ missed' # "cut"
      /\ halted' \in BOOLEAN /\ effort' \in Nat /\ base' \in Nat /\ place' \in {0, 1}
  BY <1>1, <1>2 DEF ConvoTypes, Setting, aside
<1>6. lived' \subseteq Stands(convo')
  BY <1>2
<1> QED
  BY <1>1, <1>3, <1>4, <1>5, <1>6, IdleStays

LEMMA SwitchKeeps == ASSUME ConvoInv, NEW to, NEW at \in 0 .. 1, SwitchesBrain(to, at) PROVE ConvoInv'
<1>1. /\ ConvoTypes /\ missed # "cut" /\ phase = "idle" /\ convo \in Histories /\ Extended(convo)
      /\ misplaced \/ (Well(convo) /\ lived \subseteq Stands(convo))
  BY DEF SwitchesBrain, ConvoInv, ConvoTypes, GuardInv, SaidInv
<1>2. /\ effort' = at /\ Trick /\ UNCHANGED <<phase, turn, pass, halted, next, place, missed, aside>>
      /\ IF to = brain /\ to \in Able
         THEN copy' = Dropped /\ UNCHANGED <<convo, guard, size, base, lived>>
         ELSE /\ base' = at /\ guard' = Unset
              /\ copy' = [made |-> FALSE, items |-> <<>>]
              /\ IF to = brain THEN UNCHANGED <<convo, size, lived>>
                 ELSE /\ convo' = Readable(convo) /\ size' = 0
                      /\ lived' = lived \cap Stands(Readable(convo))
  BY DEF SwitchesBrain
<1>3. PICK r \in Histories : r = Readable(convo) /\ (Well(convo) => Well(r))
  BY <1>1, ReadableKeeps
<1>4. convo' \in Histories /\ (misplaced \/ (Well(convo') /\ lived' \subseteq Stands(convo')))
  <2>1. (convo' = convo /\ lived' = lived) \/ (convo' = r /\ lived' = lived \cap Stands(r))
    BY <1>2, <1>3
  <2> QED
    BY <1>1, <1>3, <2>1
<1>5. /\ phase' = phase /\ turn' = turn /\ next' = next /\ misplaced' = misplaced /\ missed' # "cut"
      /\ forsaken' = forsaken
      /\ halted' \in BOOLEAN /\ effort' \in Nat /\ base' \in Nat /\ place' \in {0, 1}
  BY <1>1, <1>2 DEF ConvoTypes, aside
<1>6. CopyTyped' /\ (copy' # Unset => ~copy'.made)
  <2>1. CASE copy' = Dropped
    BY <1>1, <2>1, DroppedIs
  <2>2. CASE copy' = [made |-> FALSE, items |-> <<>>]
    <3>1. PICK none : none = <<>>
      OBVIOUS
    <3>2. none \in Histories
      BY <3>1 DEF Histories
    <3> QED
      BY <2>2, <3>1, <3>2 DEF CopyTyped
  <2> QED
    BY <1>2, <2>1, <2>2
<1>7. Extended(convo)' /\ SpentTyped'
  <2>1. guard' = Unset \/ (guard' = guard /\ convo' = convo)
    BY <1>2
  <2> QED
    BY <1>1, <1>2, <1>5, <2>1, TrickSpent DEF Extended
<1> QED
  BY <1>1, <1>4, <1>5, <1>6, <1>7, IdleStays

\* What touches no item, no call and no message.
LEMMA MovesKeeps == ASSUME ConvoInv, Moves PROVE ConvoInv'
<1>1. ConvoTypes /\ Trick
  BY DEF ConvoInv, Moves
<1>2. place' = 1 - place /\ UNCHANGED <<convo, guard, copy, size, phase, turn, pass, halted, next,
                                        brain, base, effort, recalled>>
  BY DEF Moves
<1>3. SpentTyped'
  BY <1>1, TrickSpent
<1>4. place' \in {0, 1}
  <2>1. place \in {0, 1}
    BY <1>1 DEF ConvoTypes
  <2> QED
    BY <1>2, <2>1
<1>5. ConvoTypes'
  BY <1>1, <1>2, <1>3, <1>4 DEF ConvoTypes, SpentTyped, recalled, aside
<1>6. GuardInv'
  BY <1>2 DEF ConvoInv, GuardInv, Extended, recalled, aside
<1>7. ASSUME ~misplaced PROVE SaidInv'
  BY <1>2, <1>7 DEF ConvoInv, SaidInv, CopyInv, PassInv, TurnInv, recalled, aside
<1> QED
  BY <1>2, <1>5, <1>6, <1>7 DEF ConvoInv, recalled, aside

LEMMA HaltsKeeps == ASSUME ConvoInv, Halts PROVE ConvoInv'
<1>1. ConvoTypes /\ Trick
  BY DEF ConvoInv, Halts
<1>2. halted' = TRUE /\ UNCHANGED <<convo, guard, copy, size, phase, turn, pass, next, Setting, recalled>>
  BY DEF Halts
<1>3. SpentTyped'
  BY <1>1, TrickSpent
<1>5. ConvoTypes'
  BY <1>1, <1>2, <1>3 DEF ConvoTypes, SpentTyped, Setting, recalled, aside
<1>6. GuardInv'
  BY <1>2 DEF ConvoInv, GuardInv, Extended, recalled, aside
<1>7. ASSUME ~misplaced PROVE SaidInv'
  BY <1>2, <1>7 DEF ConvoInv, SaidInv, CopyInv, PassInv, TurnInv, Setting, recalled, aside
<1> QED
  BY <1>2, <1>5, <1>6, <1>7 DEF ConvoInv, recalled, aside

LEMMA AsksKeeps == ASSUME ConvoInv, NEW worded \in BOOLEAN, Asks(worded) PROVE ConvoInv'
<1>1. ConvoTypes /\ Trick
  BY DEF ConvoInv, Asks
<1>2. /\ next' \in {"plain", "worded"}
      /\ UNCHANGED <<convo, guard, copy, size, phase, turn, pass, halted, Setting, recalled>>
  BY DEF Asks
<1>3. SpentTyped'
  BY <1>1, TrickSpent
<1>5. ConvoTypes'
  BY <1>1, <1>2, <1>3 DEF ConvoTypes, SpentTyped, Setting, recalled, aside
<1>6. GuardInv'
  BY <1>2 DEF ConvoInv, GuardInv, Extended, recalled, aside
<1>7. ASSUME ~misplaced PROVE SaidInv'
  BY <1>2, <1>7 DEF ConvoInv, SaidInv, CopyInv, PassInv, TurnInv, Setting, recalled, aside
<1> QED
  BY <1>2, <1>5, <1>6, <1>7 DEF ConvoInv, recalled, aside

(* A turn. *)
\* What joins the history of a turn that runs.
LEMMA TurnGrows ==
    ASSUME ConvoInv, phase \in {"step", "calling"}, NEW t, Plain(t), convo' = convo \o t,
           turn' = [turn EXCEPT !.pure = FALSE], phase' \in {"step", "closing"},
           UNCHANGED <<guard, copy, halted, next, Setting, missed, aside>>, SpentTyped',
           lived' \subseteq lived \cup Stands(t)
    PROVE  ConvoInv'
<1>1. ConvoTypes /\ Extended(convo) /\ missed # "cut" /\ convo \in Histories
  BY DEF ConvoInv, ConvoTypes, GuardInv
<1>2. /\ convo' \in Histories /\ SamePlace(convo, convo') /\ LastOf(convo', "effort") = LastOf(convo, "effort")
      /\ Well(convo) => Well(convo')
      /\ Stands(convo') = Stands(convo) \cup Stands(t)
      /\ forsaken' = forsaken /\ guard' = guard
  BY <1>1, Grown DEF aside
<1>3. Extended(convo)'
  <2>1. Extended(convo \o t)
    BY <1>1, Grown
  <2> QED
    BY <1>2, <2>1 DEF Extended
<1>4. /\ turn' \in [err : {"none", "overflow", "bad", "failed"}, retried : BOOLEAN, update : Nat,
                    pure : BOOLEAN, rewritten : BOOLEAN, place : Nat]
      /\ turn'.place = turn.place /\ ~turn'.pure /\ turn'.rewritten = turn.rewritten
  BY <1>1 DEF ConvoTypes
<1>5. ConvoTypes'
  BY <1>1, <1>2, <1>4 DEF ConvoTypes, SpentTyped, Setting, aside
<1>6. ASSUME ~misplaced PROVE SaidInv'
  <2>1. SaidInv
    BY <1>6 DEF ConvoInv
  <2>2. ToldPlace(convo') = ToldPlace(convo) /\ Announced(convo', base) = Announced(convo, base)
    BY <1>1, <1>2, PlaceTold, EffortTold
  <2>3. TurnInv'
    BY <1>4, <2>1, <2>2 DEF SaidInv, TurnInv, InTurn, Setting
  <2>4. CopyInv' /\ PassInv'
    BY <2>1 DEF SaidInv, CopyInv, PassInv
  <2>5. Well(convo') /\ lived' \subseteq Stands(convo')
    BY <1>2, <2>1 DEF SaidInv
  <2> QED
    BY <2>3, <2>4, <2>5 DEF SaidInv
<1> QED
  BY <1>1, <1>3, <1>5, <1>6 DEF ConvoInv, GuardInv, aside

LEMMA SteersKeeps == ASSUME ConvoInv, Steers PROVE ConvoInv'
<1>1. ConvoTypes /\ convo \in Histories
  BY DEF ConvoInv, ConvoTypes
<1>2. PICK n \in Nat : n = Number
  BY <1>1 DEF Number, ConvoTypes
<1>3. PICK t : t = <<Piece("user", n)>>
  OBVIOUS
<1>4. Plain(t) /\ n \in Stands(t) /\ Piece("user", n) \in Items
  BY <1>3, OneSaid
<1>5. convo' = convo \o t
  BY <1>1, <1>2, <1>3, <1>4, AppendIs DEF Steers
<1>6. /\ phase = "step" /\ phase' = phase /\ turn' = [turn EXCEPT !.pure = FALSE]
      /\ UNCHANGED <<guard, copy, halted, next, Setting, missed, aside>>
      /\ lived' = lived \cup {n}
  BY <1>2 DEF Steers
<1>7. SpentTyped'
  BY <1>1 DEF Steers, ConvoTypes, SpentTyped
<1> QED
  BY <1>4, <1>5, <1>6, <1>7, TurnGrows

LEMMA AnswerSpent ==
    ASSUME ConvoTypes, Answer
    PROVE  SpentTyped' /\ Number \in Nat
  BY DEF Answer, ConvoTypes, SpentTyped, Number

LEMMA SaysKeeps == ASSUME ConvoInv, SaysText PROVE ConvoInv'
<1>1. ConvoTypes /\ convo \in Histories /\ Answer
  BY DEF ConvoInv, ConvoTypes, SaysText
<1>2. PICK n \in Nat : n = Number
  BY <1>1, AnswerSpent
<1>3. PICK t : t = <<Piece("say", n)>>
  OBVIOUS
<1>4. Plain(t) /\ n \in Stands(t) /\ Piece("say", n) \in Items
  BY <1>3, OneSaid
<1>5. convo' = convo \o t
  BY <1>1, <1>2, <1>3, <1>4, AppendIs DEF SaysText
<1>6. /\ phase = "calling" /\ phase' = "closing" /\ turn' = [turn EXCEPT !.pure = FALSE]
      /\ UNCHANGED <<guard, copy, halted, next, Setting, missed, aside>>
      /\ lived' = lived \cup {n}
  BY <1>2 DEF SaysText, Answer
<1>7. SpentTyped'
  BY <1>1, AnswerSpent
<1> QED
  BY <1>4, <1>5, <1>6, <1>7, TurnGrows

LEMMA WorksKeeps ==
    ASSUME ConvoInv, NEW result \in {"long", "short"}, NEW asks, NEW worded, Works(result, asks, worded)
    PROVE  ConvoInv'
<1>1. ConvoTypes /\ convo \in Histories /\ Answer /\ missed # "cut" /\ phase = "calling" /\ Extended(convo)
  BY DEF ConvoInv, ConvoTypes, GuardInv, Works, Answer
<1>2. PICK n \in Nat : n = Number
  BY <1>1, AnswerSpent
<1>3. PICK t : t = <<Piece("call", n), Piece(result, n)>>
  OBVIOUS
<1>4. Plain(t) /\ n \in Stands(t)
  BY <1>3, OneWork
<1>5. PICK after : after = convo \o t
  OBVIOUS
<1>6. SpentTyped' /\ lived' = lived \cup {n} /\ UNCHANGED <<copy, halted, Setting, aside>>
  BY <1>1, <1>2, AnswerSpent DEF Answer
<1>7. \/ StartsPass("asked", "tool", after, 0, worded)
      \/ /\ convo' = after /\ phase' \in {"closing", "step"}
         /\ turn' = [turn EXCEPT !.pure = FALSE]
         /\ UNCHANGED <<guard, pass, next, missed>>
  BY <1>2, <1>3, <1>5 DEF Works
<1>8. CASE StartsPass("asked", "tool", after, 0, worded)
  <2>1. /\ after \in Histories /\ SamePlace(convo, after) /\ LastOf(after, "effort") = LastOf(convo, "effort")
        /\ Well(convo) => Well(after)
        /\ Stands(after) = Stands(convo) \cup Stands(t) /\ Extended(after)
    BY <1>1, <1>4, <1>5, Grown
  <2>2. ASSUME ~misplaced PROVE Carried(after, "tool", FALSE)
    <3>1. SaidInv
      BY <2>2 DEF ConvoInv
    <3>2. ToldPlace(after) = turn.place
      BY <1>1, <2>1, <3>1, PlaceTold DEF SaidInv, TurnInv, InTurn
    <3>3. brain \in Able /\ ~turn.rewritten => Announced(after, base) = effort
      BY <1>1, <2>1, <3>1, EffortTold DEF SaidInv, TurnInv
    <3>4. copy' # Unset => ~copy'.made
      BY <1>1, <1>6, <3>1 DEF SaidInv, CopyInv
    <3> QED
      BY <1>4, <1>6, <2>1, <3>1, <3>2, <3>3, <3>4 DEF Carried, SaidInv
  <2>3. CopyTyped' /\ halted' \in BOOLEAN /\ UNCHANGED Setting /\ UNCHANGED aside
    BY <1>1, <1>6 DEF ConvoTypes, CopyTyped
  <2> QED
    BY <1>1, <1>6, <1>8, <2>1, <2>2, <2>3, PassBegins
<1>9. CASE /\ convo' = after /\ phase' \in {"closing", "step"}
           /\ turn' = [turn EXCEPT !.pure = FALSE]
           /\ UNCHANGED <<guard, pass, next, missed>>
  <2>1. UNCHANGED <<guard, copy, halted, next, Setting, missed, aside>> /\ lived' \subseteq lived \cup Stands(t)
    BY <1>4, <1>6, <1>9
  <2> QED
    BY <1>1, <1>4, <1>5, <1>6, <1>9, <2>1, TurnGrows
<1> QED
  BY <1>7, <1>8, <1>9

LEMMA SendsKeeps == ASSUME ConvoInv, SendsCall PROVE ConvoInv'
<1>1. ConvoTypes /\ convo \in Histories /\ missed # "cut" /\ phase = "step" /\ Extended(convo)
  BY DEF ConvoInv, ConvoTypes, GuardInv, SendsCall
<1>2. PICK items : items = IF size > Full THEN Evict(convo, size - Aim) ELSE convo
  OBVIOUS
<1>3. /\ items \in Histories /\ SamePlace(convo, items) /\ LastOf(items, "effort") = LastOf(convo, "effort")
      /\ Well(convo) => Well(items) /\ Stands(items) = Stands(convo)
  <2>1. CASE items = convo
    BY <1>1, <2>1 DEF SamePlace
  <2>2. CASE items = Evict(convo, size - Aim)
    BY <1>1, <2>2, EvictKeeps DEF SamePlace
  <2> QED
    BY <1>2, <2>1, <2>2
<1>4. /\ convo' = items /\ guard' = items /\ missed' = Sends(items)
      /\ turn' = [turn EXCEPT !.pure = @ /\ items = convo]
      /\ phase' = "calling" /\ copy' = Unset
      /\ UNCHANGED <<pass, halted, next, Setting, spent, lived, aside>>
  BY <1>2 DEF SendsCall
<1>5. PICK p \in BOOLEAN : p = (turn.pure /\ items = convo)
  OBVIOUS
<1>6. turn' = [turn EXCEPT !.pure = p]
  BY <1>4, <1>5
<1>7. /\ turn' \in [err : {"none", "overflow", "bad", "failed"}, retried : BOOLEAN, update : Nat,
                    pure : BOOLEAN, rewritten : BOOLEAN, place : Nat]
      /\ turn'.place = turn.place /\ turn'.pure = p /\ turn'.rewritten = turn.rewritten
  BY <1>1, <1>6 DEF ConvoTypes
<1>8. ConvoTypes'
  BY <1>1, <1>3, <1>4, <1>7 DEF ConvoTypes, Setting, aside
<1>9. missed' # "cut"
  BY <1>1, <1>4, MissesNone DEF Sends
<1>10. Extended(convo)'
  BY <1>3, <1>4, SelfPrefix DEF Extended
<1>11. ASSUME ~misplaced PROVE SaidInv'
  <2>1. SaidInv
    BY <1>11 DEF ConvoInv
  <2>2. ToldPlace(items) = ToldPlace(convo) /\ Announced(items, base) = Announced(convo, base)
    BY <1>1, <1>3, PlaceTold, EffortTold
  <2>3. p => turn.pure /\ items = convo
    BY <1>5
  <2>4. TurnInv'
    <3>1. ToldPlace(items) = turn'.place
      BY <1>1, <1>7, <2>1, <2>2 DEF SaidInv, TurnInv, InTurn
    <3>2. brain' \in Able /\ ~turn'.rewritten => Announced(items, base') = effort'
      BY <1>1, <1>4, <1>7, <2>1, <2>2 DEF SaidInv, TurnInv, Setting
    <3>3. turn'.pure => items # <<>> /\ Last(items).is = "user"
      BY <1>1, <1>7, <2>1, <2>3 DEF SaidInv, TurnInv, InTurn
    <3> QED
      BY <1>4, <3>1, <3>2, <3>3 DEF TurnInv
  <2>5. CopyInv' /\ PassInv'
    BY <1>4 DEF CopyInv, PassInv
  <2> QED
    BY <1>3, <1>4, <2>1, <2>4, <2>5 DEF SaidInv
<1> QED
  BY <1>4, <1>8, <1>9, <1>10, <1>11 DEF ConvoInv, GuardInv, aside

LEMMA FailsKeeps == ASSUME ConvoInv, NEW how \in {"overflow", "bad", "failed"}, Fails(how) PROVE ConvoInv'
<1>1. ConvoTypes /\ Trick /\ phase = "calling"
  BY DEF ConvoInv, Fails
<1>2. PICK err \in {"none", "overflow", "bad", "failed"} : err = IF halted THEN "none" ELSE how
  OBVIOUS
<1>3. /\ turn' = [turn EXCEPT !.err = err] /\ phase' = "closing"
      /\ UNCHANGED <<convo, guard, copy, size, pass, halted, next, Setting, recalled>>
  BY <1>2 DEF Fails
<1>4. /\ turn' \in [err : {"none", "overflow", "bad", "failed"}, retried : BOOLEAN, update : Nat,
                    pure : BOOLEAN, rewritten : BOOLEAN, place : Nat]
      /\ turn'.place = turn.place /\ turn'.pure = turn.pure
  BY <1>1, <1>3 DEF ConvoTypes
<1>5. SpentTyped'
  BY <1>1, TrickSpent
<1>6. ConvoTypes'
  BY <1>1, <1>3, <1>4, <1>5 DEF ConvoTypes, SpentTyped, Setting, recalled, aside
<1>7. GuardInv'
  BY <1>1, <1>3 DEF ConvoInv, GuardInv, Extended, recalled, aside
<1>8. ASSUME ~misplaced PROVE SaidInv'
  <2>1. SaidInv
    BY <1>8 DEF ConvoInv
  <2>2. TurnInv'
    BY <1>1, <1>3, <1>4, <2>1 DEF SaidInv, TurnInv, InTurn
  <2>3. CopyInv' /\ PassInv'
    BY <1>1, <1>3, <2>1 DEF SaidInv, CopyInv, PassInv, recalled
  <2> QED
    BY <1>3, <2>1, <2>2, <2>3 DEF SaidInv, recalled
<1> QED
  BY <1>3, <1>6, <1>7, <1>8 DEF ConvoInv, recalled, aside

\* A turn that is over leaves its items, and what a compaction after it needs.
LEMMA TurnOver ==
    ASSUME ConvoInv, phase = "closing", phase' \in {"ending", "dead"}, convo' \in Histories,
           turn' = turn, SpentTyped', UNCHANGED <<copy, pass, halted, next, brain, base, place, missed>>,
           effort' \in Nat, Extended(convo)', misplaced' \in BOOLEAN, misplaced => misplaced',
           misplaced' \/ (/\ Well(convo') /\ lived' \subseteq Stands(convo')
                          /\ phase' = "ending" /\ turn.err = "overflow" /\ ~halted => ToldPlace(convo') = turn.place)
    PROVE  ConvoInv'
<1>1. ConvoTypes /\ missed # "cut"
  BY DEF ConvoInv, GuardInv
<1>2. ConvoTypes'
  BY <1>1 DEF ConvoTypes, SpentTyped
<1>3. ASSUME ~misplaced' PROVE SaidInv'
  <2>1. SaidInv
    BY <1>3 DEF ConvoInv
  <2>2. CopyInv' /\ PassInv'
    BY <2>1 DEF SaidInv, CopyInv, PassInv
  <2>3. TurnInv'
    BY <1>3 DEF TurnInv, InTurn
  <2> QED
    BY <1>3, <2>2, <2>3 DEF SaidInv
<1> QED
  BY <1>1, <1>2, <1>3 DEF ConvoInv, GuardInv

LEMMA EditsKeeps == ASSUME ConvoInv, Edits PROVE ConvoInv'
<1>1. ConvoTypes /\ convo \in Histories /\ phase = "closing" /\ halted /\ turn.pure
  BY DEF ConvoInv, ConvoTypes, Edits
<1>2. /\ convo' = Front(convo) /\ guard' = Unset /\ lived' = lived \ {Last(convo).n} /\ phase' = "ending" /\ Trick
      /\ UNCHANGED <<copy, size, turn, pass, halted, next, Setting, missed, aside>>
  BY DEF Edits
<1>3. convo' \in Histories
  BY <1>1, <1>2, FrontKeeps
<1>4. ASSUME ~misplaced PROVE Well(convo') /\ lived' \subseteq Stands(convo')
  <2>1. Well(convo) /\ lived \subseteq Stands(convo) /\ convo # <<>> /\ Last(convo).is = "user"
    BY <1>1, <1>4 DEF ConvoInv, SaidInv, TurnInv, InTurn
  <2> QED
    BY <1>1, <1>2, <2>1, FrontKeeps
<1>5. SpentTyped' /\ Extended(convo)'
  BY <1>1, <1>2, TrickSpent DEF Extended
<1>6. /\ effort' \in Nat /\ misplaced' \in BOOLEAN /\ misplaced' = misplaced /\ turn' = turn
      /\ UNCHANGED <<copy, pass, halted, next, brain, base, place, missed>>
  BY <1>1, <1>2 DEF ConvoTypes, Setting, aside
<1> QED
  BY <1>1, <1>2, <1>3, <1>4, <1>5, <1>6, TurnOver

LEMMA AnnouncedIs ==
    ASSUME NEW s \in Histories, NEW request \in Nat
    PROVE  Announced(s, request) \in Nat
<1>1. CASE Where(s, "effort") = {}
  BY <1>1 DEF Announced
<1>2. CASE Where(s, "effort") # {}
  <2>1. PICK l \in Histories : l = LastOf(s, "effort") /\ l # <<>>
    BY <1>2, LastAlone
  <2>2. 1 \in DOMAIN l
    BY <2>1 DEF Histories
  <2>3. l[1].n \in Nat
    BY <2>2, HistoryHas
  <2> QED
    BY <1>2, <2>1, <2>3 DEF Announced
<1> QED
  BY <1>1, <1>2

LEMMA ClosesKeeps == ASSUME ConvoInv, Closes PROVE ConvoInv'
<1>1. ConvoTypes /\ convo \in Histories /\ phase = "closing" /\ Extended(convo)
  BY DEF ConvoInv, ConvoTypes, GuardInv, Closes
<1>2. PICK marked : marked = IF halted THEN Append(convo, Piece("abort", 0)) ELSE convo
  OBVIOUS
<1>3. /\ marked \in Histories /\ SamePlace(convo, marked) /\ Extended(marked)
      /\ (Well(convo) => Well(marked)) /\ Stands(convo) \subseteq Stands(marked)
  <2>1. CASE marked = convo
    BY <1>1, <2>1 DEF SamePlace
  <2>2. CASE marked = Append(convo, Piece("abort", 0))
    <3>1. PICK t : t = <<Piece("abort", 0)>>
      OBVIOUS
    <3>2. Plain(t) /\ Piece("abort", 0) \in Items
      BY <3>1, OneSaid
    <3>3. marked = convo \o t
      BY <1>1, <2>2, <3>1, <3>2, AppendIs
    <3> QED
      BY <1>1, <3>2, <3>3, Grown
  <2> QED
    BY <1>2, <2>1, <2>2
<1>4. PICK at : at = turn.update
  OBVIOUS
<1>5. UNCHANGED <<copy, turn, pass, halted, next, brain, base, place, spent, lived, missed, forsaken>>
  BY DEF Closes
<1>6. SpentTyped'
  BY <1>1, <1>5 DEF ConvoTypes, SpentTyped
<1>7. CASE turn.err = "bad" /\ at # 0
  <2>1. /\ convo' = IF at \in DOMAIN marked THEN RemoveAt(marked, at) ELSE marked
        /\ misplaced' = (misplaced \/ at \notin DOMAIN marked \/ marked[at].is # "effort")
        /\ phase' = IF at \in DOMAIN marked THEN "ending" ELSE "dead"
        /\ guard' = Unset
        /\ effort' = Announced(convo', base)
    BY <1>2, <1>4, <1>7 DEF Closes
  <2>2. convo' \in Histories
    BY <1>3, <2>1, RemovalKeeps
  <2>3. effort' \in Nat
    BY <1>1, <2>1, <2>2, AnnouncedIs DEF ConvoTypes
  <2>4. ASSUME ~misplaced' PROVE Well(convo') /\ lived' \subseteq Stands(convo')
    <3>1. ~misplaced /\ at \in DOMAIN marked /\ marked[at].is = "effort"
      BY <2>1, <2>4
    <3>2. Well(convo) /\ lived \subseteq Stands(convo)
      BY <3>1 DEF ConvoInv, SaidInv
    <3>3. Well(marked) /\ lived \subseteq Stands(marked)
      BY <1>3, <3>2
    <3>4. Well(convo') /\ Stands(marked) \subseteq Stands(convo')
      BY <1>3, <2>1, <3>1, <3>3, RemovalKeeps
    <3> QED
      BY <1>5, <3>3, <3>4
  <2>5. Extended(convo)' /\ misplaced' \in BOOLEAN /\ (misplaced => misplaced')
    BY <2>1 DEF Extended
  <2> QED
    BY <1>1, <1>5, <1>6, <1>7, <2>1, <2>2, <2>3, <2>4, <2>5, TurnOver
<1>8. CASE ~(turn.err = "bad" /\ at # 0)
  <2>1. convo' = marked /\ phase' = "ending" /\ UNCHANGED <<guard, size, effort, misplaced>>
    BY <1>2, <1>4, <1>8 DEF Closes
  <2>2. Extended(convo)'
    BY <1>3, <1>5, <2>1 DEF Extended
  <2>3. effort' \in Nat /\ misplaced' \in BOOLEAN
    BY <1>1, <2>1 DEF ConvoTypes
  <2>4. ASSUME ~misplaced PROVE Well(convo') /\ lived' \subseteq Stands(convo') /\ ToldPlace(convo') = turn.place
    <3>1. Well(convo) /\ lived \subseteq Stands(convo) /\ ToldPlace(convo) = turn.place
      BY <1>1, <2>4 DEF ConvoInv, SaidInv, TurnInv, InTurn
    <3>2. ToldPlace(marked) = ToldPlace(convo)
      BY <1>1, <1>3, PlaceTold
    <3> QED
      BY <1>3, <1>5, <2>1, <3>1, <3>2
  <2> QED
    BY <1>1, <1>3, <1>5, <1>6, <2>1, <2>2, <2>3, <2>4, TurnOver
<1> QED
  BY <1>7, <1>8

LEMMA EndsKeeps == ASSUME ConvoInv, EndsTurn PROVE ConvoInv'
<1>1. ConvoTypes /\ convo \in Histories /\ phase = "ending" /\ Extended(convo) /\ missed # "cut"
  BY DEF ConvoInv, ConvoTypes, GuardInv, EndsTurn
<1>2. UNCHANGED <<copy, halted, Setting, spent, lived, aside>>
  BY DEF EndsTurn
<1>3. PICK by : by = IF turn.err = "overflow" THEN "overflow"
                     ELSE IF size # 0 /\ next = "no" THEN "size" ELSE "asked"
  OBVIOUS
<1>4. \/ ~halted /\ StartsPass(by, "turn", convo, size, next = "worded")
      \/ phase' = "idle" /\ UNCHANGED <<convo, guard, size, turn, pass, next, missed>>
  BY <1>3 DEF EndsTurn
<1>5. CopyTyped' /\ SpentTyped' /\ halted' \in BOOLEAN /\ UNCHANGED Setting /\ UNCHANGED aside
  BY <1>1, <1>2 DEF ConvoTypes, CopyTyped, SpentTyped
<1>6. ASSUME ~misplaced PROVE copy' # Unset => ~copy'.made
  BY <1>1, <1>2, <1>6 DEF ConvoInv, SaidInv, CopyInv
<1>7. CASE ~halted /\ StartsPass(by, "turn", convo, size, next = "worded")
  <2>1. ASSUME ~misplaced PROVE Carried(convo, "turn", FALSE)
    <3>1. Well(convo) /\ lived \subseteq Stands(convo) /\ (turn.err = "overflow" => ToldPlace(convo) = turn.place)
      BY <1>1, <1>7, <2>1 DEF ConvoInv, SaidInv, TurnInv
    <3> QED
      BY <1>2, <1>6, <2>1, <3>1 DEF Carried
  <2> QED
    BY <1>1, <1>5, <1>7, <2>1, PassBegins
<1>8. CASE phase' = "idle" /\ UNCHANGED <<convo, guard, size, turn, pass, next, missed>>
  <2>1. ConvoTypes'
    BY <1>1, <1>2, <1>8 DEF ConvoTypes, Setting, aside
  <2>2. GuardInv'
    BY <1>1, <1>2, <1>8 DEF GuardInv, Extended, aside
  <2>3. ASSUME ~misplaced PROVE SaidInv'
    <3>1. SaidInv
      BY <2>3 DEF ConvoInv
    <3>2. CopyInv' /\ PassInv' /\ TurnInv'
      BY <1>6, <1>8, <2>3 DEF CopyInv, PassInv, TurnInv, InTurn
    <3> QED
      BY <1>2, <1>8, <3>1, <3>2 DEF SaidInv
  <2> QED
    BY <1>2, <2>1, <2>2, <2>3 DEF ConvoInv, aside
<1> QED
  BY <1>4, <1>7, <1>8

LEMMA ConvoStarts == ConvoInit => ConvoInv
<1> SUFFICES ASSUME ConvoInit PROVE ConvoInv
  OBVIOUS
<1>1. PICK none : none = <<>> /\ DOMAIN none = {}
  OBVIOUS
<1>2. none \in Histories
  BY <1>1 DEF Histories
<1>3. convo = none /\ Well(convo) /\ lived \subseteq Stands(convo)
  BY <1>1 DEF ConvoInit, Well
<1>4. ConvoTypes
  BY <1>2, <1>3 DEF ConvoInit, ConvoTypes, NoTurn
<1>5. GuardInv /\ CopyInv /\ PassInv /\ TurnInv
  BY DEF ConvoInit, GuardInv, Extended, CopyInv, PassInv, TurnInv, InTurn
<1> QED
  BY <1>3, <1>4, <1>5 DEF ConvoInv, SaidInv

LEMMA ConvoStep == ConvoInv /\ [ConvoNext]_chatVars => ConvoInv'
<1> SUFFICES ASSUME ConvoInv, [ConvoNext]_chatVars PROVE ConvoInv'
  OBVIOUS
<1>1. CASE UNCHANGED chatVars
  <2>1. ConvoTypes'
    BY <1>1 DEF chatVars, ConvoInv, ConvoTypes
  <2>2. GuardInv'
    BY <1>1 DEF chatVars, ConvoInv, GuardInv, Extended
  <2>3. ASSUME ~misplaced PROVE SaidInv'
    BY <1>1, <2>3 DEF chatVars, ConvoInv, SaidInv, CopyInv, PassInv, TurnInv
  <2> QED
    BY <1>1, <2>1, <2>2, <2>3 DEF chatVars, ConvoInv
<1>2. CASE OpensTurn \/ OpensOnCopy \/ Compacts \/ Copies \/ Btw \/ Clears \/ Moves \/ Halts
  BY <1>2, OpenKeeps, OpenOnCopyKeeps, CompactsKeeps, CopiesKeeps, BtwKeeps, ClearsKeeps, MovesKeeps, HaltsKeeps
<1>3. CASE \E to \in Brains, at \in 0 .. 1 : SwitchesBrain(to, at)
  BY <1>3, SwitchKeeps
<1>4. CASE \E worded \in BOOLEAN : Asks(worded)
  BY <1>4, AsksKeeps
<1>5. CASE Steers \/ SendsCall \/ SaysText \/ Edits \/ Closes \/ EndsTurn
  BY <1>5, SteersKeeps, SendsKeeps, SaysKeeps, EditsKeeps, ClosesKeeps, EndsKeeps
<1>6. CASE \E result \in {"long", "short"}, asks, worded \in BOOLEAN : Works(result, asks, worded)
  BY <1>6, WorksKeeps
<1>7. CASE \E how \in {"overflow", "bad", "failed"} : Fails(how)
  BY <1>7, FailsKeeps
<1>8. CASE PassAnswers \/ PassOverflows \/ PassFails \/ ServerFails
  BY <1>8, AnswerKeeps, OverflowKeeps, PassFailKeeps, ServerFailKeeps
<1> QED
  BY <1>1, <1>2, <1>3, <1>4, <1>5, <1>6, <1>7, <1>8 DEF ConvoNext

\* Each call has its output, and each output its call, whatever else a request ends on.
LEMMA WellPairs ==
    ASSUME NEW s \in Histories, Well(s)
    PROVE  Paired(s)
<1>1. PICK n \in Nat : n = Len(s) /\ DOMAIN s = 1 .. n
  BY HistoryHas
<1>2. ASSUME NEW i \in 1 .. n, s[i].is = "call" PROVE \E j \in Results(s) : j > i /\ s[j].n = s[i].n
  <2>1. i + 1 \in 1 .. n /\ s[i + 1].is \in Outputs /\ s[i + 1].n = s[i].n
    BY <1>1, <1>2 DEF Well
  <2>2. i + 1 \in Results(s) /\ i + 1 > i
    BY <1>1, <2>1 DEF Results, Outputs
  <2> QED
    BY <2>1, <2>2
<1>3. ASSUME NEW i \in Results(s) PROVE \E j \in Where(s, "call") : j < i /\ s[j].n = s[i].n
  <2>1. i \in 1 .. n /\ s[i].is \in Outputs
    BY <1>1, <1>3 DEF Results, Outputs
  <2>2. i - 1 \in 1 .. n /\ s[i - 1].is = "call" /\ s[i - 1].n = s[i].n
    BY <1>1, <2>1 DEF Well
  <2>3. i - 1 \in Where(s, "call") /\ i - 1 < i
    BY <1>1, <2>1, <2>2 DEF Where
  <2> QED
    BY <2>2, <2>3
<1> QED
  BY <1>1, <1>2, <1>3 DEF Paired
LEMMA AskedPairs ==
    ASSUME NEW s \in Histories, Well(s), NEW last \in {"trigger", "ask"}
    PROVE  Paired(Append(s, Piece(last, 0)))
<1>1. PICK n \in Nat : n = Len(s) /\ DOMAIN s = 1 .. n
  BY HistoryHas
<1>2. PICK x : x = Piece(last, 0)
  OBVIOUS
<1>3. x.is = last
  BY <1>2, PieceIs
<1>4. PICK S : S = Items \cup {x}
  OBVIOUS
<1>5. s \in Seq(S) /\ x \in S
  BY <1>4 DEF Histories
<1>6. PICK j : j = Append(s, x)
  OBVIOUS
<1>7. DOMAIN j = 1 .. n + 1 /\ j[n + 1] = x /\ \A i \in 1 .. n : i \in 1 .. n + 1 /\ j[i] = s[i]
  BY <1>1, <1>5, <1>6
<1>8. Paired(s)
  BY WellPairs
<1>9. Results(j) = Results(s) /\ Where(j, "call") = Where(s, "call")
  <2>1. \A i \in 1 .. n + 1 : i \in 1 .. n \/ i = n + 1
    BY <1>1
  <2>2. \A i \in 1 .. n + 1 : j[i].is \in {"long", "short", "gone", "call"} => i \in 1 .. n
    BY <1>3, <1>7, <2>1
  <2>3. \A i : i \in Results(j) <=> i \in Results(s)
    BY <1>1, <1>7, <2>2 DEF Results
  <2>4. \A i : i \in Where(j, "call") <=> i \in Where(s, "call")
    BY <1>1, <1>7, <2>2 DEF Where
  <2> QED
    BY <2>3, <2>4
<1>10. Results(s) \subseteq 1 .. n /\ Where(s, "call") \subseteq 1 .. n
  BY <1>1 DEF Results, Where
<1>11. ASSUME NEW i \in DOMAIN j, j[i].is = "call" PROVE \E k \in Results(j) : k > i /\ j[k].n = j[i].n
  <2>1. i \in Where(s, "call")
    BY <1>9, <1>11 DEF Where
  <2>2. i \in 1 .. n /\ s[i].is = "call"
    BY <1>1, <2>1 DEF Where
  <2>3. PICK k \in Results(s) : k > i /\ s[k].n = s[i].n
    BY <1>1, <1>8, <2>2 DEF Paired
  <2> QED
    BY <1>7, <1>9, <1>10, <2>2, <2>3
<1>12. ASSUME NEW i \in Results(j) PROVE \E k \in Where(j, "call") : k < i /\ j[k].n = j[i].n
  <2>1. i \in Results(s) /\ i \in 1 .. n
    BY <1>9, <1>10, <1>12
  <2>2. PICK k \in Where(s, "call") : k < i /\ s[k].n = s[i].n
    BY <1>1, <1>8, <2>1 DEF Paired
  <2> QED
    BY <1>7, <1>9, <1>10, <2>1, <2>2
<1>13. Paired(j)
  BY <1>11, <1>12 DEF Paired
<1> QED
  BY <1>2, <1>6, <1>13

LEMMA ConvoKeeps == ConvoInv => ConversationKept
<1> SUFFICES ASSUME ConvoInv, ~misplaced PROVE RequestsWhole /\ NothingForgotten /\ StandingTold
  BY DEF ConversationKept
<1>1. ConvoTypes /\ SaidInv /\ convo \in Histories
  BY DEF ConvoInv, ConvoTypes
<1>2. CASE phase = "calling"
  <2>1. guard = convo /\ Paired(convo)
    BY <1>1, <1>2, WellPairs DEF SaidInv, TurnInv
  <2>2. ToldPlace(convo) = turn.place /\ (brain \in Able /\ ~turn.rewritten => Announced(convo, base) = effort)
    BY <1>1, <1>2 DEF SaidInv, TurnInv, InTurn
  <2> QED
    BY <1>1, <1>2, <2>1, <2>2 DEF RequestsWhole, NothingForgotten, StandingTold, SaidInv, CopyInv
<1>3. CASE phase = "compacting"
  <2>1. /\ pass.items \in Histories /\ pass.call \in {"trigger", "ask"} /\ Well(pass.items)
        /\ guard = Append(pass.items, Piece(pass.call, 0))
    BY <1>1, <1>3 DEF ConvoTypes, SaidInv, PassInv
  <2>2. Paired(guard)
    BY <2>1, AskedPairs
  <2> QED
    BY <1>1, <1>3, <2>2 DEF RequestsWhole, NothingForgotten, StandingTold, SaidInv, CopyInv
<1>4. CASE phase \notin {"calling", "compacting"}
  BY <1>1, <1>4 DEF RequestsWhole, NothingForgotten, StandingTold, SaidInv, CopyInv
<1> QED
  BY <1>2, <1>3, <1>4

(***************************************************************************)
(* However often a history is compacted (compact.rs fold, install, evict): *)
(* what is sent has each call with its output, the history stands for all  *)
(* that was said, a copy made of it too, and a turn's calls have its       *)
(* place and its effort; unless a refused update took another item along   *)
(* (RefusedTakenOut).                                                      *)
(***************************************************************************)
THEOREM ConversationIsKept == ConvoSpec => []ConversationKept
<1>1. ConvoInit => ConvoInv
  BY ConvoStarts
<1>2. ConvoInv /\ [ConvoNext]_chatVars => ConvoInv'
  BY ConvoStep
<1>3. ConvoInv => ConversationKept
  BY ConvoKeeps
<1> QED
  BY <1>1, <1>2, <1>3, PTL DEF ConvoSpec

(***************************************************************************)
(* Each request extends the one the cache guard has, or the guard was told *)
(* that it would not (cache.rs compare, agent.rs commit), but for one that *)
(* follows a summary that was given up.                                    *)
(***************************************************************************)
THEOREM CacheIsKept == ConvoSpec => []CacheKept
<1>1. ConvoInit => ConvoInv
  BY ConvoStarts
<1>2. ConvoInv /\ [ConvoNext]_chatVars => ConvoInv'
  BY ConvoStep
<1>3. ConvoInv => CacheKept
  BY DEF ConvoInv, GuardInv, CacheKept
<1> QED
  BY <1>1, <1>2, <1>3, PTL DEF ConvoSpec

-----------------------------------------------------------------------------
(* The judge's authorization memory.  A message takes the next revision for its id, and    *)
(* a merge takes the first source and no revision: a revision tells how many sources wait. *)

Sources == [id : Nat, word : Nat]
Entries == [id : Nat, word : Nat, kind : Kinds, active : BOOLEAN, by : Nat]
Memories == [rev : Nat, entries : SUBSET Entries, pending : Seq(Sources)]
WordsOf(s) == {x.word : x \in ToSet(s)}
AuthorizationTypes ==
    /\ memory \in Memories /\ checkpoint \in Memories /\ journal \in Memories
    /\ update \in [on : BOOLEAN, of : Memories, rev : Nat]
    /\ faults \in Nat /\ spoken \in Nat /\ unsaved \in SUBSET Nat
    /\ merged \in Seq([word : Nat, gone : SUBSET Nat])
\* The sources waiting took the last revisions, in order, each later than any note; their
\* words are later than those noted.
SourcesInOrder ==
    LET noted == memory.rev - Len(memory.pending)
    IN  /\ \A i \in 1 .. Len(memory.pending) : memory.pending[i].id = noted + i
        /\ \A e \in memory.entries : e.id <= noted
WordsInOrder ==
    /\ \A i \in 1 .. Len(memory.pending) : memory.pending[i].word <= spoken
    /\ \A i, j \in 1 .. Len(memory.pending) : i < j => memory.pending[i].word < memory.pending[j].word
    /\ \A k \in DOMAIN merged : merged[k].word <= spoken
    /\ \A k \in DOMAIN merged, i \in 1 .. Len(memory.pending) : merged[k].word < memory.pending[i].word
    /\ \A i, j \in DOMAIN merged : i < j => merged[i].word < merged[j].word
\* A disk's memory that is behind by some messages and by nothing else.
Behind(kept) ==
    /\ kept.rev <= memory.rev
    /\ kept.entries = memory.entries
    /\ Len(kept.pending) = Len(memory.pending) - (memory.rev - kept.rev)
    /\ \A i \in 1 .. Len(kept.pending) : kept.pending[i] = memory.pending[i]
\* The journal is the later of the two by its revision only, and otherwise holds no word
\* the checkpoint has not.
JournalFits ==
    /\ journal.rev <= memory.rev
    /\ checkpoint.rev < journal.rev => Behind(journal)
    /\ journal.rev <= checkpoint.rev => WordsOf(journal.pending) \subseteq Kept(checkpoint) \cup unsaved
    /\ checkpoint.rev = journal.rev => Len(checkpoint.pending) <= Len(journal.pending)
UpdateFits ==
    update.on =>
        /\ update.of.entries = memory.entries
        /\ update.of.pending # <<>> /\ memory.pending # <<>>
        /\ Head(update.of.pending) = Head(memory.pending)
AllWords == \A w \in 1 .. spoken : w \in Kept(memory) \cup unsaved
AuthorizationInv ==
    /\ AuthorizationTypes /\ SourcesInOrder /\ WordsInOrder
    /\ Behind(checkpoint) /\ JournalFits /\ UpdateFits /\ AllWords /\ EvidenceLater

LEMMA WordsOfHas == ASSUME NEW s, NEW w PROVE w \in WordsOf(s) <=> \E i \in DOMAIN s : s[i].word = w
  BY DEF WordsOf, ToSet

LEMMA WordsOfAppend ==
    ASSUME NEW S, NEW s \in Seq(S), NEW t \in Seq(S), Len(t) = Len(s) + 1,
           \A i \in 1 .. Len(s) : t[i] = s[i]
    PROVE  WordsOf(t) = WordsOf(s) \cup {t[Len(s) + 1].word}
<1> DEFINE x == t[Len(s) + 1]
<1>1. x = t[Len(s) + 1] /\ Len(t) = Len(s) + 1 /\ \A i \in 1 .. Len(s) : t[i] = s[i]
  OBVIOUS
<1> HIDE DEF x
<1>2. DOMAIN t = 1 .. Len(s) + 1 /\ DOMAIN s = 1 .. Len(s) /\ Len(s) \in Nat
  BY <1>1
<1>3. ASSUME NEW w \in WordsOf(t) PROVE w \in WordsOf(s) \cup {x.word}
  <2>1. PICK i \in 1 .. Len(s) + 1 : t[i].word = w
    BY <1>2, WordsOfHas
  <2>2. i = Len(s) + 1 \/ i \in 1 .. Len(s)
    BY <1>2
  <2> QED
    BY <1>1, <1>2, <2>1, <2>2, WordsOfHas
<1>4. ASSUME NEW w \in WordsOf(s) \cup {x.word} PROVE w \in WordsOf(t)
  <2>1. CASE w = x.word
    BY <1>1, <1>2, <2>1, Len(s) + 1 \in 1 .. Len(s) + 1, WordsOfHas
  <2>2. CASE w \in WordsOf(s)
    <3>1. PICK i \in 1 .. Len(s) : s[i].word = w
      BY <1>2, <2>2, WordsOfHas
    <3>2. i \in 1 .. Len(s) + 1
      BY <1>2
    <3> QED
      BY <1>1, <1>2, <3>1, <3>2, WordsOfHas
  <2> QED
    BY <1>4, <2>1, <2>2
<1> QED
  BY <1>1, <1>3, <1>4

LEMMA WordsOfTail ==
    ASSUME NEW S, NEW s \in Seq(S), NEW t \in Seq(S), Len(s) > 0, Len(t) = Len(s) - 1,
           \A i \in 1 .. Len(t) : t[i] = s[i + 1]
    PROVE  WordsOf(s) = WordsOf(t) \cup {s[1].word}
<1>1. Len(s) \in Nat /\ Len(s) > 0 /\ Len(t) = Len(s) - 1 /\ \A i \in 1 .. Len(t) : t[i] = s[i + 1]
  OBVIOUS
<1>2. DOMAIN t = 1 .. Len(t) /\ DOMAIN s = 1 .. Len(s) /\ s[1] \in S
  BY <1>1
<1>3. ASSUME NEW w \in WordsOf(s) PROVE w \in WordsOf(t) \cup {s[1].word}
  <2>1. PICK i \in 1 .. Len(s) : s[i].word = w
    BY <1>2, WordsOfHas
  <2>2. CASE i = 1
    BY <2>1, <2>2
  <2>3. CASE i # 1
    <3>1. i - 1 \in 1 .. Len(t) /\ (i - 1) + 1 = i
      BY <1>1, <2>3
    <3>2. t[i - 1] = s[i]
      BY <1>1, <3>1
    <3> QED
      BY <1>2, <2>1, <3>1, <3>2, WordsOfHas
  <2> QED
    BY <2>2, <2>3
<1>4. ASSUME NEW w \in WordsOf(t) \cup {s[1].word} PROVE w \in WordsOf(s)
  <2>1. CASE w = s[1].word
    BY <1>1, <1>2, <2>1, 1 \in 1 .. Len(s), WordsOfHas
  <2>2. CASE w \in WordsOf(t)
    <3>1. PICK i \in DOMAIN t : t[i].word = w
      BY <2>2, WordsOfHas
    <3>2. i + 1 \in 1 .. Len(s) /\ t[i] = s[i + 1]
      BY <1>1, <1>2
    <3> QED
      BY <1>2, <3>1, <3>2, WordsOfHas
  <2> QED
    BY <1>4, <2>1, <2>2
<1> QED
  BY <1>3, <1>4

LEMMA WordsOfPrefix ==
    ASSUME NEW S, NEW s \in Seq(S), NEW t \in Seq(S), Len(t) <= Len(s),
           \A i \in 1 .. Len(t) : t[i] = s[i]
    PROVE  WordsOf(t) \subseteq WordsOf(s)
<1>1. DOMAIN t = 1 .. Len(t) /\ DOMAIN s = 1 .. Len(s) /\ Len(s) \in Nat /\ Len(t) \in Nat
  OBVIOUS
<1>2. ASSUME NEW w \in WordsOf(t) PROVE w \in WordsOf(s)
  <2>1. PICK i \in 1 .. Len(t) : t[i].word = w
    BY <1>1, WordsOfHas
  <2>2. i \in 1 .. Len(s) /\ t[i] = s[i]
    BY <1>1
  <2> QED
    BY <1>1, <2>1, <2>2, WordsOfHas
<1> QED
  BY <1>2

LEMMA KeptWords == ASSUME NEW words PROVE Kept(words) = WordsOf(merged) \cup WordsOf(words.pending)
  BY DEF Kept, WordsOf

\* A memory that is behind: what has been noted is the same, and its words are all known.
LEMMA BehindKnows ==
    ASSUME memory \in Memories, NEW kept \in Memories, Behind(kept)
    PROVE  /\ kept.rev - Len(kept.pending) = memory.rev - Len(memory.pending)
           /\ Len(kept.pending) <= Len(memory.pending)
           /\ WordsOf(kept.pending) \subseteq WordsOf(memory.pending)
<1>1. /\ kept.rev \in Nat /\ memory.rev \in Nat /\ kept.pending \in Seq(Sources)
      /\ memory.pending \in Seq(Sources)
  BY DEF Memories
<1>2. Len(kept.pending) \in Nat /\ Len(memory.pending) \in Nat
  BY <1>1
<1>3. /\ kept.rev <= memory.rev
      /\ Len(kept.pending) = Len(memory.pending) - (memory.rev - kept.rev)
      /\ \A i \in 1 .. Len(kept.pending) : kept.pending[i] = memory.pending[i]
  BY DEF Behind
<1>4. kept.rev - Len(kept.pending) = memory.rev - Len(memory.pending) /\ Len(kept.pending) <= Len(memory.pending)
  BY <1>1, <1>2, <1>3
<1> QED
  BY <1>1, <1>3, <1>4, WordsOfPrefix

LEMMA AuthorizationStarts == ASSUME AuthorizationInit PROVE AuthorizationInv
<1>1. PICK none : none = <<>> /\ none \in Seq(Sources) /\ Len(none) = 0
  <2>1. <<>> \in Seq(Sources) /\ Len(<<>>) = 0
    OBVIOUS
  <2> QED
    BY <2>1
<1>2. NoMemory = [rev |-> 0, entries |-> {}, pending |-> none]
  BY <1>1 DEF NoMemory
<1>3. NoMemory \in Memories /\ NoMemory.rev = 0 /\ NoMemory.entries = {} /\ Len(NoMemory.pending) = 0
      /\ NoMemory.pending = none
  BY <1>1, <1>2 DEF Memories
<1>4. /\ memory = NoMemory /\ checkpoint = NoMemory /\ journal = NoMemory /\ update = NoUpdate
      /\ faults = 0 /\ spoken = 0 /\ unsaved = {} /\ DOMAIN merged = {}
      /\ merged \in Seq([word : Nat, gone : SUBSET Nat])
  BY DEF AuthorizationInit
<1>5. AuthorizationTypes /\ UpdateFits
  BY <1>3, <1>4 DEF AuthorizationTypes, UpdateFits, NoUpdate
<1>6. SourcesInOrder /\ WordsInOrder
  BY <1>3, <1>4 DEF SourcesInOrder, WordsInOrder
<1>7. Behind(checkpoint)
  BY <1>3, <1>4 DEF Behind
<1>8. JournalFits
  <2>1. WordsOf(none) = {}
    BY <1>1, DOMAIN none = {}, WordsOfHas
  <2> QED
    BY <1>3, <1>4, <2>1 DEF JournalFits
<1>9. AllWords /\ EvidenceLater
  BY <1>3, <1>4 DEF AllWords, EvidenceLater
<1> QED
  BY <1>5, <1>6, <1>7, <1>8, <1>9 DEF AuthorizationInv

LEMMA AuthorizationRests ==
    ASSUME AuthorizationInv, UpdateFits', faults' \in Nat, update' \in [on : BOOLEAN, of : Memories, rev : Nat],
           UNCHANGED <<memory, checkpoint, journal, spoken, merged, unsaved>>
    PROVE  AuthorizationInv'
<1>1. AuthorizationTypes'
  BY DEF AuthorizationInv, AuthorizationTypes
<1>2. SourcesInOrder' /\ WordsInOrder'
  BY DEF AuthorizationInv, SourcesInOrder, WordsInOrder
<1>3. Behind(checkpoint)' /\ JournalFits'
  BY DEF AuthorizationInv, Behind, JournalFits, Kept
<1>4. AllWords' /\ EvidenceLater'
  BY DEF AuthorizationInv, AllWords, EvidenceLater, Kept
<1> QED
  BY <1>1, <1>2, <1>3, <1>4 DEF AuthorizationInv

LEMMA NotesTyped ==
    ASSUME NEW S, NEW notes \in Seq([word : Nat, gone : S])
    PROVE  /\ DOMAIN notes = 1 .. Len(notes) /\ Len(notes) \in Nat
           /\ \A k \in DOMAIN notes : notes[k].word \in Nat
<1>1. DOMAIN notes = 1 .. Len(notes) /\ Len(notes) \in Nat
  OBVIOUS
<1>2. \A k \in DOMAIN notes : notes[k] \in [word : Nat, gone : S]
  BY <1>1, ElementOfSeq
<1> QED
  BY <1>1, <1>2

LEMMA StartsTurn == ASSUME AuthorizationInv, StartUserTurn PROVE AuthorizationInv'
<1>1. /\ memory \in Memories /\ checkpoint \in Memories /\ journal \in Memories
      /\ update \in [on : BOOLEAN, of : Memories, rev : Nat]
      /\ faults \in Nat /\ spoken \in Nat /\ unsaved \in SUBSET Nat
      /\ merged \in Seq([word : Nat, gone : SUBSET Nat])
  BY DEF AuthorizationInv, AuthorizationTypes
<1>2. PICK new : new = [id |-> memory.rev + 1, word |-> spoken + 1]
  OBVIOUS
<1>3. PICK waiting : waiting = Append(memory.pending, new)
  OBVIOUS
<1>4. /\ memory.rev \in Nat /\ memory.entries \in SUBSET Entries /\ memory.pending \in Seq(Sources)
      /\ new \in Sources /\ new.id = memory.rev + 1 /\ new.word = spoken + 1
  BY <1>1, <1>2 DEF Memories, Sources
<1>5. PICK N \in Nat : N = Len(memory.pending)
  BY <1>4
<1>6. /\ waiting \in Seq(Sources) /\ Len(waiting) = N + 1 /\ waiting[N + 1] = new
      /\ \A i \in 1 .. N : waiting[i] = memory.pending[i]
      /\ WordsOf(waiting) = WordsOf(memory.pending) \cup {spoken + 1}
  <2>1. /\ waiting \in Seq(Sources) /\ Len(waiting) = Len(memory.pending) + 1
        /\ waiting[Len(memory.pending) + 1] = new
        /\ \A i \in 1 .. Len(memory.pending) : waiting[i] = memory.pending[i]
    BY <1>3, <1>4, AppendProperties
  <2>2. WordsOf(waiting) = WordsOf(memory.pending) \cup {new.word}
    <3>1. PICK old \in Seq(Sources) : old = memory.pending
      BY <1>4
    <3>2. Len(waiting) = Len(old) + 1 /\ \A i \in 1 .. Len(old) : waiting[i] = old[i]
      BY <2>1, <3>1
    <3>3. WordsOf(waiting) = WordsOf(old) \cup {waiting[Len(old) + 1].word}
      BY <2>1, <3>2, WordsOfAppend
    <3> QED
      BY <2>1, <3>1, <3>3
  <2> QED
    BY <1>4, <1>5, <2>1, <2>2
<1>7. Queued = [rev |-> memory.rev + 1, entries |-> memory.entries, pending |-> waiting]
  <2>1. Queued = [memory EXCEPT !.rev = memory.rev + 1, !.pending = waiting]
    BY <1>2, <1>3 DEF Queued
  <2> QED
    BY <1>1, <2>1 DEF Memories
<1>8. /\ Queued \in Memories /\ Queued.rev = memory.rev + 1 /\ Queued.entries = memory.entries
      /\ Queued.pending = waiting
  BY <1>4, <1>6, <1>7 DEF Memories
<1>9. /\ memory' = Queued /\ spoken' = spoken + 1
      /\ checkpoint' = Queued \/ checkpoint' = checkpoint
      /\ journal' = journal /\ update' = update /\ merged' = merged /\ unsaved' = unsaved
  BY DEF StartUserTurn
<1>10. faults' \in Nat
  BY <1>1 DEF StartUserTurn
<1>11. AuthorizationTypes'
  BY <1>1, <1>8, <1>9, <1>10 DEF AuthorizationTypes
<1>12. /\ memory'.rev = memory.rev + 1 /\ memory'.entries = memory.entries /\ memory'.pending = waiting
       /\ Len(memory'.pending) = N + 1
  BY <1>6, <1>8, <1>9
<1>13. \A i \in 1 .. N + 1 : i = N + 1 \/ i \in 1 .. N
  BY <1>5
<1>14. SourcesInOrder'
  <2>1. /\ \A i \in 1 .. N : memory.pending[i].id = (memory.rev - N) + i
        /\ \A e \in memory.entries : e.id <= memory.rev - N
    BY <1>5 DEF AuthorizationInv, SourcesInOrder
  <2>2. memory'.rev - Len(memory'.pending) = memory.rev - N
    BY <1>4, <1>5, <1>12
  <2>3. ASSUME NEW i \in 1 .. N + 1 PROVE waiting[i].id = (memory.rev - N) + i
    <3>1. CASE i = N + 1
      BY <1>4, <1>5, <1>6, <3>1
    <3>2. CASE i \in 1 .. N
      BY <1>6, <2>1, <3>2
    <3> QED
      BY <1>13, <3>1, <3>2
  <2> QED
    BY <1>12, <2>1, <2>2, <2>3 DEF SourcesInOrder
<1>15. WordsInOrder'
  <2>1. WordsInOrder
    BY DEF AuthorizationInv
  <2>5. \A k \in DOMAIN merged : merged[k].word \in Nat
    BY <1>1, NotesTyped
  <2>2. ASSUME NEW i \in 1 .. N + 1
        PROVE  /\ waiting[i].word \in Nat /\ waiting[i].word <= spoken + 1
               /\ \A k \in DOMAIN merged : merged[k].word < waiting[i].word
               /\ \A j \in 1 .. N + 1 : i < j => waiting[i].word < waiting[j].word
    <3>1. CASE i = N + 1
      <4>2. \A j \in 1 .. N + 1 : ~(i < j)
        BY <1>5, <3>1
      <4>3. waiting[i].word = spoken + 1
        BY <1>4, <1>6, <3>1
      <4>4. \A k \in DOMAIN merged : merged[k].word < spoken + 1
        BY <1>1, <2>1, <2>5 DEF WordsInOrder
      <4> QED
        BY <1>1, <4>2, <4>3, <4>4
    <3>2. CASE i \in 1 .. N
      <4>1. waiting[i] = memory.pending[i] /\ memory.pending[i].word \in Nat /\ memory.pending[i].word <= spoken
        <5>1. waiting[i] = memory.pending[i] /\ memory.pending[i] \in Sources
          BY <1>4, <1>5, <1>6, <3>2
        <5>2. memory.pending[i].word <= spoken
          BY <1>5, <2>1, <3>2 DEF WordsInOrder
        <5> QED
          BY <5>1, <5>2 DEF Sources
      <4>2. \A k \in DOMAIN merged : merged[k].word < memory.pending[i].word
        BY <1>5, <2>1, <3>2 DEF WordsInOrder
      <4>3. ASSUME NEW j \in 1 .. N + 1, i < j PROVE waiting[i].word < waiting[j].word
        <5>1. CASE j = N + 1
          BY <1>1, <1>4, <1>6, <4>1, <5>1
        <5>2. CASE j \in 1 .. N
          BY <1>5, <1>6, <2>1, <3>2, <4>1, <4>3, <5>2 DEF WordsInOrder
        <5> QED
          BY <1>13, <5>1, <5>2
      <4> QED
        BY <1>1, <4>1, <4>2, <4>3
    <3> QED
      BY <1>13, <3>1, <3>2
  <2>3. \A k \in DOMAIN merged : merged[k].word <= spoken + 1
    BY <1>1, <2>1, <2>5 DEF WordsInOrder
  <2>4. \A i, j \in DOMAIN merged : i < j => merged[i].word < merged[j].word
    BY <2>1 DEF WordsInOrder
  <2> QED
    BY <1>9, <1>12, <2>2, <2>3, <2>4 DEF WordsInOrder
<1>16. ASSUME NEW kept \in Memories, Behind(kept) PROVE Behind(kept)'
  <2>1. /\ kept.rev <= memory.rev /\ kept.entries = memory.entries
        /\ Len(kept.pending) = Len(memory.pending) - (memory.rev - kept.rev)
        /\ \A i \in 1 .. Len(kept.pending) : kept.pending[i] = memory.pending[i]
    BY <1>16 DEF Behind
  <2>2. kept.rev \in Nat /\ Len(kept.pending) \in Nat
    BY DEF Memories
  <2>3. Len(kept.pending) = (N + 1) - ((memory.rev + 1) - kept.rev) /\ kept.rev <= memory.rev + 1
        /\ Len(kept.pending) <= N
    BY <1>4, <1>5, <2>1, <2>2
  <2>4. \A i \in 1 .. Len(kept.pending) : kept.pending[i] = waiting[i]
    BY <1>5, <1>6, <2>1, <2>2, <2>3
  <2> QED
    BY <1>12, <2>1, <2>3, <2>4 DEF Behind
<1>17. ASSUME checkpoint' = Queued PROVE Behind(checkpoint)' /\ JournalFits'
  <2>1. Behind(checkpoint)'
    BY <1>4, <1>5, <1>6, <1>8, <1>9, <1>17 DEF Behind
  <2>2. WordsOf(journal.pending) \subseteq (WordsOf(merged) \cup WordsOf(waiting)) \cup unsaved
    <3>1. CASE checkpoint.rev < journal.rev
      BY <1>1, <1>6, <3>1, BehindKnows DEF AuthorizationInv, JournalFits
    <3>2. CASE journal.rev <= checkpoint.rev
      <4>1. WordsOf(journal.pending) \subseteq (WordsOf(merged) \cup WordsOf(checkpoint.pending)) \cup unsaved
        BY <3>2, KeptWords DEF AuthorizationInv, JournalFits
      <4>2. WordsOf(checkpoint.pending) \subseteq WordsOf(memory.pending)
        BY <1>1, BehindKnows DEF AuthorizationInv
      <4> QED
        BY <1>6, <4>1, <4>2
    <3> QED
      BY <1>1, <3>1, <3>2 DEF Memories
  <2>3. journal.rev <= memory.rev /\ journal.rev \in Nat
    BY <1>1 DEF AuthorizationInv, JournalFits, Memories
  <2>4. checkpoint'.rev = memory.rev + 1 /\ Kept(checkpoint)' = WordsOf(merged) \cup WordsOf(waiting)
    BY <1>8, <1>9, <1>17 DEF Kept, WordsOf
  <2>5. JournalFits'
    BY <1>4, <1>9, <1>12, <2>2, <2>3, <2>4 DEF JournalFits
  <2> QED
    BY <2>1, <2>5
<1>18. ASSUME checkpoint' = checkpoint PROVE Behind(checkpoint)' /\ JournalFits'
  <2>1. Behind(checkpoint)'
    BY <1>1, <1>16, <1>18 DEF AuthorizationInv, Behind
  <2>2. checkpoint.rev < journal.rev => Behind(journal)'
    BY <1>1, <1>9, <1>16 DEF AuthorizationInv, JournalFits
  <2>3. journal.rev <= memory.rev + 1
    BY <1>1, <1>4 DEF AuthorizationInv, JournalFits, Memories
  <2>4. Kept(checkpoint)' = Kept(checkpoint)
    BY <1>9, <1>18 DEF Kept
  <2>5. JournalFits'
    BY <1>9, <1>12, <1>18, <2>2, <2>3, <2>4 DEF AuthorizationInv, JournalFits
  <2> QED
    BY <2>1, <2>5
<1>19. Behind(checkpoint)' /\ JournalFits'
  BY <1>9, <1>17, <1>18
<1>20. UpdateFits'
  <2>1. ASSUME update.on
        PROVE  /\ update.of.entries = memory.entries /\ update.of.pending # <<>>
               /\ waiting # <<>> /\ Head(update.of.pending) = Head(waiting)
    <3>1. /\ update.of.entries = memory.entries /\ update.of.pending # <<>>
          /\ memory.pending # <<>> /\ Head(update.of.pending) = Head(memory.pending)
      BY <2>1 DEF AuthorizationInv, UpdateFits
    <3>2. N # 0
      BY <1>4, <1>5, <3>1, EmptySeq
    <3>3. waiting # <<>> /\ waiting[1] = memory.pending[1]
      BY <1>5, <1>6, <3>2
    <3>4. Head(waiting) = waiting[1] /\ Head(memory.pending) = memory.pending[1]
      BY <1>4, <1>6, <3>1, <3>3
    <3> QED
      BY <3>1, <3>3, <3>4
  <2> QED
    BY <1>9, <1>12, <2>1 DEF UpdateFits
<1>21. AllWords'
  <2>1. Kept(memory)' = WordsOf(merged) \cup WordsOf(waiting)
    BY <1>9, <1>12 DEF Kept, WordsOf
  <2>2. \A w \in 1 .. spoken : w \in (WordsOf(merged) \cup WordsOf(memory.pending)) \cup unsaved
    BY KeptWords DEF AuthorizationInv, AllWords
  <2>3. \A w \in 1 .. spoken + 1 : w = spoken + 1 \/ w \in 1 .. spoken
    BY <1>1
  <2> QED
    BY <1>6, <1>9, <2>1, <2>2, <2>3 DEF AllWords
<1>22. EvidenceLater'
  BY <1>12 DEF AuthorizationInv, EvidenceLater
<1> QED
  BY <1>11, <1>14, <1>15, <1>19, <1>20, <1>21, <1>22 DEF AuthorizationInv

LEMMA RecordsIt == ASSUME AuthorizationInv, Records PROVE AuthorizationInv'
<1>1. /\ memory \in Memories /\ checkpoint \in Memories /\ journal \in Memories
  BY DEF AuthorizationInv, AuthorizationTypes
<1>2. journal' = memory /\ UNCHANGED <<memory, checkpoint, update, faults, spoken, merged, unsaved>>
  BY DEF Records
<1>3. AuthorizationTypes' /\ SourcesInOrder' /\ WordsInOrder'
  BY <1>2 DEF AuthorizationInv, AuthorizationTypes, SourcesInOrder, WordsInOrder
<1>4. Behind(checkpoint)' /\ UpdateFits' /\ AllWords' /\ EvidenceLater'
  BY <1>2 DEF AuthorizationInv, Behind, UpdateFits, AllWords, EvidenceLater, Kept
<1>5. JournalFits'
  <2>1. memory.rev \in Nat /\ memory.pending \in Seq(Sources) /\ checkpoint.rev \in Nat
        /\ checkpoint.pending \in Seq(Sources)
    BY <1>1 DEF Memories
  <2>2. Len(memory.pending) \in Nat /\ Len(checkpoint.pending) \in Nat
    BY <2>1
  <2>3. /\ checkpoint.rev <= memory.rev
        /\ Len(checkpoint.pending) = Len(memory.pending) - (memory.rev - checkpoint.rev)
        /\ \A i \in 1 .. Len(checkpoint.pending) : checkpoint.pending[i] = memory.pending[i]
    BY DEF AuthorizationInv, Behind
  <2>4. Behind(journal)'
    BY <1>2, <2>1, <2>2 DEF Behind
  <2>5. Len(checkpoint.pending) <= Len(memory.pending)
    BY <2>1, <2>2, <2>3
  <2>6. ASSUME memory.rev <= checkpoint.rev
        PROVE  WordsOf(memory.pending) \subseteq WordsOf(checkpoint.pending)
    <3>1. Len(memory.pending) = Len(checkpoint.pending)
      BY <2>1, <2>2, <2>3, <2>6
    <3>2. \A i \in 1 .. Len(memory.pending) : memory.pending[i] = checkpoint.pending[i]
      BY <2>3, <3>1
    <3>3. Len(memory.pending) <= Len(checkpoint.pending)
      BY <2>2, <3>1
    <3> QED
      BY <2>1, <3>2, <3>3, WordsOfPrefix
  <2>7. Kept(checkpoint)' = WordsOf(merged) \cup WordsOf(checkpoint.pending)
    BY <1>2 DEF Kept, WordsOf
  <2> QED
    BY <1>2, <2>1, <2>4, <2>5, <2>6, <2>7 DEF JournalFits
<1> QED
  BY <1>3, <1>4, <1>5 DEF AuthorizationInv

\* A note after a merge: what its entries were, and what stays of it.
LEMMA Retires ==
    ASSUME NEW entries \in SUBSET Entries, NEW gone \in SUBSET Nat, NEW source \in Sources
    PROVE  /\ Retired(entries, gone, source) \in SUBSET Entries
           /\ \A e \in entries :
                /\ e.id \notin gone => e \in Retired(entries, gone, source)
                /\ \E d \in Retired(entries, gone, source) : d.id = e.id /\ d.kind = e.kind
           /\ \A d \in Retired(entries, gone, source) : \E e \in entries :
                /\ d.id = e.id /\ d.kind = e.kind
                /\ e.id \notin gone => d = e
                /\ e.id \in gone => ~d.active /\ d.by = source.id
<1> DEFINE D(e) == IF e.id \in gone THEN [e EXCEPT !.active = FALSE, !.by = source.id] ELSE e
<1>1. Retired(entries, gone, source) = {D(e) : e \in entries}
  BY DEF Retired
<1>2. ASSUME NEW e \in entries
      PROVE  /\ D(e) \in Entries /\ D(e).id = e.id /\ D(e).kind = e.kind
             /\ e.id \notin gone => D(e) = e
             /\ e.id \in gone => ~D(e).active /\ D(e).by = source.id
  <2>1. e \in Entries
    OBVIOUS
  <2>2. CASE e.id \in gone
    <3>1. D(e) = [id |-> e.id, word |-> e.word, kind |-> e.kind, active |-> FALSE, by |-> source.id]
      BY <2>1, <2>2 DEF Entries
    <3>2. source.id \in Nat
      BY DEF Sources
    <3> QED
      BY <2>1, <2>2, <3>1, <3>2 DEF Entries
  <2>3. CASE e.id \notin gone
    BY <2>1, <2>3
  <2> QED
    BY <2>2, <2>3
<1> HIDE DEF D
<1> QED
  BY <1>1, <1>2

LEMMA NotesIt ==
    ASSUME NEW source \in Sources, NEW kinds \in SUBSET Kinds
    PROVE  /\ Noted(source, kinds) \in SUBSET Entries
           /\ \A e \in Noted(source, kinds) : e.active /\ e.id = source.id /\ e.kind \in kinds
           /\ \A k \in kinds : \E e \in Noted(source, kinds) : e.id = source.id /\ e.kind = k
<1> DEFINE M(k) == [id |-> source.id, word |-> source.word, kind |-> k, active |-> TRUE, by |-> 0]
<1>1. Noted(source, kinds) = {M(k) : k \in kinds}
  BY DEF Noted
<1>2. ASSUME NEW k \in kinds PROVE M(k) \in Entries /\ M(k).active /\ M(k).id = source.id /\ M(k).kind = k
  BY DEF Entries, Sources
<1> HIDE DEF M
<1> QED
  BY <1>1, <1>2

LEMMA Prunes ==
    ASSUME NEW all
    PROVE  /\ PrunedSources(all) = all \/ PrunedSources(all) = {e \in all : e.active}
           /\ PrunedSources(all) \subseteq all
           /\ \A e \in all : e.active => e \in PrunedSources(all)
  BY DEF PrunedSources

\* What EvidenceLater says of the memory's entries.
Evidenced(entries) ==
    \A e \in entries : ~e.active =>
        \E f \in entries : f.id = e.by /\ f.id > e.id
            /\ (e.kind # "grant" => f.kind # "restriction")

\* What a merge makes of the notes: later than none of the sources that wait, each that is
\* retired with its evidence, and none that is active gone but those the reply retires.
LEMMA MergeOfNotes ==
    ASSUME NEW entries \in SUBSET Entries, NEW gone \in SUBSET Nat, NEW source \in Sources,
           NEW kinds \in SUBSET Kinds, Holds(entries, gone, kinds),
           \A e \in entries : e.id < source.id,
           Evidenced(entries),
           NEW notes, notes = PrunedSources(Retired(entries, gone, source) \cup Noted(source, kinds))
    PROVE  /\ notes \in SUBSET Entries
           /\ \A e \in notes : e.id <= source.id
           /\ Evidenced(notes)
           /\ \A e \in entries : e.active /\ e.id \notin gone => e \in notes
<1>1. PICK old : old = Retired(entries, gone, source)
  OBVIOUS
<1>2. PICK added : added = Noted(source, kinds)
  OBVIOUS
<1>3. /\ old \in SUBSET Entries
      /\ \A e \in entries : e.id \notin gone => e \in old
      /\ \A e \in entries : \E d \in old : d.id = e.id /\ d.kind = e.kind
      /\ \A d \in old : \E e \in entries :
            /\ d.id = e.id /\ d.kind = e.kind
            /\ e.id \notin gone => d = e
            /\ e.id \in gone => ~d.active /\ d.by = source.id
  BY <1>1, Retires
<1>4. /\ added \in SUBSET Entries
      /\ \A e \in added : e.active /\ e.id = source.id /\ e.kind \in kinds
      /\ \A k \in kinds : \E e \in added : e.id = source.id /\ e.kind = k
  BY <1>2, NotesIt
<1>5. /\ notes = old \cup added \/ notes = {e \in old \cup added : e.active}
      /\ notes \subseteq old \cup added
      /\ \A e \in old \cup added : e.active => e \in notes
  BY <1>1, <1>2, Prunes
<1>6. source.id \in Nat /\ \A e \in entries : e.id \in Nat
  BY DEF Sources, Entries
<1>7. ASSUME NEW e \in notes PROVE e.id <= source.id
  <2>1. CASE e \in old
    BY <1>3, <1>6, <2>1
  <2>2. CASE e \in added
    BY <1>4, <1>6, <2>2
  <2> QED
    BY <1>5, <2>1, <2>2
<1>8. ASSUME NEW d \in notes, ~d.active
      PROVE  \E f \in notes : f.id = d.by /\ f.id > d.id
                 /\ (d.kind # "grant" => f.kind # "restriction")
  <2>1. notes = old \cup added /\ d \in old
    BY <1>4, <1>5, <1>8
  <2>2. PICK e \in entries : /\ d.id = e.id /\ d.kind = e.kind
                             /\ e.id \notin gone => d = e
                             /\ e.id \in gone => ~d.active /\ d.by = source.id
    BY <1>3, <2>1
  <2>3. CASE e.id \in gone
    <3>1. kinds # {} /\ (e.kind # "grant" => "restriction" \notin kinds)
      BY <2>3 DEF Holds
    <3>2. PICK k \in kinds : TRUE
      BY <3>1
    <3>3. PICK f \in added : f.id = source.id /\ f.kind = k
      BY <1>4
    <3>4. e.kind # "grant" => f.kind # "restriction"
      BY <3>1, <3>3
    <3>5. f.id > e.id
      BY <1>6, <3>3
    <3> QED
      BY <2>1, <2>2, <2>3, <3>3, <3>4, <3>5
  <2>4. CASE e.id \notin gone
    <3>1. d = e
      BY <2>2, <2>4
    <3>2. PICK g \in entries : g.id = e.by /\ g.id > e.id
                                 /\ (e.kind # "grant" => g.kind # "restriction")
      BY <1>8, <3>1 DEF Evidenced
    <3>3. PICK f \in old : f.id = g.id /\ f.kind = g.kind
      BY <1>3
    <3> QED
      BY <2>1, <3>1, <3>2, <3>3
  <2> QED
    BY <2>3, <2>4
<1>9. ASSUME NEW e \in entries, e.active, e.id \notin gone PROVE e \in notes
  BY <1>3, <1>5, <1>9
<1> QED
  BY <1>3, <1>4, <1>5, <1>7, <1>8, <1>9 DEF Evidenced

LEMMA MergeEvidence ==
    ASSUME NEW entries \in SUBSET Entries, NEW gone \in SUBSET Nat, NEW source \in Sources,
           NEW kinds \in SUBSET Kinds, Holds(entries, gone, kinds),
           \A e \in entries : e.id < source.id,
           Evidenced(entries)
    PROVE  Evidenced(PrunedSources(Retired(entries, gone, source) \cup Noted(source, kinds)))
  BY MergeOfNotes

LEMMA MergesThem == ASSUME AuthorizationInv, UpdateNotes
    PROVE  AuthorizationInv' /\ \A e \in memory.entries : e.active =>
               e \in memory'.entries \/ (merged' # merged /\ e.id \in Last(merged').gone)
<1>1. /\ memory \in Memories /\ checkpoint \in Memories /\ journal \in Memories
      /\ update \in [on : BOOLEAN, of : Memories, rev : Nat]
      /\ faults \in Nat /\ spoken \in Nat /\ unsaved \in SUBSET Nat
      /\ merged \in Seq([word : Nat, gone : SUBSET Nat])
  BY DEF AuthorizationInv, AuthorizationTypes
<1>2. /\ memory.rev \in Nat /\ memory.entries \in SUBSET Entries /\ memory.pending \in Seq(Sources)
      /\ update.of.pending \in Seq(Sources)
  BY <1>1 DEF Memories
<1>3. /\ update.on /\ update.of.entries = memory.entries
      /\ update.of.pending # <<>> /\ memory.pending # <<>>
      /\ Head(update.of.pending) = Head(memory.pending)
  BY DEF AuthorizationInv, UpdateFits, UpdateNotes
<1>4. PICK gone \in SUBSET Nat, kinds \in SUBSET Kinds : MergesNotes(gone, kinds)
  <2>1. \A e \in memory.entries : e.id \in Nat
    BY <1>2 DEF Entries
  <2>2. SUBSET {e.id : e \in update.of.entries} \subseteq SUBSET Nat
    BY <1>3, <2>1
  <2>3. {{}} \cup {{k} : k \in Kinds} \subseteq SUBSET Kinds
    OBVIOUS
  <2> QED
    BY <2>2, <2>3 DEF UpdateNotes
<1>5. PICK source : source = Head(update.of.pending)
  OBVIOUS
<1>6. PICK notes : notes = PrunedSources(Retired(memory.entries, gone, source) \cup Noted(source, kinds))
  OBVIOUS
<1>7. PICK rest : rest = Tail(memory.pending)
  OBVIOUS
<1>8. PICK merge : merge = [rev |-> memory.rev, entries |-> notes, pending |-> rest]
  OBVIOUS
<1>9. PICK taken : taken = [word |-> source.word, gone |-> gone]
  OBVIOUS
<1>10. /\ Holds(memory.entries, gone, kinds)
       /\ memory' = merge /\ checkpoint' = merge
       /\ merged' = Append(merged, taken)
       /\ \/ update' = NoUpdate
          \/ update' = [update EXCEPT !.of = merge] /\ merge.pending # <<>>
       /\ UNCHANGED <<journal, faults, spoken, unsaved>>
  BY <1>3, <1>4, <1>5, <1>6, <1>7, <1>8, <1>9 DEF MergesNotes
<1>11. PICK N \in Nat : N = Len(memory.pending)
  BY <1>2
<1>12. PICK old \in Seq(Sources) : old = memory.pending /\ old # <<>>
  BY <1>2, <1>3
<1>13. /\ rest \in Seq(Sources) /\ N > 0 /\ Len(rest) = N - 1
       /\ \A i \in 1 .. Len(rest) : rest[i] = old[i + 1]
       /\ WordsOf(old) = WordsOf(rest) \cup {old[1].word}
       /\ old[1] \in Sources
  <2>1. N > 0 /\ Len(old) = N /\ old[1] \in Sources
    <3>1. N # 0
      BY <1>11, <1>12, EmptySeq
    <3> QED
      BY <1>11, <1>12, <3>1
  <2>2. rest = Tail(old)
    BY <1>7, <1>12
  <2>3. rest \in Seq(Sources) /\ Len(rest) = N - 1
    BY <1>12, <2>1, <2>2, HeadTailProperties
  <2>4. \A i \in 1 .. Len(rest) : rest[i] = old[i + 1]
    BY <1>12, <2>1, <2>2, <2>3
  <2>5. WordsOf(old) = WordsOf(rest) \cup {old[1].word}
    BY <2>1, <2>3, <2>4, WordsOfTail
  <2> QED
    BY <2>1, <2>3, <2>4, <2>5
<1>14. source = old[1] /\ source \in Sources
  BY <1>3, <1>5, <1>12, <1>13
<1>15. /\ \A i \in 1 .. N : old[i].id = (memory.rev - N) + i
       /\ \A e \in memory.entries : e.id <= memory.rev - N
  BY <1>11, <1>12 DEF AuthorizationInv, SourcesInOrder
<1>16. source.id = (memory.rev - N) + 1
  BY <1>11, <1>13, <1>14, <1>15
<1>18. /\ notes \in SUBSET Entries
       /\ \A e \in notes : e.id <= source.id
       /\ Evidenced(notes)
       /\ \A e \in memory.entries : e.active /\ e.id \notin gone => e \in notes
  <2>1. \A e \in memory.entries : e.id < source.id
    <3>1. \A e \in memory.entries : e.id \in Nat
      BY <1>2 DEF Entries
    <3> QED
      BY <1>2, <1>11, <1>15, <1>16, <3>1
  <2>2. Evidenced(memory.entries)
    BY DEF AuthorizationInv, EvidenceLater, Evidenced
  <2>3. PICK entries \in SUBSET Entries : entries = memory.entries
    BY <1>2
  <2>4. notes = PrunedSources(Retired(entries, gone, source) \cup Noted(source, kinds))
    BY <1>6, <2>3
  <2>8. Holds(entries, gone, kinds)
    BY <1>10, <2>3
  <2>9. \A e \in entries : e.id < source.id
    BY <2>1, <2>3
  <2>5. Evidenced(entries)
    BY <2>2, <2>3
  <2>7. source \in Sources
    BY <1>14
  <2>6. /\ notes \in SUBSET Entries
        /\ \A e \in notes : e.id <= source.id
        /\ Evidenced(notes)
        /\ \A e \in entries : e.active /\ e.id \notin gone => e \in notes
    <3>1. Evidenced(notes)
      <4>1. Evidenced(PrunedSources(Retired(entries, gone, source) \cup Noted(source, kinds)))
        BY <2>5, <2>7, <2>8, <2>9, MergeEvidence
      <4> QED
        BY <2>4, <4>1
    <3>2. notes \in SUBSET Entries
      BY <2>4, <2>5, <2>7, <2>8, <2>9, MergeOfNotes
    <3>3. \A e \in notes : e.id <= source.id
      BY <2>4, <2>5, <2>7, <2>8, <2>9, MergeOfNotes
    <3>4. \A e \in entries : e.active /\ e.id \notin gone => e \in notes
      BY <2>4, <2>5, <2>7, <2>8, <2>9, MergeOfNotes
    <3> QED
      BY <3>1, <3>2, <3>3, <3>4
  <2> QED
    BY <2>3, <2>6
<1>19. merge \in Memories /\ merge.rev = memory.rev /\ merge.entries = notes /\ merge.pending = rest
  BY <1>2, <1>8, <1>13, <1>18 DEF Memories
<1>20. taken \in [word : Nat, gone : SUBSET Nat] /\ taken.word = source.word /\ taken.gone = gone
  BY <1>9, <1>14 DEF Sources
<1>21. PICK M \in Nat : M = Len(merged)
  BY <1>1
<1>22. /\ merged' \in Seq([word : Nat, gone : SUBSET Nat]) /\ Len(merged') = M + 1
       /\ merged'[M + 1] = taken /\ \A i \in 1 .. M : merged'[i] = merged[i]
  BY <1>1, <1>10, <1>20, <1>21, AppendProperties
<1>23. WordsOf(merged') = WordsOf(merged) \cup {source.word}
  <2>1. PICK later \in Seq([word : Nat, gone : SUBSET Nat]) : later = merged'
    BY <1>22
  <2>2. Len(later) = Len(merged) + 1 /\ \A i \in 1 .. Len(merged) : later[i] = merged[i]
    BY <1>21, <1>22, <2>1
  <2>3. WordsOf(later) = WordsOf(merged) \cup {later[Len(merged) + 1].word}
    BY <1>1, <2>2, WordsOfAppend
  <2> QED
    BY <1>20, <1>21, <1>22, <2>1, <2>3
<1>24. /\ memory'.rev = memory.rev /\ memory'.entries = notes /\ memory'.pending = rest
       /\ Len(memory'.pending) = N - 1
  BY <1>10, <1>13, <1>19
<1>25. AuthorizationTypes'
  <2>1. update' \in [on : BOOLEAN, of : Memories, rev : Nat]
    <3>1. NoMemory \in Memories
      <4>1. <<>> \in Seq(Sources)
        OBVIOUS
      <4> QED
        BY <4>1 DEF NoMemory, Memories
    <3>2. CASE update' = NoUpdate
      BY <3>1, <3>2 DEF NoUpdate
    <3>3. CASE update' = [update EXCEPT !.of = merge]
      BY <1>1, <1>19, <3>3
    <3> QED
      BY <1>10, <3>2, <3>3
  <2> QED
    BY <1>1, <1>10, <1>19, <1>22, <2>1 DEF AuthorizationTypes
<1>26. SourcesInOrder'
  <2>1. memory'.rev - Len(memory'.pending) = (memory.rev - N) + 1
    BY <1>2, <1>11, <1>24
  <2>2. ASSUME NEW i \in 1 .. Len(rest) PROVE rest[i].id = ((memory.rev - N) + 1) + i
    <3>1. i + 1 \in 1 .. N
      BY <1>11, <1>13
    <3>2. rest[i].id = (memory.rev - N) + (i + 1)
      BY <1>13, <1>15, <3>1
    <3>3. (memory.rev - N) + (i + 1) = ((memory.rev - N) + 1) + i
      <4>1. i \in Int /\ memory.rev \in Int /\ N \in Int
        BY <1>2, <1>11, <1>13
      <4> QED
        BY <4>1
    <3> QED
      BY <3>2, <3>3
  <2> QED
    BY <1>16, <1>18, <1>24, <2>1, <2>2 DEF SourcesInOrder
<1>27. WordsInOrder'
  <2>1. /\ \A i \in 1 .. N : old[i].word <= spoken /\ old[i].word \in Nat
        /\ \A i, j \in 1 .. N : i < j => old[i].word < old[j].word
        /\ \A k \in 1 .. M, i \in 1 .. N : merged[k].word < old[i].word
        /\ \A k \in 1 .. M : merged[k].word <= spoken
        /\ \A i, j \in 1 .. M : i < j => merged[i].word < merged[j].word
    <3>1. WordsInOrder
      BY DEF AuthorizationInv
    <3>2. DOMAIN merged = 1 .. M
      BY <1>1, <1>21
    <3>3. \A i \in 1 .. N : old[i] \in Sources
      BY <1>11, <1>12
    <3>4. \A i \in 1 .. N : old[i].word \in Nat
      BY <3>3 DEF Sources
    <3> QED
      BY <1>11, <1>12, <3>1, <3>2, <3>4 DEF WordsInOrder
  <2>2. DOMAIN merged' = 1 .. M + 1 /\ \A k \in 1 .. M + 1 : k = M + 1 \/ k \in 1 .. M
    BY <1>21, <1>22
  <2>3. 1 \in 1 .. N /\ source = old[1] /\ merged'[M + 1].word = source.word
    BY <1>11, <1>13, <1>14, <1>20, <1>22
  <2>4. ASSUME NEW i \in 1 .. Len(rest) PROVE i + 1 \in 1 .. N /\ 1 < i + 1 /\ rest[i] = old[i + 1]
    BY <1>11, <1>13
  <2>5. \A i \in 1 .. Len(rest) : rest[i].word <= spoken
    BY <2>1, <2>4
  <2>6. ASSUME NEW i \in 1 .. Len(rest), NEW j \in 1 .. Len(rest), i < j
        PROVE  rest[i].word < rest[j].word
    <3>1. i + 1 < j + 1
      BY <1>13, <2>6
    <3> QED
      BY <2>1, <2>4, <3>1
  <2>7. ASSUME NEW k \in 1 .. M + 1
        PROVE  merged'[k].word <= spoken /\ \A i \in 1 .. Len(rest) : merged'[k].word < rest[i].word
    <3>1. CASE k = M + 1
      BY <2>1, <2>3, <2>4, <3>1
    <3>2. CASE k \in 1 .. M
      BY <1>22, <2>1, <2>4, <3>2
    <3> QED
      BY <2>2, <3>1, <3>2
  <2>8. ASSUME NEW i \in 1 .. M + 1, NEW j \in 1 .. M + 1, i < j PROVE merged'[i].word < merged'[j].word
    <3>1. i \in 1 .. M
      BY <1>21, <2>8
    <3>2. CASE j = M + 1
      BY <1>22, <2>1, <2>3, <3>1, <3>2
    <3>3. CASE j \in 1 .. M
      BY <1>22, <2>1, <2>8, <3>1, <3>3
    <3> QED
      BY <2>2, <3>2, <3>3
  <2> QED
    BY <1>10, <1>24, <2>2, <2>5, <2>6, <2>7, <2>8 DEF WordsInOrder
<1>28. Behind(checkpoint)'
  <2>1. checkpoint' = memory' /\ memory'.rev \in Nat /\ Len(memory'.pending) \in Nat
    BY <1>2, <1>10, <1>13, <1>24
  <2> QED
    BY <2>1 DEF Behind
<1>29. Kept(memory)' = Kept(memory) /\ Kept(checkpoint)' = Kept(memory)
  <2>1. Kept(memory) = WordsOf(merged) \cup WordsOf(old)
    BY <1>12, KeptWords
  <2>2. Kept(memory)' = WordsOf(merged') \cup WordsOf(rest) /\ Kept(checkpoint)' = Kept(memory)'
    BY <1>10, <1>24 DEF Kept, WordsOf
  <2> QED
    BY <1>13, <1>14, <1>23, <2>1, <2>2
<1>30. JournalFits'
  <2>1. /\ journal.rev \in Nat /\ journal.rev <= memory.rev /\ checkpoint.rev \in Nat
        /\ checkpoint.rev <= memory.rev /\ Len(journal.pending) \in Nat /\ Len(checkpoint.pending) \in Nat
    BY <1>1 DEF AuthorizationInv, JournalFits, Behind, Memories
  <2>2. WordsOf(journal.pending) \subseteq Kept(memory) \cup unsaved
    <3>1. CASE checkpoint.rev < journal.rev
      BY <1>1, <3>1, BehindKnows, KeptWords DEF AuthorizationInv, JournalFits
    <3>2. CASE journal.rev <= checkpoint.rev
      <4>1. WordsOf(journal.pending) \subseteq Kept(checkpoint) \cup unsaved
        BY <3>2 DEF AuthorizationInv, JournalFits
      <4>2. WordsOf(checkpoint.pending) \subseteq WordsOf(memory.pending)
        BY <1>1, BehindKnows DEF AuthorizationInv
      <4>3. /\ Kept(checkpoint) = WordsOf(merged) \cup WordsOf(checkpoint.pending)
            /\ Kept(memory) = WordsOf(merged) \cup WordsOf(memory.pending)
        BY KeptWords
      <4> QED
        BY <4>1, <4>2, <4>3
    <3> QED
      BY <2>1, <3>1, <3>2
  <2>3. ASSUME journal.rev = memory.rev PROVE N - 1 <= Len(journal.pending)
    <3>1. CASE checkpoint.rev < journal.rev
      <4>1. Len(journal.pending) = Len(memory.pending) - (memory.rev - journal.rev)
        BY <3>1 DEF AuthorizationInv, JournalFits, Behind
      <4> QED
        BY <1>2, <1>11, <2>1, <2>3, <4>1
    <3>2. CASE checkpoint.rev = journal.rev
      <4>1. /\ Len(checkpoint.pending) = Len(memory.pending) - (memory.rev - checkpoint.rev)
            /\ Len(checkpoint.pending) <= Len(journal.pending)
        BY <3>2 DEF AuthorizationInv, JournalFits, Behind
      <4> QED
        BY <1>2, <1>11, <2>1, <2>3, <3>2, <4>1
    <3> QED
      BY <2>1, <2>3, <3>1, <3>2
  <2>4. checkpoint'.rev = memory.rev /\ Len(checkpoint'.pending) = N - 1
    BY <1>10, <1>13, <1>19
  <2> QED
    BY <1>2, <1>10, <1>24, <1>29, <2>1, <2>2, <2>3, <2>4 DEF JournalFits
<1>31. UpdateFits'
  <2>1. CASE update' = NoUpdate
    BY <2>1 DEF UpdateFits, NoUpdate
  <2>2. CASE update' = [update EXCEPT !.of = merge] /\ merge.pending # <<>>
    BY <1>1, <1>3, <1>10, <2>2 DEF UpdateFits
  <2> QED
    BY <1>10, <2>1, <2>2
<1>32. AllWords'
  BY <1>10, <1>29 DEF AuthorizationInv, AllWords
<1>33. EvidenceLater'
  BY <1>18, <1>24 DEF EvidenceLater, Evidenced
<1>34. ASSUME NEW e \in memory.entries, e.active, e \notin memory'.entries
       PROVE  merged' # merged /\ e.id \in Last(merged').gone
  <2>1. e.id \in gone
    BY <1>18, <1>24, <1>34
  <2>2. merged' # merged
    BY <1>21, <1>22
  <2>3. Last(merged') = merged'[M + 1]
    BY <1>22 DEF Last
  <2> QED
    BY <1>20, <1>22, <2>1, <2>2, <2>3
<1> QED
  BY <1>25, <1>26, <1>27, <1>28, <1>30, <1>31, <1>32, <1>33, <1>34 DEF AuthorizationInv

LEMMA RestartsIt == ASSUME AuthorizationInv, Restart
    PROVE  AuthorizationInv' /\ memory'.entries = memory.entries
<1>1. /\ memory \in Memories /\ checkpoint \in Memories /\ journal \in Memories
      /\ update \in [on : BOOLEAN, of : Memories, rev : Nat]
      /\ faults \in Nat /\ spoken \in Nat /\ unsaved \in SUBSET Nat
      /\ merged \in Seq([word : Nat, gone : SUBSET Nat])
  BY DEF AuthorizationInv, AuthorizationTypes
<1>2. PICK kept : kept = Restored
  OBVIOUS
<1>3. PICK lost : lost = (Kept(memory) \ Kept(checkpoint)) \ Kept(journal)
  OBVIOUS
<1>4. /\ memory' = kept /\ checkpoint' = kept /\ update' = NoUpdate
      /\ unsaved' = unsaved \cup lost /\ faults' = faults + 1
      /\ journal' = journal /\ spoken' = spoken /\ merged' = merged
  BY <1>2, <1>3 DEF Restart
<1>5. /\ journal.rev \in Nat /\ checkpoint.rev \in Nat /\ memory.rev \in Nat
      /\ Len(journal.pending) \in Nat /\ Len(checkpoint.pending) \in Nat
      /\ memory.pending \in Seq(Sources)
  BY <1>1 DEF Memories
<1>6. \/ kept = journal /\ checkpoint.rev < journal.rev
      \/ kept = checkpoint /\ journal.rev <= checkpoint.rev
  <2>1. checkpoint.rev = journal.rev => Len(checkpoint.pending) <= Len(journal.pending)
    BY DEF AuthorizationInv, JournalFits
  <2> QED
    BY <1>2, <1>5, <2>1 DEF Restored
<1>7. kept \in Memories /\ Behind(kept)
  BY <1>1, <1>6 DEF AuthorizationInv, JournalFits
<1>8. /\ kept.rev \in Nat /\ kept.pending \in Seq(Sources) /\ kept.rev <= memory.rev
      /\ kept.entries = memory.entries
      /\ \A i \in 1 .. Len(kept.pending) : kept.pending[i] = memory.pending[i]
  BY <1>7 DEF Behind, Memories
<1>9. /\ kept.rev - Len(kept.pending) = memory.rev - Len(memory.pending)
      /\ Len(kept.pending) <= Len(memory.pending)
      /\ WordsOf(kept.pending) \subseteq WordsOf(memory.pending)
  BY <1>1, <1>7, BehindKnows
<1>10. Len(kept.pending) \in Nat /\ Len(memory.pending) \in Nat
  BY <1>5, <1>8
<1>11. \A i \in 1 .. Len(kept.pending) : i \in 1 .. Len(memory.pending)
  BY <1>9, <1>10
<1>12. AuthorizationTypes'
  <2>1. lost \in SUBSET Nat
    <3>1. DOMAIN merged = 1 .. Len(merged) /\ \A k \in DOMAIN merged : merged[k].word \in Nat
      BY <1>1, NotesTyped
    <3>2. \A i \in 1 .. Len(memory.pending) : memory.pending[i] \in Sources
      BY <1>5
    <3>3. \A i \in DOMAIN memory.pending : memory.pending[i].word \in Nat
      <4>1. DOMAIN memory.pending = 1 .. Len(memory.pending)
        BY <1>5
      <4> QED
        BY <3>2, <4>1 DEF Sources
    <3>4. \A w \in WordsOf(merged) \cup WordsOf(memory.pending) : w \in Nat
      BY <3>1, <3>3, WordsOfHas
    <3> QED
      BY <1>3, <3>4, KeptWords
  <2>2. NoUpdate \in [on : BOOLEAN, of : Memories, rev : Nat]
    <3>1. <<>> \in Seq(Sources)
      OBVIOUS
    <3>2. NoMemory \in Memories
      BY <3>1 DEF NoMemory, Memories
    <3> QED
      BY <3>2 DEF NoUpdate
  <2>3. faults' \in Nat /\ unsaved' \in SUBSET Nat
    BY <1>1, <1>4, <2>1
  <2> QED
    BY <1>1, <1>4, <1>7, <2>2, <2>3 DEF AuthorizationTypes
<1>13. SourcesInOrder'
  <2>1. SourcesInOrder
    BY DEF AuthorizationInv
  <2> QED
    BY <1>4, <1>8, <1>9, <1>11, <2>1 DEF SourcesInOrder
<1>14. WordsInOrder'
  <2>1. WordsInOrder
    BY DEF AuthorizationInv
  <2> QED
    BY <1>4, <1>8, <1>11, <2>1 DEF WordsInOrder
<1>15. Behind(checkpoint)'
  BY <1>4, <1>8, <1>10 DEF Behind
<1>16. Kept(kept) \subseteq Kept(memory)
  BY <1>9, KeptWords
<1>17. WordsOf(journal.pending) \subseteq Kept(kept) \cup unsaved
  BY <1>6, KeptWords DEF AuthorizationInv, JournalFits
<1>18. Kept(checkpoint)' = Kept(kept) /\ Kept(memory)' = Kept(kept)
  BY <1>4 DEF Kept
<1>19. JournalFits'
  <2>1. /\ journal.rev <= kept.rev
        /\ kept.rev = journal.rev => Len(kept.pending) <= Len(journal.pending)
    <3>1. checkpoint.rev = journal.rev => Len(checkpoint.pending) <= Len(journal.pending)
      BY DEF AuthorizationInv, JournalFits
    <3> QED
      BY <1>5, <1>6, <3>1
  <2> QED
    BY <1>4, <1>5, <1>8, <1>17, <1>18, <2>1 DEF JournalFits
<1>20. UpdateFits'
  BY <1>4 DEF UpdateFits, NoUpdate
<1>21. AllWords'
  <2>1. Kept(checkpoint) \subseteq Kept(kept)
    <3>1. CASE kept = journal /\ checkpoint.rev < journal.rev
      <4>1. /\ Behind(checkpoint) /\ Behind(journal)
        BY <3>1 DEF AuthorizationInv, JournalFits
      <4>2. /\ Len(checkpoint.pending) = Len(memory.pending) - (memory.rev - checkpoint.rev)
            /\ Len(journal.pending) = Len(memory.pending) - (memory.rev - journal.rev)
            /\ \A i \in 1 .. Len(checkpoint.pending) : checkpoint.pending[i] = memory.pending[i]
            /\ \A i \in 1 .. Len(journal.pending) : journal.pending[i] = memory.pending[i]
        BY <4>1 DEF Behind
      <4>3. Len(checkpoint.pending) <= Len(journal.pending)
        BY <1>5, <1>10, <3>1, <4>2
      <4>4. \A i \in 1 .. Len(checkpoint.pending) : checkpoint.pending[i] = journal.pending[i]
        BY <1>5, <4>2, <4>3
      <4>5. checkpoint.pending \in Seq(Sources) /\ journal.pending \in Seq(Sources)
        BY <1>1 DEF Memories
      <4>6. WordsOf(checkpoint.pending) \subseteq WordsOf(journal.pending)
        BY <4>3, <4>4, <4>5, WordsOfPrefix
      <4> QED
        BY <3>1, <4>6, KeptWords
    <3>2. CASE kept = checkpoint
      BY <3>2
    <3> QED
      BY <1>6, <3>1, <3>2
  <2>2. Kept(journal) \subseteq Kept(kept) \cup unsaved
    <3>1. WordsOf(merged) \subseteq Kept(kept)
      BY KeptWords
    <3>2. Kept(journal) = WordsOf(merged) \cup WordsOf(journal.pending)
      BY KeptWords
    <3> QED
      BY <1>17, <3>1, <3>2
  <2>3. \A w \in 1 .. spoken : w \in Kept(memory) \cup unsaved
    BY DEF AuthorizationInv, AllWords
  <2>4. \A w \in 1 .. spoken : w \in Kept(kept) \cup (unsaved \cup lost)
    BY <1>3, <2>1, <2>2, <2>3
  <2> QED
    BY <1>4, <1>18, <2>4 DEF AllWords
<1>22. EvidenceLater'
  BY <1>4, <1>8 DEF AuthorizationInv, EvidenceLater
<1> QED
  BY <1>4, <1>8, <1>12, <1>13, <1>14, <1>15, <1>19, <1>20, <1>21, <1>22 DEF AuthorizationInv

\* What a step may do to the notes that are active.
ActiveStays ==
    \A e \in memory.entries : e.active =>
        e \in memory'.entries \/ (merged' # merged /\ e.id \in Last(merged').gone)

LEMMA AuthorizationStep == ASSUME AuthorizationInv, [AuthorizationNext]_authorizationVars
    PROVE  AuthorizationInv' /\ ActiveStays
<1>1. CASE StartUserTurn
  <2>1. memory'.entries = memory.entries
    <3>1. memory \in Memories
      BY DEF AuthorizationInv, AuthorizationTypes
    <3> QED
      BY <1>1, <3>1 DEF StartUserTurn, Queued, Memories
  <2> QED
    BY <1>1, <2>1, StartsTurn DEF ActiveStays
<1>2. CASE Records
  BY <1>2, RecordsIt DEF Records, ActiveStays
<1>3. CASE UpdateNotes
  BY <1>3, MergesThem DEF ActiveStays
<1>4. CASE Restart
  BY <1>4, RestartsIt DEF ActiveStays
<1>5. CASE StartUpdate
  <2>1. UpdateFits' /\ update' \in [on : BOOLEAN, of : Memories, rev : Nat] /\ faults' \in Nat
    BY <1>5 DEF StartUpdate, UpdateFits, AuthorizationInv, AuthorizationTypes, Memories
  <2> QED
    BY <1>5, <2>1, AuthorizationRests DEF StartUpdate, ActiveStays
<1>6. CASE UpdateFails \/ UpdateDropped
  <2>1. update' = NoUpdate /\ UNCHANGED <<memory, checkpoint, journal, spoken, merged, unsaved>>
    BY <1>6 DEF UpdateFails, UpdateDropped
  <2>2. faults' \in Nat
    BY <1>6 DEF UpdateFails, UpdateDropped, AuthorizationInv, AuthorizationTypes
  <2>3. UpdateFits'
    BY <2>1 DEF UpdateFits, NoUpdate
  <2>4. update' \in [on : BOOLEAN, of : Memories, rev : Nat]
    <3>1. <<>> \in Seq(Sources)
      OBVIOUS
    <3>2. NoMemory \in Memories
      BY <3>1 DEF NoMemory, Memories
    <3> QED
      BY <2>1, <3>2 DEF NoUpdate
  <2> QED
    BY <2>1, <2>2, <2>3, <2>4, AuthorizationRests DEF ActiveStays
<1>7. CASE UNCHANGED authorizationVars
  <2>1. UpdateFits' /\ update' \in [on : BOOLEAN, of : Memories, rev : Nat] /\ faults' \in Nat
    BY <1>7 DEF authorizationVars, UpdateFits, AuthorizationInv, AuthorizationTypes
  <2> QED
    BY <1>7, <2>1, AuthorizationRests DEF authorizationVars, ActiveStays
<1> QED
  BY <1>1, <1>2, <1>3, <1>4, <1>5, <1>6, <1>7 DEF AuthorizationNext

(***************************************************************************)
(* Each message of the user is noted once, in the order sent, or waits, or *)
(* was never on a disk; what is retired is so on a later message that is   *)
(* kept with it; and an active note goes only on a message that retires    *)
(* it, whatever fails and whenever bhai dies (authorization.rs merged,     *)
(* checkpoint).                                                            *)
(***************************************************************************)
THEOREM AuthorizationIsKept == AuthorizationSpec => AuthorizationKept
<1>1. AuthorizationInit => AuthorizationInv
  BY AuthorizationStarts
<1>2. AuthorizationInv /\ [AuthorizationNext]_authorizationVars => AuthorizationInv'
  BY AuthorizationStep
<1>3. AuthorizationInv => WordsKept /\ EvidenceLater
  <2>1. ASSUME AuthorizationInv, NEW s \in ToSet(memory.pending), NEW m \in ToSet(merged)
        PROVE  m.word # s.word
    <3>1. /\ memory.pending \in Seq(Sources) /\ DOMAIN memory.pending = 1 .. Len(memory.pending)
          /\ merged \in Seq([word : Nat, gone : SUBSET Nat])
      BY <2>1 DEF AuthorizationInv, AuthorizationTypes, Memories
    <3>2. PICK i \in DOMAIN memory.pending : s = memory.pending[i]
      BY DEF ToSet
    <3>3. PICK k \in DOMAIN merged : m = merged[k]
      BY DEF ToSet
    <3>4. merged[k].word < memory.pending[i].word
      BY <2>1, <3>1, <3>2, <3>3 DEF AuthorizationInv, WordsInOrder
    <3>5. merged[k].word \in Nat
      BY <3>1, NotesTyped
    <3>6. memory.pending[i] \in Sources
      BY <3>1
    <3> QED
      BY <3>2, <3>3, <3>4, <3>5, <3>6 DEF Sources
  <2> QED
    BY <2>1 DEF AuthorizationInv, AllWords, WordsInOrder, WordsKept
<1>4. AuthorizationInv /\ [AuthorizationNext]_authorizationVars =>
        [\A e \in memory.entries : e.active =>
             \/ e \in memory'.entries
             \/ merged' # merged /\ e.id \in Last(merged').gone]_authorizationVars
  BY AuthorizationStep DEF ActiveStays
<1> QED
  BY <1>1, <1>2, <1>3, <1>4, PTL DEF AuthorizationSpec, AuthorizationKept, ActiveKept
================================================================================
