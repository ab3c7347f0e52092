----------------------------- MODULE ServeProofs -----------------------------
(***************************************************************************)
(* What is relied on from outside a process: a daemon has one process to a *)
(* session and loses none, and a mirror agrees with the session it         *)
(* follows.                                                                *)
(***************************************************************************)
EXTENDS Attach, Daemon, Induction, SequenceTheorems, TLAPS

-----------------------------------------------------------------------------
(* The daemon.  Whoever waits for a process to come up holds the lock, and *)
(* its session is not on the roll; no session is on the roll twice.        *)

Sessions == SavedIds \cup {FreshIds[n] : n \in 1 .. MaxStarts}
Process == [id : Sessions, at : {"starting", "serving", "ended", "reaped"},
            said : BOOLEAN, told : BOOLEAN]
Opening == [at : {"idle", "asks", "waits"}, id : Sessions \cup {"new"}, proc : Nat]
DaemonTypes ==
    /\ served \in Seq(Process) /\ Len(served) <= MaxStarts
    /\ roll \subseteq 1 .. Len(served)
    /\ opens \in [Askers -> Opening]
OpenedApart ==
    \A a \in Askers : opens[a].at = "waits" =>
        /\ opening = a
        /\ opens[a].proc \in (1 .. Len(served)) \ roll
        /\ ~Listed(served[opens[a].proc].id)
RollApart == \A p, q \in roll : p # q => served[p].id # served[q].id
DaemonInv == DaemonTypes /\ OpenedApart /\ RollApart /\ NoneStrays

\* The lock holds one asker, so its process and those on the roll are all that are up.
LEMMA OneIsUp == DaemonInv => OneProcess
<1> SUFFICES ASSUME DaemonInv, NEW p \in DOMAIN served, NEW q \in DOMAIN served,
                    p # q, Ups(p), Ups(q)
             PROVE  served[p].id # served[q].id
  BY DEF OneProcess
<1>1. \A x \in {p, q} : x \in roll \/ \E a \in Askers : opens[a].at = "waits" /\ opens[a].proc = x
  BY DEF DaemonInv, NoneStrays
<1> QED
  BY <1>1 DEF DaemonInv, OpenedApart, RollApart, Listed

LEMMA InitDaemon == DaemonInit => DaemonInv
<1> SUFFICES ASSUME DaemonInit PROVE DaemonInv
  OBVIOUS
<1>1. served = <<>> /\ Len(served) = 0 /\ roll = {} /\ \A a \in Askers : opens[a] = NoOpen
  BY DEF DaemonInit
<1>2. NoOpen \in Opening /\ NoOpen.at = "idle"
  BY DEF NoOpen, Opening
<1>3. opens \in [Askers -> Opening]
  BY <1>1, <1>2 DEF DaemonInit
<1>4. DaemonTypes
  BY <1>1, <1>3, DaemonAssumption DEF DaemonTypes
<1> QED
  BY <1>1, <1>2, <1>4 DEF DaemonInv, OpenedApart, RollApart, NoneStrays

\* A process moves on: who is on the roll, and who waits for whom, stays as it is.
LEMMA ProcessMoves ==
    ASSUME DaemonInv, UNCHANGED <<roll, opens, opening, standing>>,
           served' \in Seq(Process), Len(served') = Len(served),
           \A p \in 1 .. Len(served) :
              served'[p].id = served[p].id /\ (Ups(p)' => Ups(p))
    PROVE  DaemonInv'
<1>1. DOMAIN served = 1 .. Len(served) /\ DOMAIN served' = 1 .. Len(served)
  BY DEF DaemonInv, DaemonTypes
<1>2. DaemonTypes'
  BY DEF DaemonInv, DaemonTypes
<1>3. roll \subseteq 1 .. Len(served)
  BY DEF DaemonInv, DaemonTypes
<1>4. OpenedApart'
  BY <1>3 DEF DaemonInv, OpenedApart, Listed
<1>5. RollApart'
  BY <1>3 DEF DaemonInv, RollApart
<1>6. NoneStrays'
  BY <1>1 DEF DaemonInv, NoneStrays
<1> QED
  BY <1>2, <1>4, <1>5, <1>6 DEF DaemonInv

\* A request comes, or is done with: who does not wait for a process says nothing of one.
LEMMA RequestMoves ==
    ASSUME DaemonInv, UNCHANGED <<served, roll>>, opens' \in [Askers -> Opening],
           standing' = standing,
           \A a \in Askers : opens'[a].at = "waits" => opens'[a] = opens[a] /\ opening' = opening,
           \A a \in Askers : opens[a].at = "waits" =>
              opens'[a] = opens[a] \/ ~Ups(opens[a].proc)
    PROVE  DaemonInv'
<1>1. DaemonTypes'
  BY DEF DaemonInv, DaemonTypes
<1>2. OpenedApart' /\ RollApart'
  BY DEF DaemonInv, OpenedApart, RollApart, Listed
<1>3. NoneStrays'
  BY DEF DaemonInv, NoneStrays, Ups
<1> QED
  BY <1>1, <1>2, <1>3 DEF DaemonInv

LEMMA AsksOpenKeeps == DaemonInv /\ (\E a \in Askers : AsksOpen(a)) => DaemonInv'
<1> SUFFICES ASSUME DaemonInv, NEW a \in Askers, AsksOpen(a) PROVE DaemonInv'
  OBVIOUS
<1>1. PICK id \in Known \cup {"new"} : opens' = [opens EXCEPT ![a] = [NoOpen EXCEPT !.at = "asks", !.id = id]]
  BY DEF AsksOpen
<1>2. id \in Sessions \cup {"new"}
  <2>1. \A p \in DOMAIN served : served[p].id \in Sessions
    <3> TAKE p \in DOMAIN served
    <3>1. served[p] \in Process
      BY DEF DaemonInv, DaemonTypes
    <3> QED
      BY <3>1 DEF Process
  <2> QED
    BY <2>1 DEF Known, Sessions
<1>3. [NoOpen EXCEPT !.at = "asks", !.id = id] \in Opening
  BY <1>2 DEF NoOpen, Opening
<1>4. opens' \in [Askers -> Opening] /\ opens'[a].at = "asks" /\ \A b \in Askers \ {a} : opens'[b] = opens[b]
  BY <1>1, <1>3 DEF DaemonInv, DaemonTypes, NoOpen
<1>5. opens[a].at = "idle" /\ UNCHANGED <<served, roll, opening, standing>>
  BY DEF AsksOpen
<1> QED
  BY <1>4, <1>5, RequestMoves

LEMMA SpawnsKeeps == DaemonInv /\ standing # "gone" /\ (\E a \in Askers : Spawns(a)) => DaemonInv'
<1> SUFFICES ASSUME DaemonInv, standing # "gone", NEW a \in Askers, Spawns(a) PROVE DaemonInv'
  OBVIOUS
<1>1. PICK id : id = IF opens[a].id = "new" THEN FreshIds[Len(served) + 1] ELSE opens[a].id
  OBVIOUS
<1>2. /\ opens[a].at = "asks" /\ opening = "free" /\ Len(served) < MaxStarts
      /\ IF Listed(id) THEN /\ opens' = [opens EXCEPT ![a] = NoOpen]
                            /\ UNCHANGED <<opening, served>>
         ELSE /\ served' = Append(served, Spawned(a, id))
              /\ opens' = [opens EXCEPT ![a].at = "waits", ![a].proc = Len(served) + 1]
              /\ opening' = a
      /\ UNCHANGED <<roll, stops, standing>>
  BY <1>1 DEF Spawns
<1>3. opens \in [Askers -> Opening] /\ opens[a] \in Opening
  BY DEF DaemonInv, DaemonTypes
<1>4. CASE Listed(id)
  <2>1. NoOpen \in Opening /\ NoOpen.at = "idle"
    BY DEF NoOpen, Opening
  <2>2. opens' \in [Askers -> Opening] /\ opens'[a].at = "idle" /\ \A b \in Askers \ {a} : opens'[b] = opens[b]
    BY <1>2, <1>3, <1>4, <2>1
  <2>3. UNCHANGED <<served, roll, opening, standing>>
    BY <1>2, <1>4
  <2> QED
    BY <1>2, <2>2, <2>3, RequestMoves
<1>5. CASE ~Listed(id)
  <2>1. PICK n \in Nat : n = Len(served) /\ n + 1 \in 1 .. MaxStarts
    BY <1>2, DaemonAssumption DEF DaemonInv, DaemonTypes
  <2>2. id \in Sessions
    BY <1>1, <1>3, <2>1 DEF Sessions, Opening
  <2>3. PICK new \in Process : served' = Append(served, new) /\ new.id = id /\ new.at = "starting"
    <3>1. Spawned(a, id) \in Process /\ Spawned(a, id).id = id /\ Spawned(a, id).at = "starting"
      BY <2>2 DEF Spawned, Process
    <3>2. served' = Append(served, Spawned(a, id))
      BY <1>2, <1>5
    <3> QED
      BY <3>1, <3>2
  <2>4. /\ served' \in Seq(Process) /\ Len(served') = n + 1 /\ served'[n + 1] = new
        /\ \A p \in 1 .. n : served'[p] = served[p]
    BY <2>1, <2>3 DEF DaemonInv, DaemonTypes
  <2>5. /\ opens' \in [Askers -> Opening] /\ opens'[a].at = "waits" /\ opens'[a].proc = n + 1
        /\ \A b \in Askers \ {a} : opens'[b] = opens[b]
    <3>1. PICK old \in Opening : old = opens[a]
      BY <1>3
    <3>2. PICK opened : opened = [[old EXCEPT !.at = "waits"] EXCEPT !.proc = n + 1]
      OBVIOUS
    <3>3. opened \in Opening /\ opened.at = "waits" /\ opened.proc = n + 1
      <4>1. PICK mid : mid = [old EXCEPT !.at = "waits"]
        OBVIOUS
      <4>2. mid \in Opening /\ mid.at = "waits"
        BY <4>1 DEF Opening
      <4>3. n + 1 \in Nat
        BY <2>1
      <4> QED
        BY <3>2, <4>1, <4>2, <4>3 DEF Opening
    <3>4. opens' = [opens EXCEPT ![a] = opened]
      BY <1>2, <1>3, <1>5, <2>1, <3>1, <3>2
    <3> QED
      BY <1>3, <3>3, <3>4
  <2>6. \A b \in Askers : opens[b].at # "waits"
    BY <1>2, DaemonAssumption DEF DaemonInv, OpenedApart
  <2>7. roll \subseteq 1 .. n /\ roll' = roll
    BY <1>2, <2>1 DEF DaemonInv, DaemonTypes
  <2>8. DaemonTypes'
    BY <2>1, <2>4, <2>5, <2>7 DEF DaemonTypes
  <2>9. OpenedApart'
    <3>1. opening' = a
      BY <1>2, <1>5
    <3>2. ~Listed(id)'
      BY <1>5, <2>4, <2>7 DEF Listed
    <3> QED
      BY <2>1, <2>3, <2>4, <2>5, <2>6, <2>7, <3>1, <3>2 DEF OpenedApart, Listed
  <2>10. RollApart'
    BY <2>4, <2>7 DEF DaemonInv, RollApart
  <2>11. NoneStrays'
    <3>1. DOMAIN served = 1 .. n /\ DOMAIN served' = 1 .. n + 1 /\ standing' = standing
      BY <1>2, <2>1, <2>4 DEF DaemonInv, DaemonTypes
    <3>2. \A p \in 1 .. n + 1 : p \in 1 .. n \/ p = n + 1
      BY <2>1
    <3> QED
      BY <2>4, <2>5, <2>6, <2>7, <3>1, <3>2 DEF DaemonInv, NoneStrays, Ups
  <2> QED
    BY <2>8, <2>9, <2>10, <2>11 DEF DaemonInv
<1> QED
  BY <1>4, <1>5

LEMMA ProcessSteps ==
    ASSUME DaemonInv, NEW p \in DOMAIN served, Serves(p) \/ ProcEnds(p) \/ Reaps(p)
    PROVE  DaemonInv'
<1>1. served \in Seq(Process) /\ p \in 1 .. Len(served) /\ served[p] \in Process
  BY DEF DaemonInv, DaemonTypes
<1>2. PICK new \in Process : /\ served' = [served EXCEPT ![p] = new] /\ new.id = served[p].id
                             /\ new.at \in {"starting", "serving"} => Ups(p)
  <2>1. CASE Serves(p)
    <3>1. served' = [served EXCEPT ![p] = [served[p] EXCEPT !.at = "serving", !.said = TRUE]]
      BY <1>1, <2>1 DEF Serves
    <3>2. [served[p] EXCEPT !.at = "serving", !.said = TRUE] \in Process
      BY <1>1 DEF Process
    <3> QED
      BY <1>1, <2>1, <3>1, <3>2 DEF Serves, Ups, Process
  <2>2. ASSUME NEW at \in {"ended", "reaped"}, served' = [served EXCEPT ![p].at = at]
        PROVE  \E new \in Process : /\ served' = [served EXCEPT ![p] = new] /\ new.id = served[p].id
                                    /\ new.at \in {"starting", "serving"} => Ups(p)
    <3>1. served' = [served EXCEPT ![p] = [served[p] EXCEPT !.at = at]]
      BY <1>1, <2>2
    <3>2. [served[p] EXCEPT !.at = at] \in Process
      BY <1>1 DEF Process
    <3> QED
      BY <1>1, <3>1, <3>2 DEF Process
  <2> QED
    BY <2>1, <2>2 DEF ProcEnds, Reaps
<1>3. /\ served' \in Seq(Process) /\ Len(served') = Len(served)
      /\ \A q \in 1 .. Len(served) : served'[q] = IF q = p THEN new ELSE served[q]
  BY <1>1, <1>2
<1>4. UNCHANGED <<roll, opens, opening, standing>>
  BY DEF Serves, ProcEnds, Reaps
<1>5. \A q \in 1 .. Len(served) : served'[q].id = served[q].id /\ (Ups(q)' => Ups(q))
  BY <1>2, <1>3 DEF Ups
<1> QED
  BY <1>3, <1>4, <1>5, ProcessMoves

\* Whoever waited for a process is done, and the lock is free: the process is on the roll,
\* or is up no more.
LEMMA WaitEnds ==
    ASSUME DaemonInv, NEW a \in Askers, opens[a].at = "waits",
           opens' = [opens EXCEPT ![a] = NoOpen], opening' = "free",
           standing # "gone", UNCHANGED standing,
           \/ UNCHANGED served /\ roll' = roll \cup {opens[a].proc}
           \/ UNCHANGED roll /\ served' = [served EXCEPT ![opens[a].proc].at = "reaped"]
    PROVE  DaemonInv'
<1>1. PICK p \in 1 .. Len(served) : p = opens[a].proc /\ p \notin roll /\ ~Listed(served[p].id)
  BY DEF DaemonInv, OpenedApart
<1>2. /\ opens \in [Askers -> Opening] /\ served \in Seq(Process) /\ served[p] \in Process
      /\ roll \subseteq 1 .. Len(served) /\ Len(served) <= MaxStarts
  BY DEF DaemonInv, DaemonTypes
<1>3. NoOpen \in Opening /\ NoOpen.at = "idle"
  BY DEF NoOpen, Opening
<1>4. /\ opens' \in [Askers -> Opening] /\ opens'[a].at = "idle"
      /\ \A b \in Askers \ {a} : opens'[b] = opens[b]
  BY <1>2, <1>3
<1>5. \A b \in Askers : opens'[b].at # "waits"
  <2>1. \A b \in Askers : opens[b].at = "waits" => b = a
    BY DEF DaemonInv, OpenedApart
  <2> QED
    BY <1>4, <2>1
<1>6. /\ served' \in Seq(Process) /\ Len(served') = Len(served) /\ DOMAIN served' = 1 .. Len(served)
      /\ \A q \in 1 .. Len(served) : served'[q].id = served[q].id
      /\ \A q \in (1 .. Len(served)) \ {p} : served'[q] = served[q]
  <2>1. CASE UNCHANGED served
    BY <1>2, <2>1
  <2>2. CASE served' = [served EXCEPT ![p].at = "reaped"]
    <3>1. PICK new : new = [served[p] EXCEPT !.at = "reaped"]
      OBVIOUS
    <3>2. new \in Process /\ new.id = served[p].id
      BY <1>2, <3>1 DEF Process
    <3>3. served' = [served EXCEPT ![p] = new]
      BY <1>2, <2>2, <3>1
    <3> QED
      BY <1>2, <3>2, <3>3
  <2> QED
    BY <1>1, <2>1, <2>2
<1>7. /\ roll \subseteq roll' /\ roll' \subseteq roll \cup {p}
      /\ p \in roll' \/ ~Ups(p)'
  <2>1. CASE roll' = roll \cup {p}
    BY <2>1
  <2>2. CASE UNCHANGED roll /\ served' = [served EXCEPT ![p].at = "reaped"]
    <3>1. served'[p].at = "reaped"
      BY <1>2, <2>2 DEF Process
    <3> QED
      BY <2>2, <3>1 DEF Ups
  <2> QED
    BY <1>1, <2>1, <2>2
<1>8. DaemonTypes'
  BY <1>1, <1>2, <1>4, <1>6, <1>7 DEF DaemonTypes
<1>9. OpenedApart'
  BY <1>5 DEF OpenedApart
<1>10. RollApart'
  <2>1. \A q \in roll : q # p => served[q].id # served[p].id
    BY <1>1 DEF Listed
  <2> QED
    BY <1>1, <1>2, <1>6, <1>7, <2>1 DEF DaemonInv, RollApart
<1>11. NoneStrays'
  <2> SUFFICES ASSUME NEW q \in 1 .. Len(served), Ups(q)' PROVE standing # "gone" /\ q \in roll'
    BY <1>6 DEF NoneStrays
  <2>1. CASE q = p
    BY <1>7, <2>1
  <2>2. CASE q # p
    <3>1. Ups(q)
      BY <1>6, <2>2 DEF Ups
    <3>2. standing # "gone" /\ (q \in roll \/ \E b \in Askers : opens[b].at = "waits" /\ opens[b].proc = q)
      BY <1>2, <3>1 DEF DaemonInv, NoneStrays
    <3>3. \A b \in Askers : opens[b].at = "waits" => b = a
      BY DEF DaemonInv, OpenedApart
    <3> QED
      BY <1>1, <1>7, <2>2, <3>2, <3>3
  <2> QED
    BY <2>1, <2>2
<1> QED
  BY <1>8, <1>9, <1>10, <1>11 DEF DaemonInv

\* The client hangs up before its process was spawned: its request is dropped.
LEMMA OpensKeep ==
    ASSUME DaemonInv, standing # "gone", NEW a \in Askers,
           OpensSession(a) \/ OpenFails(a) \/ OpenDropped(a)
    PROVE  DaemonInv'
<1>1. UNCHANGED standing /\ opens' = [opens EXCEPT ![a] = NoOpen]
  BY DEF OpensSession, OpenFails, OpenDropped
<1>2. CASE opens[a].at = "waits"
  <2>1. opening = a
    BY <1>2 DEF DaemonInv, OpenedApart
  <2>2. opening' = "free"
    BY <2>1 DEF OpensSession, OpenFails, OpenDropped
  <2>3. \/ UNCHANGED served /\ roll' = roll \cup {opens[a].proc}
        \/ UNCHANGED roll /\ served' = [served EXCEPT ![opens[a].proc].at = "reaped"]
    BY <1>2 DEF OpensSession, OpenFails, OpenDropped
  <2> QED
    BY <1>1, <1>2, <2>2, <2>3, WaitEnds
<1>3. CASE opens[a].at # "waits"
  <2>1. /\ UNCHANGED <<served, roll, standing>>
        /\ opening' = IF opening = a THEN "free" ELSE opening
    BY <1>3 DEF OpensSession, OpenFails, OpenDropped
  <2>2. opens \in [Askers -> Opening] /\ NoOpen \in Opening /\ NoOpen.at = "idle"
    BY DEF DaemonInv, DaemonTypes, NoOpen, Opening
  <2>3. opens' \in [Askers -> Opening] /\ opens'[a].at = "idle" /\ \A b \in Askers \ {a} : opens'[b] = opens[b]
    BY <1>1, <2>2
  <2>4. \A b \in Askers : opens[b].at = "waits" => opening = b
    BY DEF DaemonInv, OpenedApart
  <2>5. \A b \in Askers : opens'[b].at = "waits" => opens'[b] = opens[b] /\ opening' = opening
    BY <1>3, <2>1, <2>3, <2>4
  <2> QED
    BY <1>3, <2>1, <2>3, <2>5, RequestMoves
<1> QED
  BY <1>2, <1>3

LEMMA UnlistsKeeps == ASSUME DaemonInv, NEW p \in DOMAIN served, Unlists(p) PROVE DaemonInv'
<1>1. /\ served \in Seq(Process) /\ p \in 1 .. Len(served) /\ served[p] \in Process
      /\ DOMAIN served = 1 .. Len(served) /\ roll \subseteq 1 .. Len(served)
      /\ opens \in [Askers -> Opening] /\ Len(served) <= MaxStarts
  BY DEF DaemonInv, DaemonTypes
<1>2. /\ served[p].at = "reaped" /\ p \in roll
      /\ roll' = {q \in roll : served[q].id # served[p].id}
      /\ served' = [served EXCEPT ![p].told = TRUE]
      /\ UNCHANGED <<opens, opening, standing>>
  BY DEF Unlists
<1>3. PICK new : new = [served[p] EXCEPT !.told = TRUE]
  OBVIOUS
<1>4. new \in Process /\ new.id = served[p].id /\ new.at = "reaped"
  BY <1>1, <1>2, <1>3 DEF Process
<1>5. /\ served' = [served EXCEPT ![p] = new] /\ served' \in Seq(Process)
      /\ Len(served') = Len(served) /\ DOMAIN served' = 1 .. Len(served)
  BY <1>1, <1>2, <1>3, <1>4
<1>6. \A q \in 1 .. Len(served) : served'[q].id = served[q].id /\ (Ups(q)' => Ups(q))
  BY <1>1, <1>2, <1>4, <1>5 DEF Ups
<1>7. \A q \in roll : q # p => q \in roll'
  BY <1>2 DEF DaemonInv, RollApart
<1>8. DaemonTypes'
  BY <1>1, <1>2, <1>5 DEF DaemonTypes
<1>9. OpenedApart'
  <2> SUFFICES ASSUME NEW b \in Askers, opens'[b].at = "waits"
               PROVE  /\ opening' = b /\ opens'[b].proc \in (1 .. Len(served')) \ roll'
                      /\ ~Listed(served[opens[b].proc].id)'
    BY <1>2, <1>5, <1>6, <1>1 DEF OpenedApart, DaemonInv
  <2>1. /\ opening = b /\ opens[b].proc \in (1 .. Len(served)) \ roll
        /\ ~Listed(served[opens[b].proc].id)
    BY <1>2 DEF DaemonInv, OpenedApart
  <2>2. \A q \in roll : served[q].id # served[opens[b].proc].id
    BY <2>1 DEF Listed
  <2> QED
    BY <1>1, <1>2, <1>5, <1>6, <2>1, <2>2 DEF Listed
<1>10. RollApart'
  BY <1>1, <1>2, <1>6 DEF DaemonInv, RollApart
<1>11. NoneStrays'
  <2>1. ~Ups(p)
    BY <1>2 DEF Ups
  <2> QED
    BY <1>1, <1>2, <1>5, <1>6, <1>7, <2>1 DEF DaemonInv, NoneStrays
<1> QED
  BY <1>8, <1>9, <1>10, <1>11 DEF DaemonInv

LEMMA StaysAsItIs ==
    ASSUME DaemonInv, UNCHANGED <<served, roll, opens, opening>>, standing' \in {standing, "closing"}
    PROVE  DaemonInv'
<1>1. DaemonTypes' /\ OpenedApart' /\ RollApart'
  BY DEF DaemonInv, DaemonTypes, OpenedApart, RollApart, Listed
<1>2. NoneStrays'
  BY DEF DaemonInv, NoneStrays, Ups
<1> QED
  BY <1>1, <1>2 DEF DaemonInv

\* A stop that kills ends a process that was up, and no other.
LEMMA StopKillsKeeps == ASSUME DaemonInv, NEW s \in stops, StopKills(s) PROVE DaemonInv'
<1>1. /\ served \in Seq(Process) /\ DOMAIN served = 1 .. Len(served)
      /\ UNCHANGED <<roll, opens, opening, standing>>
  BY DEF DaemonInv, DaemonTypes, StopKills
<1>2. PICK p : p = s.proc
  OBVIOUS
<1>3. served' = [served EXCEPT ![p].at = IF Ups(p) THEN "ended" ELSE @]
  BY <1>2 DEF StopKills
<1>4. CASE p \in 1 .. Len(served)
  <2>1. served[p] \in Process
    BY <1>1, <1>4
  <2>2. PICK new : new = [served[p] EXCEPT !.at = IF Ups(p) THEN "ended" ELSE @]
    OBVIOUS
  <2>3. new \in Process /\ new.id = served[p].id /\ new.at \notin {"starting", "serving"}
    BY <2>1, <2>2 DEF Process, Ups
  <2>4. served' = [served EXCEPT ![p] = new]
    BY <1>1, <1>3, <1>4, <2>2
  <2>5. served' \in Seq(Process) /\ Len(served') = Len(served)
    BY <1>1, <1>4, <2>3, <2>4
  <2>6. \A q \in 1 .. Len(served) : served'[q].id = served[q].id /\ (Ups(q)' => Ups(q))
    BY <1>1, <1>4, <2>3, <2>4 DEF Ups
  <2> QED
    BY <1>1, <2>5, <2>6, ProcessMoves
<1>5. CASE p \notin 1 .. Len(served)
  <2>1. served' = served
    BY <1>1, <1>3, <1>5
  <2> QED
    BY <1>1, <2>1, StaysAsItIs
<1> QED
  BY <1>4, <1>5

LEMMA DaemonGoneKeeps == DaemonInv /\ DaemonGone => DaemonInv'
<1> SUFFICES ASSUME DaemonInv, DaemonGone PROVE DaemonInv'
  OBVIOUS
<1>1. /\ served \in Seq(Process) /\ DOMAIN served = 1 .. Len(served) /\ Len(served) <= MaxStarts
      /\ roll \subseteq 1 .. Len(served) /\ UNCHANGED roll
  BY DEF DaemonInv, DaemonTypes, DaemonGone
<1>2. \A p \in 1 .. Len(served) : served'[p] = [served[p] EXCEPT !.at = "reaped"]
  BY <1>1 DEF DaemonGone
<1>3. \A p \in 1 .. Len(served) :
         served'[p] \in Process /\ served'[p].id = served[p].id /\ served'[p].at = "reaped"
  <2> TAKE p \in 1 .. Len(served)
  <2>1. served[p] \in Process
    BY <1>1
  <2> QED
    BY <1>2, <2>1 DEF Process
<1>4. served' \in Seq(Process) /\ Len(served') = Len(served) /\ DOMAIN served' = 1 .. Len(served)
  <2>1. served' = [p \in 1 .. Len(served) |-> [served[p] EXCEPT !.at = "reaped"]]
    BY <1>1 DEF DaemonGone
  <2>2. PICK n \in Nat : n = Len(served)
    <3>1. PICK T : T = Process
      OBVIOUS
    <3>2. served \in Seq(T)
      BY <1>1, <3>1
    <3> QED
      BY <3>2
  <2>3. PICK gone : gone = served'
    OBVIOUS
  <2>4. DOMAIN gone = 1 .. n
    BY <2>1, <2>2, <2>3
  <2>5. gone = [p \in 1 .. n |-> gone[p]]
    BY <2>1, <2>2, <2>3
  <2>6. gone \in [1 .. n -> Process]
    BY <1>3, <2>2, <2>3, <2>5
  <2>7. gone \in Seq(Process) /\ Len(gone) = n
    BY <2>4, <2>6
  <2> QED
    BY <2>2, <2>3, <2>4, <2>7
<1>5. NoOpen \in Opening /\ NoOpen.at = "idle" /\ opens' = [a \in Askers |-> NoOpen]
  BY DEF NoOpen, Opening, DaemonGone
<1>6. DaemonTypes'
  BY <1>1, <1>4, <1>5 DEF DaemonTypes
<1>7. OpenedApart' /\ NoneStrays'
  BY <1>3, <1>4, <1>5 DEF OpenedApart, NoneStrays, Ups
<1>8. RollApart'
  BY <1>1, <1>3 DEF DaemonInv, RollApart
<1> QED
  BY <1>6, <1>7, <1>8 DEF DaemonInv

LEMMA DaemonSteps == DaemonInv /\ [DaemonNext]_daemonVars => DaemonInv'
<1> SUFFICES ASSUME DaemonInv, [DaemonNext]_daemonVars PROVE DaemonInv'
  OBVIOUS
<1>1. CASE UNCHANGED daemonVars
  BY <1>1, StaysAsItIs DEF daemonVars
<1>2. ASSUME standing # "gone", NEW a \in Askers,
             \/ AsksOpen(a) \/ Spawns(a) \/ OpensSession(a)
             \/ OpenFails(a) \/ OpenDropped(a) \/ ClosesSession(a)
      PROVE  DaemonInv'
  <2>1. CASE ClosesSession(a)
    BY <2>1, StaysAsItIs DEF ClosesSession
  <2> QED
    BY <1>2, <2>1, AsksOpenKeeps, SpawnsKeeps, OpensKeep
<1>3. ASSUME NEW p \in DOMAIN served, Serves(p) \/ ProcEnds(p) \/ Reaps(p) \/ Unlists(p)
      PROVE  DaemonInv'
  BY <1>3, ProcessSteps, UnlistsKeeps
<1>4. ASSUME NEW s \in stops, StopKills(s) \/ StopEnds(s) PROVE DaemonInv'
  <2>1. CASE StopEnds(s)
    BY <2>1, StaysAsItIs DEF StopEnds
  <2> QED
    BY <1>4, <2>1, StopKillsKeeps
<1>5. CASE Signalled
  BY <1>5, StaysAsItIs DEF Signalled
<1> QED
  BY <1>1, <1>2, <1>3, <1>4, <1>5, DaemonGoneKeeps DEF DaemonNext

\* Whatever is opened, closed, dropped or killed, and in whatever order, no session ever has
\* two processes up, and one that is up is on the roll or being opened, with the daemon
\* there to stop it.
THEOREM DaemonIsOne == DaemonSpec => [](OneProcess /\ NoneStrays)
<1>1. DaemonInit => DaemonInv
  BY InitDaemon
<1>2. DaemonInv /\ [DaemonNext]_daemonVars => DaemonInv'
  BY DaemonSteps
<1>3. DaemonInv => OneProcess /\ NoneStrays
  BY OneIsUp DEF DaemonInv
<1> QED
  BY <1>1, <1>2, <1>3, PTL DEF DaemonSpec

-----------------------------------------------------------------------------
(* The tunnel. *)

\* The task holds at most one ssh, whatever the network does, and none once it is closed.
THEOREM TunnelIsOne == TunnelSpec => []OneSsh
<1>1. TunnelInit => OneSsh
  BY DEF TunnelInit, OneSsh
<1>2. OneSsh /\ [TunnelNext]_tunnelVars => OneSsh'
  <2> SUFFICES ASSUME OneSsh, [TunnelNext]_tunnelVars PROVE OneSsh'
    OBVIOUS
  <2> USE DEF OneSsh
  <2>1. CASE UNCHANGED tunnelVars
    BY <2>1 DEF tunnelVars
  <2>2. CASE Outage \/ NetworkReturns \/ First
    BY <2>2 DEF Outage, NetworkReturns, First
  <2>3. CASE SpawnsSsh \/ SshForwards \/ SshExits \/ Probed
    BY <2>3 DEF SpawnsSsh, SshForwards, SshExits, Probed
  <2>4. CASE Hears \/ TellsDown \/ Rests \/ ClosesTunnel
    BY <2>4 DEF Hears, TellsDown, Rests, ClosesTunnel
  <2> QED
    BY <2>1, <2>2, <2>3, <2>4 DEF TunnelNext
<1> QED
  BY <1>1, <1>2, PTL DEF TunnelSpec

-----------------------------------------------------------------------------
(* A mirror and the session it follows: first the prompts, then the        *)
(* session, then what the mirror makes of it.                              *)

\* What a mirror may show; the numbers of prompts and approvals are not told apart here.
Screens == [working : BOOLEAN, queue : Seq(Nat), pending : Seq(Nat)]

-----------------------------------------------------------------------------
(* The prompts.  Those not yet sent are in the order they were given, each *)
(* after all that this run took in; a request on its way carries one that  *)
(* was taken in already, or the one act is at.                             *)

Asking(act) == act.op = "prompt"
Waiting == [act : Action, late : BOOLEAN]
Request == [act : Action, live : BOOLEAN]
RelayTypes ==
    /\ actions \in Seq(Action) /\ held \in Seq(Waiting) /\ transit \in Seq(Request)
    /\ awaiting \in BOOLEAN /\ sent \in Nat /\ run \in Nat
    /\ seen \subseteq Nat /\ submitted \in Seq(Nat \X Nat)

GivenInOrder ==
    /\ \A i, j \in 1 .. Len(held) :
          i < j /\ Asking(held[i].act) /\ Asking(held[j].act) => held[i].act.arg < held[j].act.arg
    /\ \A i \in 1 .. Len(held), j \in 1 .. Len(actions) :
          Asking(held[i].act) /\ Asking(actions[j]) => held[i].act.arg < actions[j].arg
    /\ \A i, j \in 1 .. Len(actions) :
          i < j /\ Asking(actions[i]) /\ Asking(actions[j]) => actions[i].arg < actions[j].arg
    /\ \A i \in 1 .. Len(held) : Asking(held[i].act) => held[i].act.arg <= sent
    /\ \A i \in 1 .. Len(actions) : Asking(actions[i]) => actions[i].arg <= sent
SeenBefore ==
    \A s \in seen :
        /\ s <= sent
        /\ \A i \in 1 .. Len(held) :
              Asking(held[i].act) => s <= held[i].act.arg /\ (i > 1 => s < held[i].act.arg)
        /\ \A j \in 1 .. Len(actions) : Asking(actions[j]) => s < actions[j].arg
OnTheWay ==
    \A k \in 1 .. Len(transit) : Asking(transit[k].act) =>
        transit[k].act.arg \in seen \/ (held # <<>> /\ transit[k].act = held[1].act)
Awaited ==
    /\ awaiting => held # <<>>
    /\ \A k \in 1 .. Len(transit) :
          transit[k].live => awaiting /\ transit[k].act = held[1].act /\ reply = "none"
    /\ \A k, l \in 1 .. Len(transit) : transit[k].live /\ transit[l].live => k = l
    /\ reply # "none" =>
          awaiting /\ (Asking(held[1].act) => held[1].act.arg \in seen \/ transit = <<>>)
TakenOnce ==
    /\ PromptsOnceInOrder
    /\ \A i \in 1 .. Len(submitted) :
          submitted[i][1] <= run /\ (submitted[i][1] = run => submitted[i][2] \in seen)
PromptsInv == RelayTypes /\ GivenInOrder /\ SeenBefore /\ OnTheWay /\ Awaited /\ TakenOnce

LEMMA PromptsStay ==
    ASSUME PromptsInv, UNCHANGED <<run, seen, submitted, relayVars>> PROVE PromptsInv'
<1>1. UNCHANGED <<run, seen, submitted, actions, held, awaiting, transit, reply, given, sent>>
  BY DEF relayVars
<1>2. RelayTypes' /\ GivenInOrder' /\ SeenBefore'
  BY <1>1 DEF PromptsInv, RelayTypes, GivenInOrder, SeenBefore
<1>3. OnTheWay' /\ Awaited' /\ TakenOnce'
  BY <1>1 DEF PromptsInv, OnTheWay, Awaited, TakenOnce, PromptsOnceInOrder
<1> QED
  BY <1>2, <1>3 DEF PromptsInv

LEMMA InitPrompts == Init => PromptsInv
<1> SUFFICES ASSUME Init PROVE PromptsInv
  OBVIOUS
<1>1. /\ run \in Nat /\ seen = {} /\ submitted = <<>>
      /\ actions = <<>> /\ held = <<>> /\ awaiting = FALSE /\ transit = <<>> /\ reply = "none" /\ sent = 0
  BY ServedAssumption DEF Init, ServedInit, RelayInit
<1>2. RelayTypes
  <2>1. \A T : <<>> \in Seq(T)
    OBVIOUS
  <2> QED
    BY <1>1, <2>1 DEF RelayTypes
<1>3. GivenInOrder /\ SeenBefore /\ OnTheWay /\ Awaited /\ TakenOnce
  BY <1>1 DEF GivenInOrder, SeenBefore, OnTheWay, Awaited, TakenOnce, PromptsOnceInOrder
<1> QED
  BY <1>2, <1>3 DEF PromptsInv

\* What is left of a sequence without one of its members.
LEMMA RemovedAt ==
    ASSUME NEW S, NEW s \in Seq(S), NEW i \in 1 .. Len(s)
    PROVE  /\ RemoveAt(s, i) \in Seq(S) /\ Len(RemoveAt(s, i)) = Len(s) - 1
           /\ \A k \in 1 .. Len(s) - 1 : RemoveAt(s, i)[k] = s[IF k < i THEN k ELSE k + 1]
<1>1. PICK n \in Nat : n = Len(s) /\ i \in 1 .. n
  OBVIOUS
<1>2. PICK front : front = SubSeq(s, 1, i - 1)
  OBVIOUS
<1>3. PICK back : back = SubSeq(s, i + 1, n)
  OBVIOUS
<1>4. front \in Seq(S) /\ Len(front) = i - 1 /\ \A k \in 1 .. i - 1 : front[k] = s[k]
  BY <1>1, <1>2
<1>5. back \in Seq(S) /\ Len(back) = n - i /\ \A k \in 1 .. n - i : back[k] = s[i + k]
  BY <1>1, <1>3
<1>6. RemoveAt(s, i) = front \o back
  BY <1>1, <1>2, <1>3 DEF RemoveAt
<1>7. front \o back \in Seq(S) /\ Len(front \o back) = n - 1
  <2>1. Len(front \o back) = (i - 1) + (n - i)
    BY <1>4, <1>5, SMTT(30)
  <2> QED
    BY <1>1, <1>4, <1>5, <2>1
<1>8. ASSUME NEW k \in 1 .. n - 1 PROVE (front \o back)[k] = s[IF k < i THEN k ELSE k + 1]
  <2>1. CASE k < i
    <3>1. k \in 1 .. Len(front)
      BY <1>1, <1>4, <2>1
    <3>2. (front \o back)[k] = front[k]
      BY <1>4, <1>5, <3>1
    <3> QED
      BY <1>4, <2>1, <3>2
  <2>2. CASE ~(k < i)
    <3>1. k - (i - 1) \in 1 .. n - i /\ k = (i - 1) + (k - (i - 1))
      BY <1>1, <2>2
    <3>2. (front \o back)[k] = back[k - (i - 1)]
      BY <1>1, <1>4, <1>5, <3>1
    <3>3. back[k - (i - 1)] = s[i + (k - (i - 1))]
      BY <1>5, <3>1
    <3> QED
      BY <1>1, <2>2, <3>2, <3>3
  <2> QED
    BY <2>1, <2>2
<1> QED
  BY <1>1, <1>6, <1>7, <1>8

\* The user does one thing more: a prompt comes after every other.
LEMMA GivesKeeps ==
    ASSUME PromptsInv, view \in Screens, GivesPrompt \/ GivesAnswer \/ GivesInterrupt
    PROVE  PromptsInv'
<1>0. sent \in Nat /\ actions \in Seq(Action)
  BY DEF PromptsInv, RelayTypes
<1>1. PICK new \in Action : /\ actions' = Append(actions, new) /\ sent' \in Nat /\ sent' >= sent
                            /\ Asking(new) => new.arg = sent + 1 /\ sent' = sent + 1
  <2>1. CASE GivesPrompt
    <3>1. PICK new : new = [op |-> "prompt", arg |-> sent + 1]
      OBVIOUS
    <3>2. actions' = Append(actions, new) /\ sent' = sent + 1
      BY <2>1, <3>1 DEF GivesPrompt, Does
    <3>3. new \in Action /\ new.arg = sent + 1
      BY <1>0, <3>1 DEF Action
    <3> QED
      BY <1>0, <3>2, <3>3
  <2>2. CASE GivesAnswer
    <3>1. PICK ids : ids = view.pending
      OBVIOUS
    <3>2. ids \in Seq(Nat) /\ ids # <<>>
      BY <2>2, <3>1 DEF GivesAnswer, Screens
    <3>3. Head(ids) \in Nat
      BY <3>2
    <3>4. PICK new : new = [op |-> "answer", arg |-> Head(ids)]
      OBVIOUS
    <3>5. actions' = Append(actions, new) /\ sent' = sent
      BY <2>2, <3>1, <3>4 DEF GivesAnswer, Does
    <3>6. new \in Action /\ ~Asking(new)
      BY <3>3, <3>4 DEF Action, Asking
    <3> QED
      BY <1>0, <3>5, <3>6
  <2>3. CASE GivesInterrupt
    <3>1. PICK new : new = [op |-> "interrupt", arg |-> 0]
      OBVIOUS
    <3>2. actions' = Append(actions, new) /\ sent' = sent
      BY <2>3, <3>1 DEF GivesInterrupt, Does
    <3>3. new \in Action /\ ~Asking(new)
      BY <3>1 DEF Action, Asking
    <3> QED
      BY <1>0, <3>2, <3>3
  <2> QED
    BY <2>1, <2>2, <2>3
<1>2. UNCHANGED <<run, seen, submitted, held, awaiting, transit, reply>>
  BY DEF GivesPrompt, GivesAnswer, GivesInterrupt, Does, Elsewhere, servedVars
<1>3. PICK n \in Nat : n = Len(actions)
  BY <1>0
<1>4. /\ actions' \in Seq(Action) /\ Len(actions') = n + 1 /\ actions'[n + 1] = new
      /\ \A j \in 1 .. n : actions'[j] = actions[j]
  BY <1>0, <1>1, <1>3
<1>5. \A j \in 1 .. n + 1 : j \in 1 .. n \/ j = n + 1
  BY <1>3
<1>6. RelayTypes'
  BY <1>1, <1>2, <1>4 DEF PromptsInv, RelayTypes
<1>7. \A i \in 1 .. Len(held) : held[i].act.arg \in Nat
  <2> TAKE i \in 1 .. Len(held)
  <2>1. held[i] \in Waiting
    BY DEF PromptsInv, RelayTypes
  <2> QED
    BY <2>1 DEF Waiting, Action
<1>8. \A j \in 1 .. n : actions[j].arg \in Nat
  <2> TAKE j \in 1 .. n
  <2>1. actions[j] \in Action
    BY <1>0, <1>3
  <2> QED
    BY <2>1 DEF Action
<1>9. GivenInOrder'
  <2>1. /\ \A i \in 1 .. Len(held) : Asking(held[i].act) => held[i].act.arg <= sent
        /\ \A j \in 1 .. n : Asking(actions[j]) => actions[j].arg <= sent
    BY <1>3 DEF PromptsInv, GivenInOrder
  <2>2. /\ \A i \in 1 .. Len(held) : Asking(held[i].act) => held[i].act.arg <= sent'
        /\ \A i \in 1 .. Len(held) : Asking(held[i].act) /\ Asking(new) => held[i].act.arg < new.arg
    BY <1>0, <1>1, <1>7, <2>1
  <2>3. /\ \A j \in 1 .. n : Asking(actions[j]) => actions[j].arg <= sent'
        /\ \A j \in 1 .. n : Asking(actions[j]) /\ Asking(new) => actions[j].arg < new.arg
        /\ Asking(new) => new.arg <= sent'
    BY <1>0, <1>1, <1>8, <2>1
  <2> QED
    BY <1>2, <1>3, <1>4, <1>5, <2>2, <2>3 DEF PromptsInv, GivenInOrder
<1>10. SeenBefore'
  <2>1. \A s \in seen : s \in Nat /\ s <= sent
    BY DEF PromptsInv, RelayTypes, SeenBefore
  <2>2. \A s \in seen : s <= sent' /\ (Asking(new) => s < new.arg)
    BY <1>0, <1>1, <2>1
  <2> QED
    BY <1>2, <1>3, <1>4, <1>5, <2>2 DEF PromptsInv, SeenBefore
<1>11. OnTheWay' /\ Awaited' /\ TakenOnce'
  BY <1>2 DEF PromptsInv, OnTheWay, Awaited, TakenOnce, PromptsOnceInOrder
<1> QED
  BY <1>6, <1>9, <1>10, <1>11 DEF PromptsInv

LEMMA HeldTypes ==
    PromptsInv =>
        /\ \A i \in 1 .. Len(held) : held[i] \in Waiting /\ held[i].act \in Action /\ held[i].act.arg \in Nat
        /\ \A j \in 1 .. Len(actions) : actions[j] \in Action /\ actions[j].arg \in Nat
        /\ \A k \in 1 .. Len(transit) : transit[k] \in Request /\ transit[k].act \in Action /\ transit[k].act.arg \in Nat
<1> SUFFICES ASSUME PromptsInv PROVE
        /\ \A i \in 1 .. Len(held) : held[i] \in Waiting /\ held[i].act \in Action /\ held[i].act.arg \in Nat
        /\ \A j \in 1 .. Len(actions) : actions[j] \in Action /\ actions[j].arg \in Nat
        /\ \A k \in 1 .. Len(transit) : transit[k] \in Request /\ transit[k].act \in Action /\ transit[k].act.arg \in Nat
  OBVIOUS
<1>1. /\ \A i \in 1 .. Len(held) : held[i] \in Waiting
      /\ \A j \in 1 .. Len(actions) : actions[j] \in Action
      /\ \A k \in 1 .. Len(transit) : transit[k] \in Request
  BY DEF PromptsInv, RelayTypes
<1>2. \A act \in Action : act.arg \in Nat
  BY DEF Action
<1>3. (\A wait \in Waiting : wait.act \in Action) /\ (\A req \in Request : req.act \in Action)
  BY DEF Waiting, Request
<1> QED
  BY <1>1, <1>2, <1>3

\* act is done with the first it holds: if that was a prompt, no copy of it that is still on
\* its way is one the run has not taken in.
LEMMA HeadGone ==
    ASSUME PromptsInv, held # <<>>, held' = Tail(held),
           UNCHANGED <<run, seen, submitted, actions, sent>>,
           awaiting' = FALSE, reply' = "none",
           transit' \in Seq(Request), Len(transit') = Len(transit),
           \A k \in 1 .. Len(transit) : transit'[k].act = transit[k].act /\ ~transit'[k].live,
           Asking(held[1].act) => held[1].act.arg \in seen \/ transit = <<>>
    PROVE  PromptsInv'
<1>1. held \in Seq(Waiting)
  BY DEF PromptsInv, RelayTypes
<1>2. PICK n \in Nat : Len(held) = n + 1
  <2>1. PICK T : T = Waiting
    OBVIOUS
  <2>2. held \in Seq(T)
    BY <1>1, <2>1
  <2>3. Len(held) - 1 \in Nat /\ Len(held) = (Len(held) - 1) + 1
    BY <2>2
  <2> QED
    BY <2>3
<1>3. /\ held' \in Seq(Waiting) /\ Len(held') = n
      /\ \A i \in 1 .. n : held'[i] = held[i + 1] /\ i + 1 \in 1 .. n + 1 /\ i + 1 > 1
  BY <1>1, <1>2
<1>4. RelayTypes'
  BY <1>3 DEF PromptsInv, RelayTypes
<1>5. GivenInOrder'
  <2>1. \A i, j \in 1 .. n : i < j => i + 1 < j + 1
    OBVIOUS
  <2> QED
    BY <1>2, <1>3, <2>1 DEF PromptsInv, GivenInOrder
<1>6. SeenBefore'
  <2>1. \A s \in seen, i \in 1 .. n : Asking(held[i + 1].act) => s <= held[i + 1].act.arg /\ s < held[i + 1].act.arg
    BY <1>2, <1>3 DEF PromptsInv, SeenBefore
  <2> QED
    BY <1>2, <1>3, <2>1 DEF PromptsInv, SeenBefore
<1>7. OnTheWay'
  BY DEF PromptsInv, OnTheWay
<1>8. Awaited' /\ TakenOnce'
  BY DEF PromptsInv, Awaited, TakenOnce, PromptsOnceInOrder
<1> QED
  BY <1>4, <1>5, <1>6, <1>7, <1>8 DEF PromptsInv

LEMMA AnsweredKeeps == PromptsInv /\ Answered => PromptsInv'
<1> SUFFICES ASSUME PromptsInv, Answered PROVE PromptsInv'
  OBVIOUS
<1>1. /\ awaiting' = FALSE /\ held' = Tail(held) /\ reply # "none" /\ reply' = "none"
      /\ UNCHANGED <<run, seen, submitted, actions, sent, transit>>
  BY DEF Answered, Elsewhere, ActOnly, servedVars
<1>2. held # <<>> /\ (Asking(held[1].act) => held[1].act.arg \in seen \/ transit = <<>>)
  BY <1>1 DEF PromptsInv, Awaited
<1>3. \A k \in 1 .. Len(transit) : ~transit[k].live
  BY <1>1 DEF PromptsInv, Awaited
<1>4. transit' \in Seq(Request)
  BY <1>1 DEF PromptsInv, RelayTypes
<1> QED
  BY <1>1, <1>2, <1>3, <1>4, HeadGone

LEMMA NoAnswerKeeps == PromptsInv /\ NoAnswer => PromptsInv'
<1> SUFFICES ASSUME PromptsInv, NoAnswer PROVE PromptsInv'
  OBVIOUS
<1>1. /\ awaiting /\ awaiting' = FALSE /\ transit' = Orphaned /\ reply' = "none"
      /\ held' = IF Retried(Head(held).act) THEN [held EXCEPT ![1].late = TRUE] ELSE Tail(held)
      /\ UNCHANGED <<run, seen, submitted, actions, sent>>
  BY DEF NoAnswer, ActOnly, servedVars
<1>2. held \in Seq(Waiting) /\ held # <<>>
  BY <1>1 DEF PromptsInv, RelayTypes, Awaited
<1>3. Head(held) = held[1] /\ 1 \in 1 .. Len(held) /\ held[1] \in Waiting
  <2>1. PICK T : T = Waiting
    OBVIOUS
  <2>2. held \in Seq(T)
    BY <1>2, <2>1
  <2>3. Head(held) = held[1] /\ 1 \in 1 .. Len(held) /\ held[1] \in T
    BY <1>2, <2>2
  <2> QED
    BY <2>1, <2>3
<1>4. /\ transit' \in Seq(Request) /\ Len(transit') = Len(transit)
      /\ \A k \in 1 .. Len(transit) : transit'[k].act = transit[k].act /\ ~transit'[k].live
  <2>1. PICK m \in Nat : m = Len(transit)
    <3>1. PICK T : T = Request
      OBVIOUS
    <3>2. transit \in Seq(T)
      BY <3>1 DEF PromptsInv, RelayTypes
    <3> QED
      BY <3>2
  <2>2. \A k \in 1 .. m : [transit[k] EXCEPT !.live = FALSE] \in Request
                          /\ [transit[k] EXCEPT !.live = FALSE].act = transit[k].act
                          /\ ~[transit[k] EXCEPT !.live = FALSE].live
    <3> TAKE k \in 1 .. m
    <3>1. transit[k] \in Request
      BY <2>1, HeldTypes
    <3> QED
      BY <3>1 DEF Request
  <2>3. transit' = [k \in 1 .. m |-> [transit[k] EXCEPT !.live = FALSE]]
    BY <1>1, <2>1 DEF Orphaned
  <2>4. PICK now : now = transit'
    OBVIOUS
  <2>5. now \in [1 .. m -> Request] /\ \A k \in 1 .. m : now[k] = [transit[k] EXCEPT !.live = FALSE]
    BY <2>2, <2>3, <2>4
  <2>6. now \in Seq(Request) /\ Len(now) = m
    BY <2>5
  <2>7. \A k \in 1 .. m : now[k].act = transit[k].act /\ ~now[k].live
    BY <2>2, <2>5
  <2> QED
    BY <2>1, <2>4, <2>6, <2>7
<1>5. CASE ~Retried(held[1].act)
  <2>1. held' = Tail(held) /\ ~Asking(held[1].act)
    BY <1>1, <1>3, <1>5 DEF Retried, Asking
  <2> QED
    BY <1>1, <1>2, <1>4, <2>1, HeadGone
<1>6. CASE Retried(held[1].act)
  <2>1. PICK new : new = [held[1] EXCEPT !.late = TRUE]
    OBVIOUS
  <2>2. new \in Waiting /\ new.act = held[1].act
    BY <1>3, <2>1 DEF Waiting
  <2>3. held' = [held EXCEPT ![1] = new]
    BY <1>1, <1>2, <1>3, <1>6, <2>1
  <2>4. held' \in Seq(Waiting) /\ Len(held') = Len(held) /\ held' # <<>>
        /\ \A i \in 1 .. Len(held) : held'[i].act = held[i].act
    BY <1>2, <1>3, <2>2, <2>3
  <2>5. RelayTypes'
    BY <1>1, <1>4, <2>4 DEF PromptsInv, RelayTypes
  <2>6. GivenInOrder' /\ SeenBefore'
    BY <1>1, <2>4 DEF PromptsInv, GivenInOrder, SeenBefore
  <2>7. OnTheWay'
    BY <1>1, <1>3, <1>4, <2>4 DEF PromptsInv, OnTheWay
  <2>8. Awaited' /\ TakenOnce'
    BY <1>1, <1>4 DEF PromptsInv, Awaited, TakenOnce, PromptsOnceInOrder
  <2> QED
    BY <2>5, <2>6, <2>7, <2>8 DEF PromptsInv
<1> QED
  BY <1>5, <1>6

LEMMA TakeKeeps == ASSUME PromptsInv, up \in BOOLEAN, Take PROVE PromptsInv'
<1>1. /\ ~awaiting /\ actions # <<>> /\ actions' = Tail(actions)
      /\ held' = held \/ \E late \in BOOLEAN : held' = Append(held, [act |-> Head(actions), late |-> late])
      /\ UNCHANGED <<run, seen, submitted, sent, awaiting, transit, reply>>
  <2>1. (~up) = TRUE \/ (~up) = FALSE
    BY Zenon
  <2>2. (~up) \in BOOLEAN
    BY <2>1, Zenon
  <2> QED
    BY <2>2 DEF Take, Elsewhere, ActOnly, servedVars
<1>2. held \in Seq(Waiting) /\ actions \in Seq(Action)
  BY DEF PromptsInv, RelayTypes
<1>3. PICK n \in Nat, m \in Nat : Len(held) = n /\ Len(actions) = m + 1
  <2>1. PICK T, U : T = Waiting /\ U = Action
    OBVIOUS
  <2>2. held \in Seq(T) /\ actions \in Seq(U)
    BY <1>2, <2>1
  <2>3. Len(held) \in Nat /\ Len(actions) - 1 \in Nat /\ Len(actions) = (Len(actions) - 1) + 1
    BY <1>1, <2>2
  <2> QED
    BY <2>3
<1>4. /\ actions' \in Seq(Action) /\ Len(actions') = m /\ Head(actions) = actions[1] /\ 1 \in 1 .. m + 1
      /\ \A j \in 1 .. m : actions'[j] = actions[j + 1] /\ j + 1 \in 1 .. m + 1 /\ 1 < j + 1
  BY <1>1, <1>2, <1>3
<1>5. \A i, j \in 1 .. m : i < j => i + 1 < j + 1
  OBVIOUS
<1>6. CASE held' = held
  <2>1. RelayTypes'
    BY <1>1, <1>4, <1>6 DEF PromptsInv, RelayTypes
  <2>2. GivenInOrder' /\ SeenBefore'
    BY <1>1, <1>3, <1>4, <1>5, <1>6 DEF PromptsInv, GivenInOrder, SeenBefore
  <2>3. OnTheWay' /\ Awaited' /\ TakenOnce'
    BY <1>1, <1>6 DEF PromptsInv, OnTheWay, Awaited, TakenOnce, PromptsOnceInOrder
  <2> QED
    BY <2>1, <2>2, <2>3 DEF PromptsInv
<1>7. ASSUME NEW late \in BOOLEAN, held' = Append(held, [act |-> Head(actions), late |-> late])
      PROVE  PromptsInv'
  <2>1. PICK new : new = [act |-> actions[1], late |-> late]
    OBVIOUS
  <2>2. new \in Waiting /\ new.act = actions[1] /\ held' = Append(held, new)
    BY <1>2, <1>3, <1>4, <1>7, <2>1 DEF Waiting
  <2>3. /\ held' \in Seq(Waiting) /\ Len(held') = n + 1 /\ held'[n + 1].act = actions[1]
        /\ held' # <<>> /\ \A i \in 1 .. n : held'[i] = held[i]
    BY <1>2, <1>3, <2>2
  <2>4. \A i \in 1 .. n + 1 : i \in 1 .. n \/ i = n + 1
    OBVIOUS
  <2>5. RelayTypes'
    BY <1>1, <1>4, <2>3 DEF PromptsInv, RelayTypes
  <2>6. GivenInOrder'
    <3>1. \A i, j \in 1 .. n + 1 : i < j /\ Asking(held'[i].act) /\ Asking(held'[j].act)
                                     => held'[i].act.arg < held'[j].act.arg
      <4> SUFFICES ASSUME NEW i \in 1 .. n + 1, NEW j \in 1 .. n + 1, i < j,
                          Asking(held'[i].act), Asking(held'[j].act)
                   PROVE  held'[i].act.arg < held'[j].act.arg
        OBVIOUS
      <4>1. i \in 1 .. n /\ held'[i] = held[i]
        BY <2>3
      <4>2. CASE j = n + 1
        BY <1>3, <1>4, <2>3, <4>1, <4>2 DEF PromptsInv, GivenInOrder
      <4>3. CASE j \in 1 .. n
        BY <1>3, <2>3, <4>1, <4>3 DEF PromptsInv, GivenInOrder
      <4> QED
        BY <2>4, <4>2, <4>3
    <3>2. \A i \in 1 .. n + 1, j \in 1 .. m : Asking(held'[i].act) /\ Asking(actions'[j])
                                                 => held'[i].act.arg < actions'[j].arg
      BY <1>3, <1>4, <2>3, <2>4 DEF PromptsInv, GivenInOrder
    <3>3. \A i, j \in 1 .. m : i < j /\ Asking(actions'[i]) /\ Asking(actions'[j])
                                 => actions'[i].arg < actions'[j].arg
      BY <1>3, <1>4, <1>5 DEF PromptsInv, GivenInOrder
    <3>4. /\ \A i \in 1 .. n + 1 : Asking(held'[i].act) => held'[i].act.arg <= sent
          /\ \A j \in 1 .. m : Asking(actions'[j]) => actions'[j].arg <= sent
      BY <1>3, <1>4, <2>3, <2>4 DEF PromptsInv, GivenInOrder
    <3> QED
      BY <1>1, <1>4, <2>3, <3>1, <3>2, <3>3, <3>4 DEF GivenInOrder
  <2>7. SeenBefore'
    <3>1. \A s \in seen : s \in Nat /\ (Asking(actions[1]) => s < actions[1].arg /\ actions[1].arg \in Nat)
      BY <1>3, <1>4, HeldTypes DEF PromptsInv, RelayTypes, SeenBefore
    <3>2. \A s \in seen : Asking(actions[1]) => s <= actions[1].arg /\ s < actions[1].arg
      BY <3>1
    <3> QED
      BY <1>1, <1>3, <1>4, <2>3, <2>4, <3>2 DEF PromptsInv, SeenBefore
  <2>8. OnTheWay'
    <3>1. held # <<>> => 1 \in 1 .. n
      BY <1>2, <1>3
    <3> QED
      BY <1>1, <2>3, <3>1 DEF PromptsInv, OnTheWay
  <2>9. Awaited' /\ TakenOnce'
    BY <1>1 DEF PromptsInv, Awaited, TakenOnce, PromptsOnceInOrder
  <2> QED
    BY <2>5, <2>6, <2>7, <2>8, <2>9 DEF PromptsInv
<1> QED
  BY <1>1, <1>6, <1>7

LEMMA PostsKeeps == PromptsInv /\ Posts => PromptsInv'
<1> SUFFICES ASSUME PromptsInv, Posts PROVE PromptsInv'
  OBVIOUS
<1>1. /\ ~awaiting /\ held # <<>> /\ awaiting' = TRUE
      /\ transit' = Append(transit, [act |-> Head(held).act, live |-> TRUE])
      /\ UNCHANGED <<run, seen, submitted, sent, actions, held, reply>>
  BY DEF Posts, Elsewhere, ActOnly, servedVars
<1>2. held \in Seq(Waiting) /\ transit \in Seq(Request)
  BY DEF PromptsInv, RelayTypes
<1>3. Head(held) = held[1] /\ 1 \in 1 .. Len(held)
  <2>1. PICK T : T = Waiting
    OBVIOUS
  <2>2. held \in Seq(T)
    BY <1>2, <2>1
  <2> QED
    BY <1>1, <2>2
<1>4. PICK n \in Nat : n = Len(transit)
  <2>1. PICK T : T = Request
    OBVIOUS
  <2>2. transit \in Seq(T)
    BY <1>2, <2>1
  <2> QED
    BY <2>2
<1>5. PICK new \in Request : transit' = Append(transit, new) /\ new.act = held[1].act /\ new.live
  <2>1. PICK new : new = [act |-> held[1].act, live |-> TRUE]
    OBVIOUS
  <2>2. new \in Request /\ new.act = held[1].act /\ new.live
    BY <1>3, <2>1, HeldTypes DEF Request
  <2> QED
    BY <1>1, <1>3, <2>1, <2>2
<1>6. /\ transit' \in Seq(Request) /\ Len(transit') = n + 1 /\ transit'[n + 1] = new
      /\ \A k \in 1 .. n : transit'[k] = transit[k]
  BY <1>2, <1>4, <1>5
<1>7. \A k \in 1 .. n + 1 : k \in 1 .. n \/ k = n + 1
  OBVIOUS
<1>8. reply = "none" /\ \A k \in 1 .. n : ~transit[k].live
  BY <1>1, <1>4 DEF PromptsInv, Awaited
<1>9. RelayTypes' /\ GivenInOrder' /\ SeenBefore'
  BY <1>1, <1>6 DEF PromptsInv, RelayTypes, GivenInOrder, SeenBefore
<1>10. OnTheWay'
  BY <1>1, <1>4, <1>5, <1>6, <1>7 DEF PromptsInv, OnTheWay
<1>11. Awaited'
  BY <1>1, <1>5, <1>6, <1>7, <1>8 DEF Awaited
<1>12. TakenOnce'
  BY <1>1 DEF PromptsInv, TakenOnce, PromptsOnceInOrder
<1> QED
  BY <1>9, <1>10, <1>11, <1>12 DEF PromptsInv

\* A request arrives or is lost; a prompt the run has not taken in is the one act is at, and
\* comes after all that it took in.
LEMMA DeliversKeeps ==
    ASSUME PromptsInv, NEW i \in 1 .. Len(transit), Serve(i) \/ Loses(i) PROVE PromptsInv'
<1>1. /\ transit \in Seq(Request) /\ seen \subseteq Nat /\ run \in Nat
      /\ submitted \in Seq(Nat \X Nat)
  BY DEF PromptsInv, RelayTypes
<1>2. /\ transit' = RemoveAt(transit, i)
      /\ UNCHANGED <<run, actions, held, awaiting, sent>>
  BY DEF Serve, Loses, Elsewhere, ActOnly, Prompt, AnswerRoute, InterruptRoute, servedVars
<1>3. PICK n \in Nat : n = Len(transit) /\ i \in 1 .. n
  <2>1. PICK T : T = Request
    OBVIOUS
  <2>2. transit \in Seq(T)
    BY <1>1, <2>1
  <2> QED
    BY <2>2
<1>4. /\ transit' \in Seq(Request) /\ Len(transit') = n - 1
      /\ \A k \in 1 .. n - 1 : transit'[k] = transit[IF k < i THEN k ELSE k + 1]
  BY <1>1, <1>2, <1>3, RemovedAt
<1>5. PICK at : at = [k \in 1 .. n - 1 |-> IF k < i THEN k ELSE k + 1]
  OBVIOUS
<1>6. /\ \A k \in 1 .. n - 1 : at[k] \in (1 .. n) \ {i} /\ transit'[k] = transit[at[k]]
      /\ \A k, l \in 1 .. n - 1 : at[k] = at[l] => k = l
  BY <1>3, <1>4, <1>5
<1>7. PICK act : act = transit[i].act
  OBVIOUS
<1>8. \/ UNCHANGED <<seen, submitted>>
      \/ /\ Asking(act) /\ act.arg \notin seen
         /\ seen' = seen \cup {act.arg} /\ submitted' = Append(submitted, <<run, act.arg>>)
  BY <1>7 DEF Serve, Loses, Elsewhere, Prompt, AnswerRoute, InterruptRoute, servedVars, Asking
<1>9. /\ reply' # reply => transit[i].live
      /\ Asking(act) /\ reply' # reply => act.arg \in seen'
  BY <1>7 DEF Serve, Loses, Prompt, Asking
<1>10. held[1].act.arg \in Nat \/ held = <<>>
  <2>1. held = <<>> \/ 1 \in 1 .. Len(held)
    <3>1. PICK T : T = Waiting
      OBVIOUS
    <3>2. held \in Seq(T)
      BY <3>1 DEF PromptsInv, RelayTypes
    <3> QED
      BY <3>2
  <2> QED
    BY <2>1, HeldTypes
<1>11. seen \subseteq seen' /\ seen' \subseteq seen \cup {act.arg}
  BY <1>8
<1>12. ASSUME Asking(act), act.arg \notin seen
       PROVE  held # <<>> /\ act = held[1].act /\ 1 \in 1 .. Len(held) /\ act.arg \in Nat
  <2>1. held # <<>> /\ act = held[1].act
    BY <1>3, <1>7, <1>12 DEF PromptsInv, OnTheWay
  <2>2. 1 \in 1 .. Len(held)
    <3>1. PICK T : T = Waiting
      OBVIOUS
    <3>2. held \in Seq(T)
      BY <3>1 DEF PromptsInv, RelayTypes
    <3> QED
      BY <2>1, <3>2
  <2> QED
    BY <1>10, <2>1, <2>2
<1>13. RelayTypes'
  <2>1. CASE UNCHANGED <<seen, submitted>>
    BY <1>2, <1>4, <2>1 DEF PromptsInv, RelayTypes
  <2>2. CASE ~UNCHANGED <<seen, submitted>>
    <3>1. <<run, act.arg>> \in Nat \X Nat
      BY <1>1, <1>8, <1>12, <2>2
    <3>2. PICK pair : pair = <<run, act.arg>>
      OBVIOUS
    <3>3. submitted' = Append(submitted, pair) /\ pair \in Nat \X Nat
      BY <1>8, <2>2, <3>1, <3>2
    <3>4. PICK T : T = Nat \X Nat
      OBVIOUS
    <3>5. submitted' \in Seq(T)
      BY <1>1, <3>3, <3>4
    <3>6. seen' \subseteq Nat
      BY <1>1, <1>8, <1>12, <2>2
    <3> QED
      BY <1>2, <1>4, <3>4, <3>5, <3>6 DEF PromptsInv, RelayTypes
  <2> QED
    BY <2>1, <2>2
<1>14. GivenInOrder'
  BY <1>2 DEF PromptsInv, GivenInOrder
<1>15. SeenBefore'
  <2>1. CASE seen' = seen
    BY <1>2, <2>1 DEF PromptsInv, SeenBefore
  <2>2. CASE seen' # seen
    <3>1. Asking(act) /\ act.arg \notin seen /\ seen' = seen \cup {act.arg}
      BY <1>8, <2>2
    <3>2. act = held[1].act /\ 1 \in 1 .. Len(held) /\ act.arg \in Nat /\ Asking(held[1].act)
      BY <1>12, <3>1
    <3>3. act.arg <= sent
      BY <3>2 DEF PromptsInv, GivenInOrder
    <3>4. \A j \in 1 .. Len(held) :
             Asking(held[j].act) => act.arg <= held[j].act.arg /\ (j > 1 => act.arg < held[j].act.arg)
      <4> SUFFICES ASSUME NEW j \in 1 .. Len(held), Asking(held[j].act)
                   PROVE  act.arg <= held[j].act.arg /\ (j > 1 => act.arg < held[j].act.arg)
        OBVIOUS
      <4>1. held[j].act.arg \in Nat
        BY HeldTypes
      <4>2. j > 1 => act.arg < held[j].act.arg
        BY <3>2 DEF PromptsInv, GivenInOrder
      <4>3. j = 1 \/ j > 1
        OBVIOUS
      <4> QED
        BY <3>2, <4>1, <4>2, <4>3
    <3>5. \A j \in 1 .. Len(actions) : Asking(actions[j]) => act.arg < actions[j].arg
      BY <3>2 DEF PromptsInv, GivenInOrder
    <3> QED
      BY <1>2, <3>1, <3>3, <3>4, <3>5 DEF PromptsInv, SeenBefore
  <2> QED
    BY <2>1, <2>2
<1>16. OnTheWay'
  BY <1>2, <1>3, <1>4, <1>6, <1>11 DEF PromptsInv, OnTheWay
<1>17. Awaited'
  <2>1. \A k \in 1 .. n - 1 : transit'[k].live =>
           awaiting /\ transit'[k].act = held[1].act /\ reply = "none" /\ ~transit[i].live
    <3> SUFFICES ASSUME NEW k \in 1 .. n - 1, transit'[k].live
                 PROVE  awaiting /\ transit'[k].act = held[1].act /\ reply = "none" /\ ~transit[i].live
      OBVIOUS
    <3>1. at[k] \in 1 .. n /\ at[k] # i /\ transit'[k] = transit[at[k]]
      BY <1>6
    <3> QED
      BY <1>3, <3>1 DEF PromptsInv, Awaited
  <2>2. \A k, l \in 1 .. n - 1 : transit'[k].live /\ transit'[l].live => k = l
    <3> SUFFICES ASSUME NEW k \in 1 .. n - 1, NEW l \in 1 .. n - 1, transit'[k].live, transit'[l].live
                 PROVE  k = l
      OBVIOUS
    <3>1. at[k] = at[l]
      BY <1>3, <1>6 DEF PromptsInv, Awaited
    <3> QED
      BY <1>6, <3>1
  <2>3. reply' # "none" => awaiting /\ (Asking(held[1].act) => held[1].act.arg \in seen' \/ n - 1 = 0)
    <3>1. CASE reply' = reply
      <4>1. transit = <<>> => FALSE
        BY <1>1, <1>3
      <4> QED
        BY <1>11, <3>1, <4>1 DEF PromptsInv, Awaited
    <3>2. CASE reply' # reply
      <4>1. awaiting /\ act = held[1].act
        BY <1>3, <1>7, <1>9, <3>2 DEF PromptsInv, Awaited
      <4> QED
        BY <1>9, <3>2, <4>1
    <3> QED
      BY <3>1, <3>2
  <2>4. n - 1 = 0 => transit' = <<>>
    BY <1>4
  <2> QED
    BY <1>2, <1>4, <1>9, <2>1, <2>2, <2>3, <2>4 DEF PromptsInv, Awaited
<1>18. TakenOnce'
  <2>1. CASE UNCHANGED <<seen, submitted>>
    BY <1>2, <2>1 DEF PromptsInv, TakenOnce, PromptsOnceInOrder
  <2>2. CASE ~UNCHANGED <<seen, submitted>>
    <3>1. /\ Asking(act) /\ act.arg \notin seen /\ seen' = seen \cup {act.arg}
          /\ submitted' = Append(submitted, <<run, act.arg>>)
      BY <1>8, <2>2
    <3>2. act = held[1].act /\ 1 \in 1 .. Len(held) /\ act.arg \in Nat /\ Asking(held[1].act)
      BY <1>12, <3>1
    <3>3. \A s \in seen : s < act.arg
      <4> TAKE s \in seen
      <4>1. s \in Nat /\ s <= act.arg /\ s # act.arg
        BY <1>1, <3>1, <3>2 DEF PromptsInv, SeenBefore
      <4> QED
        BY <3>2, <4>1
    <3>4. PICK m \in Nat : m = Len(submitted)
      BY <1>1
    <3>5. /\ Len(submitted') = m + 1 /\ submitted'[m + 1][1] = run /\ submitted'[m + 1][2] = act.arg
          /\ \A j \in 1 .. m : submitted'[j] = submitted[j]
      BY <1>1, <3>1, <3>4
    <3>6. \A j \in 1 .. m + 1 : j \in 1 .. m \/ j = m + 1
      BY <3>4
    <3>7. \A j \in 1 .. m : submitted[j][1] <= run /\ (submitted[j][1] = run => submitted[j][2] < act.arg)
      BY <3>3, <3>4 DEF PromptsInv, TakenOnce
    <3>8. PromptsOnceInOrder'
      <4> SUFFICES ASSUME NEW j \in 1 .. m + 1, NEW k \in 1 .. m + 1, j < k,
                          submitted'[j][1] = submitted'[k][1]
                   PROVE  submitted'[j][2] < submitted'[k][2]
        BY <3>5 DEF PromptsOnceInOrder
      <4>1. j \in 1 .. m
        OBVIOUS
      <4>2. CASE k = m + 1
        BY <3>5, <3>7, <4>1, <4>2
      <4>3. CASE k \in 1 .. m
        BY <3>4, <3>5, <4>1, <4>3 DEF PromptsInv, TakenOnce, PromptsOnceInOrder
      <4> QED
        BY <3>6, <4>2, <4>3
    <3>9. \A j \in 1 .. m + 1 :
             submitted'[j][1] <= run /\ (submitted'[j][1] = run => submitted'[j][2] \in seen')
      BY <1>1, <3>1, <3>4, <3>5, <3>6 DEF PromptsInv, TakenOnce
    <3> QED
      BY <1>2, <3>5, <3>8, <3>9 DEF TakenOnce
  <2> QED
    BY <2>1, <2>2
<1> QED
  BY <1>13, <1>14, <1>15, <1>16, <1>17, <1>18 DEF PromptsInv

\* A server started again has taken in nothing, and nothing is on its way to it.
LEMMA RestartKeeps == PromptsInv /\ Restart => PromptsInv'
<1> SUFFICES ASSUME PromptsInv, Restart PROVE PromptsInv'
  OBVIOUS
<1>1. /\ run' = run + 1 /\ seen' = {} /\ transit' = <<>>
      /\ UNCHANGED <<submitted, actions, held, awaiting, reply, sent>>
  BY DEF Restart, Restarted, RequestsDie
<1>2. run \in Nat /\ submitted \in Seq(Nat \X Nat)
  BY DEF PromptsInv, RelayTypes
<1>3. RelayTypes'
  <2>1. \A T : <<>> \in Seq(T)
    OBVIOUS
  <2> QED
    BY <1>1, <1>2, <2>1 DEF PromptsInv, RelayTypes
<1>4. GivenInOrder' /\ SeenBefore' /\ OnTheWay'
  BY <1>1 DEF PromptsInv, GivenInOrder, SeenBefore, OnTheWay
<1>5. Awaited'
  BY <1>1 DEF PromptsInv, Awaited
<1>6. TakenOnce'
  <2>1. \A j \in 1 .. Len(submitted) : submitted[j][1] <= run /\ submitted[j][1] \in Nat
    <3> TAKE j \in 1 .. Len(submitted)
    <3>1. submitted[j] \in Nat \X Nat
      BY <1>2
    <3> QED
      BY <3>1 DEF PromptsInv, TakenOnce
  <2>2. \A j \in 1 .. Len(submitted) : submitted[j][1] <= run + 1 /\ submitted[j][1] # run + 1
    BY <1>2, <2>1
  <2> QED
    BY <1>1, <2>2 DEF PromptsInv, TakenOnce, PromptsOnceInOrder
<1> QED
  BY <1>3, <1>4, <1>5, <1>6 DEF PromptsInv
-----------------------------------------------------------------------------
(* The session.  A mirror that shows what it should before a step shows    *)
(* what it should after it, once it has had the events of the step.        *)

ServerInv ==
    /\ log \in Seq(Event) /\ srv \in Screens /\ taken \in Seq(Nat)
    /\ nextId \in Nat /\ crossed \in BOOLEAN
    /\ srv.pending = <<>> \/ \E id \in Nat : srv.pending = <<id>>
    /\ ~srv.working => srv.queue = <<>> /\ taken = <<>> /\ srv.pending = <<>>

ServerStep == Agent \/ \E arg \in Nat : Prompt(arg) \/ AnswerRoute(arg) \/ InterruptRoute
\* Agrees, of the session after the step.
AgreesNext(screen) ==
    /\ screen.working = srv'.working /\ screen.pending = srv'.pending
    /\ ~crossed' => screen.queue = taken' \o srv'.queue
    /\ Len(screen.queue) <= Len(taken') + Len(srv'.queue)
Follows(more) ==
    \A s \in Screens : Agrees(s) =>
        \E h \in [0 .. Len(more) -> Screens] :
            /\ h[0] = s /\ \A k \in 1 .. Len(more) : h[k] = Mirrored(h[k - 1], more[k])
            /\ AgreesNext(h[Len(more)])
Moves == \E more \in Seq(Event) : log' = log \o more /\ Follows(more)

LEMMA WithoutTypes ==
    ASSUME NEW ids \in Seq(Nat), NEW id \in Nat PROVE Without(ids, id) \in Seq(Nat)
<1>1. CASE \E i \in DOMAIN ids : ids[i] = id
  <2>1. PICK i : i = CHOOSE j \in DOMAIN ids : ids[j] = id
    OBVIOUS
  <2>2. i \in 1 .. Len(ids)
    BY <1>1, <2>1
  <2>3. Without(ids, id) = RemoveAt(ids, i)
    BY <1>1, <2>1 DEF Without
  <2> QED
    BY <2>2, <2>3, RemovedAt
<1>2. CASE ~\E i \in DOMAIN ids : ids[i] = id
  BY <1>2 DEF Without
<1> QED
  BY <1>1, <1>2

LEMMA WithoutOne == ASSUME NEW id \in Nat PROVE Without(<<>>, id) = <<>> /\ Without(<<id>>, id) = <<>>
<1>1. DOMAIN <<>> = {} /\ <<id>> \in Seq(Nat) /\ Len(<<id>>) = 1 /\ DOMAIN <<id>> = {1} /\ <<id>>[1] = id
  OBVIOUS
<1>2. Without(<<>>, id) = <<>>
  BY <1>1 DEF Without
<1>3. PICK one : one = <<id>>
  OBVIOUS
<1>4. one \in Seq(Nat) /\ Len(one) = 1 /\ DOMAIN one = {1} /\ one[1] = id
  BY <1>1, <1>3
<1>5. PICK i : i = CHOOSE j \in DOMAIN one : one[j] = id
  OBVIOUS
<1>6. i = 1
  BY <1>4, <1>5
<1>7. Without(one, id) = RemoveAt(one, 1)
  BY <1>4, <1>5, <1>6 DEF Without
<1>8. RemoveAt(one, 1) \in Seq(Nat) /\ Len(RemoveAt(one, 1)) = 0
  <2>1. 1 \in 1 .. Len(one) /\ Len(one) - 1 = 0
    BY <1>4
  <2> QED
    BY <1>4, <2>1, RemovedAt
<1>9. RemoveAt(one, 1) = <<>>
  BY <1>8
<1> QED
  BY <1>2, <1>3, <1>7, <1>9

LEMMA MirroredKinds ==
    ASSUME NEW s, NEW e
    PROVE  /\ e.kind = "user" => Mirrored(s, e) = [s EXCEPT !.working = TRUE, !.queue = Popped(s.queue)]
           /\ e.kind = "steered" => Mirrored(s, e) = [s EXCEPT !.queue = Popped(s.queue)]
           /\ e.kind = "queued" => Mirrored(s, e) =
                [s EXCEPT !.queue = Append(SubSeq(s.queue, 1, IF e.pos - 1 < Len(s.queue)
                                                              THEN e.pos - 1 ELSE Len(s.queue)), e.arg)]
           /\ e.kind = "turnend" => Mirrored(s, e) = [s EXCEPT !.working = s.queue # <<>>]
           /\ e.kind = "approval" => Mirrored(s, e) = [s EXCEPT !.pending = <<e.arg>> \o Without(s.pending, e.arg)]
           /\ e.kind = "resolved" => Mirrored(s, e) = [s EXCEPT !.pending = Without(s.pending, e.arg)]
           /\ e.kind = "text" => Mirrored(s, e) = s
<1>1. e.kind = "user" => Mirrored(s, e) = [s EXCEPT !.working = TRUE, !.queue = Popped(s.queue)]
  BY DEF Mirrored
<1>2. e.kind = "steered" => Mirrored(s, e) = [s EXCEPT !.queue = Popped(s.queue)]
  BY DEF Mirrored
<1>3. e.kind = "queued" => Mirrored(s, e) =
        [s EXCEPT !.queue = Append(SubSeq(s.queue, 1, IF e.pos - 1 < Len(s.queue)
                                                      THEN e.pos - 1 ELSE Len(s.queue)), e.arg)]
  BY DEF Mirrored
<1>4. e.kind = "turnend" => Mirrored(s, e) = [s EXCEPT !.working = s.queue # <<>>]
  BY DEF Mirrored
<1>5. e.kind = "approval" => Mirrored(s, e) = [s EXCEPT !.pending = <<e.arg>> \o Without(s.pending, e.arg)]
  BY DEF Mirrored
<1>6. e.kind = "resolved" => Mirrored(s, e) = [s EXCEPT !.pending = Without(s.pending, e.arg)]
  BY DEF Mirrored
<1>7. e.kind = "text" => Mirrored(s, e) = s
  BY DEF Mirrored
<1> QED
  BY <1>1, <1>2, <1>3, <1>4, <1>5, <1>6, <1>7

LEMMA ScreenQueue ==
    ASSUME NEW s \in Screens, NEW q \in Seq(Nat)
    PROVE  \A now : now = [s EXCEPT !.queue = q] =>
               now \in Screens /\ now.working = s.working /\ now.queue = q /\ now.pending = s.pending
<1>1. PICK Q : Q = Seq(Nat)
  OBVIOUS
<1> QED
  BY <1>1 DEF Screens

LEMMA ScreenWorking ==
    ASSUME NEW s \in Screens, NEW w \in BOOLEAN
    PROVE  \A now : now = [s EXCEPT !.working = w] =>
               now \in Screens /\ now.working = w /\ now.queue = s.queue /\ now.pending = s.pending
<1>1. PICK Q : Q = Seq(Nat)
  OBVIOUS
<1> QED
  BY <1>1 DEF Screens

LEMMA ScreenPending ==
    ASSUME NEW s \in Screens, NEW p \in Seq(Nat)
    PROVE  \A now : now = [s EXCEPT !.pending = p] =>
               now \in Screens /\ now.working = s.working /\ now.queue = s.queue /\ now.pending = p
<1>1. PICK Q : Q = Seq(Nat)
  OBVIOUS
<1> QED
  BY <1>1 DEF Screens

Placed(queue, pos, arg) ==
    Append(SubSeq(queue, 1, IF pos - 1 < Len(queue) THEN pos - 1 ELSE Len(queue)), arg)

\* What each event makes of each part of what is shown.
LEMMA MirroredParts ==
    ASSUME NEW s \in Screens, NEW e \in Event
    PROVE  \A now : now = Mirrored(s, e) =>
           /\ now \in Screens
           /\ e.kind = "user" =>
                now.working = TRUE /\ now.queue = Popped(s.queue) /\ now.pending = s.pending
           /\ e.kind = "steered" =>
                now.working = s.working /\ now.queue = Popped(s.queue) /\ now.pending = s.pending
           /\ e.kind = "queued" => /\ now.working = s.working /\ now.pending = s.pending
                                   /\ now.queue = Placed(s.queue, e.pos, e.arg)
           /\ e.kind = "turnend" => /\ now.working = (s.queue # <<>>)
                                    /\ now.queue = s.queue /\ now.pending = s.pending
           /\ e.kind = "approval" => /\ now.working = s.working /\ now.queue = s.queue
                                     /\ now.pending = <<e.arg>> \o Without(s.pending, e.arg)
           /\ e.kind = "resolved" => /\ now.working = s.working /\ now.queue = s.queue
                                     /\ now.pending = Without(s.pending, e.arg)
           /\ e.kind = "text" => now = s
<1> TAKE now
<1> HAVE now = Mirrored(s, e)
<1>1. /\ s.queue \in Seq(Nat) /\ s.pending \in Seq(Nat) /\ s.working \in BOOLEAN
      /\ e.arg \in Nat /\ e.pos \in Nat
      /\ e.kind \in {"user", "steered", "queued", "turnend", "approval", "resolved", "text"}
  BY DEF Screens, Event
<1>2. PICK q \in Seq(Nat) : q = Popped(s.queue)
  <2>1. CASE s.queue = <<>>
    BY <1>1, <2>1 DEF Popped
  <2>2. CASE s.queue # <<>>
    <3>1. Tail(s.queue) \in Seq(Nat)
      BY <1>1, <2>2, HeadTailProperties
    <3> QED
      BY <2>2, <3>1 DEF Popped
  <2> QED
    BY <2>1, <2>2
<1>3. PICK most \in Int : most = (IF e.pos - 1 < Len(s.queue) THEN e.pos - 1 ELSE Len(s.queue)) /\ most <= Len(s.queue)
  BY <1>1
<1>4. SubSeq(s.queue, 1, most) \in Seq(Nat)
  <2>1. \A i \in 1 .. most : s.queue[i] \in Nat
    BY <1>1, <1>3
  <2> QED
    BY <2>1, SubSeqProperties
<1>5. PICK placed \in Seq(Nat) : placed = Placed(s.queue, e.pos, e.arg)
  <2>1. Placed(s.queue, e.pos, e.arg) = Append(SubSeq(s.queue, 1, most), e.arg)
    BY <1>3 DEF Placed
  <2>2. Append(SubSeq(s.queue, 1, most), e.arg) \in Seq(Nat)
    BY <1>1, <1>4, AppendProperties
  <2> QED
    BY <2>1, <2>2
<1>6. PICK left \in Seq(Nat) : left = Without(s.pending, e.arg)
  BY <1>1, WithoutTypes
<1>7. PICK asked \in Seq(Nat) : asked = <<e.arg>> \o Without(s.pending, e.arg)
  <2>1. <<e.arg>> \in Seq(Nat)
    BY <1>1
  <2> QED
    BY <1>6, <2>1, ConcatProperties
<1>8. PICK more \in BOOLEAN : more = (s.queue # <<>>)
  <2>1. (s.queue # <<>>) = TRUE \/ (s.queue # <<>>) = FALSE
    BY Zenon
  <2> QED
    BY <2>1, Zenon
<1>9. CASE e.kind = "user"
  <2>1. now = [s EXCEPT !.working = TRUE, !.queue = q]
    BY <1>2, <1>9, MirroredKinds
  <2>2. PICK Q : Q = Seq(Nat)
    OBVIOUS
  <2>3. s \in [working : BOOLEAN, queue : Q, pending : Q] /\ q \in Q
    BY <2>2 DEF Screens
  <2>4. now = [working |-> TRUE, queue |-> q, pending |-> s.pending]
    BY <2>1, <2>3
  <2>5. now.working = TRUE /\ now.queue = q /\ now.pending = s.pending
    BY <2>4
  <2>6. now \in Screens
    BY <2>2, <2>3, <2>4 DEF Screens
  <2> QED
    BY <1>2, <1>9, <2>5, <2>6
<1>10. CASE e.kind = "steered"
  <2>1. now = [s EXCEPT !.queue = q]
    BY <1>2, <1>10, MirroredKinds
  <2>2. now \in Screens /\ now.working = s.working /\ now.queue = q /\ now.pending = s.pending
    BY <2>1, ScreenQueue
  <2> QED
    BY <1>2, <1>10, <2>2
<1>11. CASE e.kind = "queued"
  <2>1. now = [s EXCEPT !.queue = placed]
    BY <1>5, <1>11, MirroredKinds, ZenonT(30) DEF Placed
  <2>2. now \in Screens /\ now.working = s.working /\ now.queue = placed /\ now.pending = s.pending
    BY <2>1, ScreenQueue
  <2> QED
    BY <1>5, <1>11, <2>2
<1>12. CASE e.kind = "turnend"
  <2>1. now = [s EXCEPT !.working = more]
    BY <1>8, <1>12, MirroredKinds
  <2>2. now \in Screens /\ now.working = more /\ now.queue = s.queue /\ now.pending = s.pending
    BY <2>1, ScreenWorking
  <2> QED
    BY <1>8, <1>12, <2>2
<1>13. CASE e.kind = "approval"
  <2>1. now = [s EXCEPT !.pending = asked]
    BY <1>7, <1>13, MirroredKinds
  <2>2. now \in Screens /\ now.working = s.working /\ now.queue = s.queue /\ now.pending = asked
    BY <2>1, ScreenPending
  <2> QED
    BY <1>7, <1>13, <2>2
<1>14. CASE e.kind = "resolved"
  <2>1. now = [s EXCEPT !.pending = left]
    BY <1>6, <1>14, MirroredKinds
  <2>2. now \in Screens /\ now.working = s.working /\ now.queue = s.queue /\ now.pending = left
    BY <2>1, ScreenPending
  <2> QED
    BY <1>6, <1>14, <2>2
<1>15. CASE e.kind = "text"
  BY <1>15, MirroredKinds
<1> QED
  BY <1>1, <1>9, <1>10, <1>11, <1>12, <1>13, <1>14, <1>15

\* The same, of one kind of event at a time.
LEMMA MirroredUser ==
    ASSUME NEW s \in Screens, NEW e \in Event, e.kind = "user", NEW now, now = Mirrored(s, e)
    PROVE  /\ now \in Screens
           /\ now.working = TRUE /\ now.queue = Popped(s.queue)
           /\ now.pending = s.pending
BY MirroredParts, ZenonT(60)

LEMMA MirroredSteered ==
    ASSUME NEW s \in Screens, NEW e \in Event, e.kind = "steered", NEW now, now = Mirrored(s, e)
    PROVE  /\ now \in Screens
           /\ now.working = s.working /\ now.queue = Popped(s.queue)
           /\ now.pending = s.pending
BY MirroredParts, ZenonT(60)

LEMMA MirroredPlaced ==
    ASSUME NEW s \in Screens, NEW e \in Event, e.kind = "queued", NEW now, now = Mirrored(s, e)
    PROVE  /\ now \in Screens
           /\ now.working = s.working /\ now.pending = s.pending
           /\ now.queue = Placed(s.queue, e.pos, e.arg)
BY MirroredParts, ZenonT(60)

LEMMA MirroredTurnEnd ==
    ASSUME NEW s \in Screens, NEW e \in Event, e.kind = "turnend", NEW now, now = Mirrored(s, e)
    PROVE  /\ now \in Screens
           /\ now.working = (s.queue # <<>>) /\ now.queue = s.queue
           /\ now.pending = s.pending
BY MirroredParts, ZenonT(60)

LEMMA MirroredApproval ==
    ASSUME NEW s \in Screens, NEW e \in Event, e.kind = "approval", NEW now, now = Mirrored(s, e)
    PROVE  /\ now \in Screens
           /\ now.working = s.working /\ now.queue = s.queue
           /\ now.pending = <<e.arg>> \o Without(s.pending, e.arg)
BY MirroredParts, ZenonT(60)

LEMMA MirroredResolved ==
    ASSUME NEW s \in Screens, NEW e \in Event, e.kind = "resolved", NEW now, now = Mirrored(s, e)
    PROVE  /\ now \in Screens
           /\ now.working = s.working /\ now.queue = s.queue
           /\ now.pending = Without(s.pending, e.arg)
BY MirroredParts, ZenonT(60)

LEMMA NoEvent ==
    ASSUME log \in Seq(Event), log' = log, \A s \in Screens : Agrees(s) => AgreesNext(s)
    PROVE  Moves
<1>1. PICK none : none = <<>>
  OBVIOUS
<1>2. none \in Seq(Event) /\ Len(none) = 0 /\ log' = log \o none
  BY <1>1, ConcatProperties
<1>3. ASSUME NEW s \in Screens, Agrees(s)
      PROVE  \E h \in [0 .. Len(none) -> Screens] :
                /\ h[0] = s /\ \A k \in 1 .. Len(none) : h[k] = Mirrored(h[k - 1], none[k])
                /\ AgreesNext(h[Len(none)])
  <2>1. PICK h : h = [k \in 0 .. 0 |-> s]
    OBVIOUS
  <2>2. h \in [0 .. Len(none) -> Screens] /\ h[0] = s /\ 1 .. Len(none) = {}
    BY <1>2, <2>1
  <2>3. AgreesNext(h[Len(none)])
    BY <1>2, <1>3, <2>2
  <2> QED
    BY <2>2, <2>3
<1>4. Follows(none)
  BY <1>3 DEF Follows
<1> QED
  BY <1>2, <1>4 DEF Moves

LEMMA OneEvent ==
    ASSUME log \in Seq(Event), NEW e \in Event, log' = Append(log, e),
           \A s \in Screens : Agrees(s) => AgreesNext(Mirrored(s, e))
    PROVE  Moves
<1>1. PICK more : more = <<e>>
  OBVIOUS
<1>2. more \in Seq(Event) /\ Len(more) = 1 /\ more[1] = e /\ log' = log \o more
  BY <1>1, AppendProperties
<1>3. ASSUME NEW s \in Screens, Agrees(s)
      PROVE  \E h \in [0 .. Len(more) -> Screens] :
                /\ h[0] = s /\ \A k \in 1 .. Len(more) : h[k] = Mirrored(h[k - 1], more[k])
                /\ AgreesNext(h[Len(more)])
  <2>1. PICK now : now = Mirrored(s, e)
    OBVIOUS
  <2>2. now \in Screens
    BY <2>1, MirroredParts
  <2>3. PICK h : h = [k \in 0 .. 1 |-> IF k = 0 THEN s ELSE now]
    OBVIOUS
  <2>4. h \in [0 .. Len(more) -> Screens] /\ h[0] = s /\ h[1] = now
    BY <1>2, <2>2, <2>3
  <2>5. \A k \in 1 .. Len(more) : k = 1 /\ k - 1 = 0
    BY <1>2
  <2>6. \A k \in 1 .. Len(more) : h[k] = Mirrored(h[k - 1], more[k])
    BY <1>2, <2>1, <2>4, <2>5
  <2>7. AgreesNext(h[Len(more)])
    BY <1>2, <1>3, <2>1, <2>4
  <2> QED
    BY <2>4, <2>6, <2>7
<1>4. Follows(more)
  BY <1>3 DEF Follows
<1> QED
  BY <1>2, <1>4 DEF Moves

LEMMA TwoEvents ==
    ASSUME log \in Seq(Event), NEW e \in Event, NEW f \in Event, log' = log \o <<e, f>>,
           \A s \in Screens : Agrees(s) => AgreesNext(Mirrored(Mirrored(s, e), f))
    PROVE  Moves
<1>1. PICK more : more = <<e, f>>
  OBVIOUS
<1>2. more \in Seq(Event) /\ Len(more) = 2 /\ more[1] = e /\ more[2] = f /\ log' = log \o more
  BY <1>1
<1>3. ASSUME NEW s \in Screens, Agrees(s)
      PROVE  \E h \in [0 .. Len(more) -> Screens] :
                /\ h[0] = s /\ \A k \in 1 .. Len(more) : h[k] = Mirrored(h[k - 1], more[k])
                /\ AgreesNext(h[Len(more)])
  <2>1. PICK mid : mid = Mirrored(s, e)
    OBVIOUS
  <2>2. mid \in Screens
    BY <2>1, MirroredParts
  <2>3. PICK now : now = Mirrored(mid, f)
    OBVIOUS
  <2>4. now \in Screens
    BY <2>2, <2>3, MirroredParts
  <2>5. PICK h : h = [k \in 0 .. 2 |-> IF k = 0 THEN s ELSE IF k = 1 THEN mid ELSE now]
    OBVIOUS
  <2>6. h \in [0 .. Len(more) -> Screens] /\ h[0] = s /\ h[1] = mid /\ h[2] = now
    BY <1>2, <2>2, <2>4, <2>5
  <2>7. \A k \in 1 .. Len(more) : (k = 1 /\ k - 1 = 0) \/ (k = 2 /\ k - 1 = 1)
    BY <1>2
  <2>8. \A k \in 1 .. Len(more) : h[k] = Mirrored(h[k - 1], more[k])
    BY <1>2, <2>1, <2>3, <2>6, <2>7
  <2>9. AgreesNext(now)
    BY <1>3, <2>1, <2>3
  <2> QED
    BY <1>2, <2>6, <2>8, <2>9
<1>4. Follows(more)
  BY <1>3 DEF Follows
<1> QED
  BY <1>2, <1>4 DEF Moves

LEMMA InStepParts ==
    ASSUME NEW s \in Screens, Agrees(s)
    PROVE  /\ s.working = srv.working /\ s.pending = srv.pending
           /\ ~crossed => s.queue = taken \o srv.queue
           /\ Len(s.queue) <= Len(taken) + Len(srv.queue)
           /\ s.queue \in Seq(Nat)
BY DEF Agrees, Screens

LEMMA PoppedIs ==
    ASSUME NEW q \in Seq(Nat)
    PROVE  /\ Popped(q) \in Seq(Nat)
           /\ q = <<>> => Popped(q) = <<>>
           /\ q # <<>> => Popped(q) = Tail(q) /\ Len(Popped(q)) = Len(q) - 1 /\ Len(q) > 0
<1>1. CASE q = <<>>
  BY <1>1 DEF Popped
<1>2. CASE q # <<>>
  BY <1>2, HeadTailProperties, EmptySeq DEF Popped
<1> QED
  BY <1>1, <1>2

LEMMA EvtTypes ==
    ASSUME NEW kind \in {"user", "steered", "queued", "turnend", "approval", "resolved", "text"},
           NEW arg \in Nat, NEW pos \in Nat
    PROVE  /\ Evt(kind, arg) \in Event /\ Evt(kind, arg).kind = kind /\ Evt(kind, arg).arg = arg
           /\ EvtAt(kind, arg, pos) \in Event /\ EvtAt(kind, arg, pos).kind = kind
           /\ EvtAt(kind, arg, pos).arg = arg /\ EvtAt(kind, arg, pos).pos = pos
BY DEF Evt, EvtAt, Event

LEMMA TakesQueueMoves == ServerInv /\ TakesQueue => ServerInv' /\ Moves
<1> SUFFICES ASSUME ServerInv, TakesQueue PROVE ServerInv' /\ Moves
  OBVIOUS
<1>1. /\ srv.working /\ srv.queue \in Seq(Nat) /\ taken \in Seq(Nat) /\ srv \in Screens
      /\ taken' = taken \o srv.queue /\ srv' = [srv EXCEPT !.queue = <<>>]
      /\ log' = log /\ nextId' = nextId /\ crossed' = crossed /\ log \in Seq(Event)
  BY DEF ServerInv, TakesQueue, Screens
<1>2. PICK none \in Seq(Nat) : none = <<>>
  BY EmptySeq
<1>3. srv' \in Screens /\ srv'.working = srv.working /\ srv'.queue = none /\ srv'.pending = srv.pending
  BY <1>1, <1>2, ScreenQueue, ZenonT(30)
<1>4. taken' \in Seq(Nat) /\ Len(taken') = Len(taken) + Len(srv.queue) /\ taken' \o none = taken'
  BY <1>1, <1>2, ConcatProperties, ConcatEmptySeq
<1>5. ServerInv'
  BY <1>1, <1>2, <1>3, <1>4 DEF ServerInv
<1>6. ASSUME NEW s \in Screens, Agrees(s) PROVE AgreesNext(s)
  <2>1. Len(none) = 0 /\ Len(taken') \in Nat
    BY <1>2, <1>4
  <2> QED
    <3>1. /\ s.working = srv.working /\ s.pending = srv.pending
          /\ ~crossed => s.queue = taken \o srv.queue
          /\ Len(s.queue) <= Len(taken) + Len(srv.queue)
      BY <1>6, InStepParts
    <3>2. Len(s.queue) <= Len(taken') + Len(srv'.queue)
      BY <1>1, <1>3, <1>4, <2>1, <3>1
    <3> QED
      BY <1>1, <1>3, <1>4, <3>1, <3>2 DEF AgreesNext
<1>7. Moves
  BY <1>1, <1>6, NoEvent
<1> QED
  BY <1>5, <1>7

LEMMA LandsMoves == ServerInv /\ Lands => ServerInv' /\ Moves
<1> SUFFICES ASSUME ServerInv, Lands PROVE ServerInv' /\ Moves
  OBVIOUS
<1>1. /\ taken # <<>> /\ taken' = Tail(taken) /\ srv' = srv /\ nextId' = nextId /\ crossed' = crossed
      /\ log' = Append(log, Evt("steered", Head(taken)))
      /\ taken \in Seq(Nat) /\ log \in Seq(Event) /\ srv \in Screens /\ srv.queue \in Seq(Nat)
  BY DEF ServerInv, Lands, AgentOnly, Screens
<1>2. /\ Head(taken) \in Nat /\ Tail(taken) \in Seq(Nat) /\ Len(Tail(taken)) = Len(taken) - 1
      /\ Len(taken) > 0
  BY <1>1, HeadTailProperties, EmptySeq
<1>3. PICK e \in Event : e = Evt("steered", Head(taken)) /\ e.kind = "steered"
  BY <1>2, EvtTypes
<1>4. log' \in Seq(Event) /\ log' = Append(log, e)
  BY <1>1, <1>3, AppendProperties
<1>5. ServerInv'
  BY <1>1, <1>2, <1>4 DEF ServerInv
<1>6. ASSUME NEW s \in Screens, Agrees(s) PROVE AgreesNext(Mirrored(s, e))
  <2>1. /\ s.working = srv.working /\ s.pending = srv.pending /\ s.queue \in Seq(Nat)
        /\ ~crossed => s.queue = taken \o srv.queue
        /\ Len(s.queue) <= Len(taken) + Len(srv.queue)
    BY <1>6, InStepParts
  <2>2. PICK now : now = Mirrored(s, e)
    OBVIOUS
  <2>3. now.working = s.working /\ now.queue = Popped(s.queue) /\ now.pending = s.pending
    <3>1. e.kind = "steered"
      BY <1>3
    <3> QED
      BY <2>2, <3>1, MirroredSteered
  <2>4. ~crossed => now.queue = taken' \o srv'.queue
    <3> SUFFICES ASSUME ~crossed PROVE Popped(s.queue) = Tail(taken) \o srv.queue
      BY <1>1, <2>3
    <3>1. s.queue = taken \o srv.queue /\ s.queue # <<>>
      BY <1>1, <1>2, <2>1, SMTT(30)
    <3>2. Tail(taken \o srv.queue) = Tail(taken) \o srv.queue
      BY <1>1, <1>2
    <3> QED
      BY <2>1, <3>1, <3>2, PoppedIs
  <2>5. Len(now.queue) <= Len(taken') + Len(srv'.queue)
    <3>1. Len(Popped(s.queue)) = 0 \/ Len(Popped(s.queue)) = Len(s.queue) - 1
      BY <2>1, PoppedIs
    <3>2. Len(srv.queue) \in Nat /\ Len(taken) \in Nat /\ Len(s.queue) \in Nat
      BY <1>1, <2>1
    <3>3. Len(now.queue) <= (Len(taken) - 1) + Len(srv.queue)
      BY <1>2, <2>1, <2>3, <3>1, <3>2
    <3> QED
      BY <1>1, <1>2, <3>3
  <2> QED
    BY <1>1, <2>1, <2>2, <2>3, <2>4, <2>5 DEF AgreesNext
<1>7. Moves
  BY <1>1, <1>4, <1>6, OneEvent
<1> QED
  BY <1>5, <1>7

LEMMA AsksMoves == ServerInv /\ Asks => ServerInv' /\ Moves
<1> SUFFICES ASSUME ServerInv, Asks PROVE ServerInv' /\ Moves
  OBVIOUS
<1>1. PICK id \in Nat : id = nextId + 1
  BY DEF ServerInv
<1>2. PICK one \in Seq(Nat) : one = <<id>>
  <2>1. <<id>> \in Seq(Nat)
    OBVIOUS
  <2> QED
    BY <2>1
<1>3. /\ srv.working /\ srv.pending = <<>> /\ srv \in Screens /\ srv' = [srv EXCEPT !.pending = one]
      /\ taken' = taken /\ nextId' = id /\ crossed' = crossed
      /\ log' = Append(log, Evt("approval", id)) /\ log \in Seq(Event)
  BY <1>1, <1>2 DEF ServerInv, Asks, AgentOnly
<1>4. srv' \in Screens /\ srv'.working = srv.working /\ srv'.queue = srv.queue /\ srv'.pending = one
  <2>1. srv' = [srv EXCEPT !.pending = one] /\ srv \in Screens
    BY <1>3
  <2> QED
    BY <2>1, ScreenPending
<1>5. PICK e \in Event : e = Evt("approval", id) /\ e.kind = "approval" /\ e.arg = id
  BY <1>1, EvtTypes
<1>6. log' \in Seq(Event) /\ log' = Append(log, e)
  BY <1>3, <1>5, AppendProperties
<1>7. ServerInv'
  BY <1>1, <1>2, <1>3, <1>4, <1>6 DEF ServerInv
<1>8. ASSUME NEW s \in Screens, Agrees(s) PROVE AgreesNext(Mirrored(s, e))
  <2>1. PICK now : now = Mirrored(s, e)
    OBVIOUS
  <2>2. /\ now.working = s.working /\ now.queue = s.queue
        /\ now.pending = <<e.arg>> \o Without(s.pending, e.arg)
    BY <1>5, <2>1, MirroredApproval
  <2>3. Without(s.pending, e.arg) = <<>>
    BY <1>1, <1>3, <1>5, <1>8, InStepParts, WithoutOne
  <2>4. now.pending = one
    BY <1>2, <1>5, <2>2, <2>3, ConcatEmptySeq
  <2> QED
    BY <1>3, <1>4, <1>8, <2>1, <2>2, <2>4, InStepParts DEF AgreesNext
<1>9. Moves
  BY <1>3, <1>6, <1>8, OneEvent
<1> QED
  BY <1>7, <1>9

LEMMA AnswerMoves == ASSUME NEW id \in Nat PROVE ServerInv /\ AnswerRoute(id) => ServerInv' /\ Moves
<1> SUFFICES ASSUME ServerInv, AnswerRoute(id) PROVE ServerInv' /\ Moves
  OBVIOUS
<1>1. taken' = taken /\ nextId' = nextId /\ crossed' = crossed /\ log \in Seq(Event) /\ srv \in Screens
  BY DEF ServerInv, AnswerRoute
<1>2. CASE AnswerTakes(id)
  <2>1. /\ srv' = [srv EXCEPT !.pending = Tail(srv.pending)]
        /\ log' = Append(log, Evt("resolved", id))
    BY <1>2 DEF AnswerRoute
  <2>2. PICK it \in Nat : srv.pending = <<it>>
    BY <1>2 DEF ServerInv, AnswerTakes
  <2>3. it = id /\ Tail(srv.pending) = <<>>
    BY <1>2, <2>2 DEF AnswerTakes
  <2>4. PICK none \in Seq(Nat) : none = <<>>
    BY EmptySeq
  <2>5. srv' \in Screens /\ srv'.working = srv.working /\ srv'.queue = srv.queue /\ srv'.pending = none
    <3>1. srv' = [srv EXCEPT !.pending = none] /\ srv \in Screens
      BY <1>1, <2>1, <2>3, <2>4
    <3> QED
      BY <3>1, ScreenPending
  <2>6. PICK e \in Event : e = Evt("resolved", id) /\ e.kind = "resolved" /\ e.arg = id
    BY EvtTypes
  <2>7. log' \in Seq(Event) /\ log' = Append(log, e)
    BY <1>1, <2>1, <2>6, AppendProperties
  <2>8. ServerInv'
    BY <1>1, <2>4, <2>5, <2>7 DEF ServerInv
  <2>9. ASSUME NEW s \in Screens, Agrees(s) PROVE AgreesNext(Mirrored(s, e))
    <3>1. PICK now : now = Mirrored(s, e)
      OBVIOUS
    <3>2. now.working = s.working /\ now.queue = s.queue /\ now.pending = Without(s.pending, e.arg)
      BY <2>6, <3>1, MirroredResolved
    <3>3. Without(s.pending, e.arg) = <<>>
      BY <2>2, <2>3, <2>6, <2>9, InStepParts, WithoutOne
    <3> QED
      BY <1>1, <2>4, <2>5, <2>9, <3>1, <3>2, <3>3, InStepParts DEF AgreesNext
  <2>10. Moves
    BY <1>1, <2>7, <2>9, OneEvent
  <2> QED
    BY <2>8, <2>10
<1>3. CASE ~AnswerTakes(id)
  <2>1. srv' = srv /\ log' = log
    BY <1>3 DEF AnswerRoute
  <2>2. ServerInv'
    BY <1>1, <2>1 DEF ServerInv
  <2>3. \A s \in Screens : Agrees(s) => AgreesNext(s)
    BY <1>1, <2>1 DEF Agrees, AgreesNext
  <2>4. Moves
    BY <1>1, <2>1, <2>3, NoEvent
  <2> QED
    BY <2>2, <2>4
<1> QED
  BY <1>2, <1>3

LEMMA Pair == ASSUME NEW S, NEW e \in S, NEW f \in S PROVE <<e>> \o <<f>> = <<e, f>>
<1>1. PICK a : a = <<e>>
  OBVIOUS
<1>2. PICK b : b = <<f>>
  OBVIOUS
<1>3. a \in Seq(S) /\ b \in Seq(S) /\ Len(a) = 1 /\ Len(b) = 1 /\ a[1] = e /\ b[1] = f
  BY <1>1, <1>2
<1>4. PICK two : two = a \o b
  OBVIOUS
<1>5. two \in Seq(S) /\ Len(two) = 2 /\ two[1] = e /\ two[2] = f
  BY <1>3, <1>4, ConcatProperties
<1>6. PICK lit : lit = <<e, f>>
  OBVIOUS
<1>7. lit \in Seq(S) /\ Len(lit) = 2 /\ lit[1] = e /\ lit[2] = f
  BY <1>6
<1>8. \A i \in 1 .. Len(two) : two[i] = lit[i]
  <2>1. \A i \in 1 .. Len(two) : i = 1 \/ i = 2
    BY <1>5
  <2> QED
    BY <1>5, <1>7, <2>1
<1>9. two = lit
  BY <1>5, <1>7, <1>8, SeqEqual
<1> QED
  BY <1>1, <1>2, <1>4, <1>6, <1>9

LEMMA PromptMoves == ASSUME NEW p \in Nat PROVE ServerInv /\ Prompt(p) => ServerInv' /\ Moves
<1> SUFFICES ASSUME ServerInv, Prompt(p) PROVE ServerInv' /\ Moves
  OBVIOUS
<1>1. /\ taken' = taken /\ nextId' = nextId /\ log \in Seq(Event) /\ srv \in Screens
      /\ taken \in Seq(Nat) /\ srv.queue \in Seq(Nat) /\ crossed \in BOOLEAN
  BY DEF ServerInv, Prompt, Screens
<1>2. CASE p \in seen /\ UNCHANGED <<srv, log, seen, submitted, crossed>>
  <2>1. ServerInv'
    BY <1>1, <1>2 DEF ServerInv
  <2>2. \A s \in Screens : Agrees(s) => AgreesNext(s)
    BY <1>1, <1>2 DEF Agrees, AgreesNext
  <2>3. log' = log
    BY <1>2
  <2>4. Moves
    BY <1>1, <2>2, <2>3, NoEvent
  <2> QED
    BY <2>1, <2>4
<1>3. CASE Admitted(p) /\ srv.working
  <2>1. PICK place \in Nat : place = Len(srv.queue) + 1
    BY <1>1
  <2>2. /\ srv' = [srv EXCEPT !.queue = Append(srv.queue, p)]
        /\ log' = Append(log, EvtAt("queued", p, place))
        /\ crossed' = (crossed \/ taken # <<>>)
    BY <1>3, <2>1 DEF Admitted
  <2>3. /\ Append(srv.queue, p) \in Seq(Nat) /\ Len(Append(srv.queue, p)) = Len(srv.queue) + 1
    BY <1>1, AppendProperties
  <2>4. PICK longer \in Seq(Nat) : longer = Append(srv.queue, p)
    BY <2>3
  <2>5. /\ srv' \in Screens /\ srv'.working = srv.working /\ srv'.queue = longer
        /\ srv'.pending = srv.pending
    <3>1. srv' = [srv EXCEPT !.queue = longer] /\ srv \in Screens
      BY <1>1, <2>2, <2>4
    <3> QED
      BY <3>1, ScreenQueue
  <2>6. PICK e \in Event : e = EvtAt("queued", p, place) /\ e.kind = "queued" /\ e.arg = p /\ e.pos = place
    BY EvtTypes
  <2>7. log' \in Seq(Event) /\ log' = Append(log, e)
    BY <1>1, <2>2, <2>6, AppendProperties
  <2>8. crossed' \in BOOLEAN
    BY <2>2, Zenon
  <2>9. ServerInv'
    BY <1>1, <1>3, <2>5, <2>7, <2>8 DEF ServerInv
  <2>10. ASSUME NEW s \in Screens, Agrees(s) PROVE AgreesNext(Mirrored(s, e))
    <3>1. /\ s.working = srv.working /\ s.pending = srv.pending /\ s.queue \in Seq(Nat)
          /\ ~crossed => s.queue = taken \o srv.queue
          /\ Len(s.queue) <= Len(taken) + Len(srv.queue)
      BY <2>10, InStepParts
    <3>2. PICK now : now = Mirrored(s, e)
      OBVIOUS
    <3>3. /\ now.working = s.working /\ now.pending = s.pending /\ now.queue = Placed(s.queue, place, p)
      <4>1. e.kind = "queued" /\ e.arg = p /\ e.pos = place
        BY <2>6
      <4>2. now.working = s.working /\ now.pending = s.pending /\ now.queue = Placed(s.queue, e.pos, e.arg)
        BY <3>2, <4>1, MirroredPlaced
      <4> QED
        BY <4>1, <4>2
    <3>4. PICK most \in Nat : /\ most = (IF place - 1 < Len(s.queue) THEN place - 1 ELSE Len(s.queue))
                              /\ most <= Len(s.queue) /\ most <= Len(srv.queue)
      <4>1. Len(s.queue) \in Nat /\ Len(srv.queue) \in Nat /\ place - 1 = Len(srv.queue)
        BY <1>1, <2>1, <3>1
      <4>2. CASE place - 1 < Len(s.queue)
        BY <4>1, <4>2
      <4>3. CASE ~(place - 1 < Len(s.queue))
        BY <4>1, <4>3
      <4> QED
        BY <4>2, <4>3
    <3>5. now.queue = Append(SubSeq(s.queue, 1, most), p)
      BY <3>3, <3>4 DEF Placed
    <3>6. SubSeq(s.queue, 1, most) \in Seq(Nat) /\ Len(SubSeq(s.queue, 1, most)) = most
      <4>1. \A i \in 1 .. most : s.queue[i] \in Nat
        BY <3>1, <3>4
      <4>2. Len(SubSeq(s.queue, 1, most)) = IF 1 <= most THEN most - 1 + 1 ELSE 0
        BY <3>1, <3>4, <4>1, SubSeqProperties
      <4> QED
        BY <3>4, <4>1, <4>2, SubSeqProperties
    <3>7. Len(now.queue) = most + 1
      BY <3>5, <3>6, AppendProperties
    <3>8. Len(now.queue) <= Len(taken') + Len(srv'.queue)
      BY <1>1, <2>3, <2>4, <2>5, <3>4, <3>7
    <3>9. ~crossed' => now.queue = taken' \o srv'.queue
      <4> SUFFICES ASSUME ~crossed' PROVE now.queue = taken \o longer
        BY <1>1, <2>5
      <4>1. ~crossed /\ taken = <<>>
        BY <2>2
      <4>2. s.queue = srv.queue
        BY <1>1, <3>1, <4>1, ConcatEmptySeq
      <4>3. most = Len(srv.queue)
        BY <1>1, <2>1, <3>4, <4>2
      <4>4. SubSeq(s.queue, 1, most) = srv.queue
        BY <1>1, <4>2, <4>3, SubSeqFull
      <4> QED
        BY <2>4, <3>5, <4>1, <4>4, ConcatEmptySeq
    <3> QED
      BY <2>5, <3>1, <3>2, <3>3, <3>8, <3>9 DEF AgreesNext
  <2>11. Moves
    BY <1>1, <2>7, <2>10, OneEvent
  <2> QED
    BY <2>9, <2>11
<1>4. CASE Admitted(p) /\ ~srv.working
  <2>1. srv' = [srv EXCEPT !.working = TRUE] /\ log' = Append(log, Evt("user", p)) /\ crossed' = crossed
    BY <1>4 DEF Admitted
  <2>2. srv.queue = <<>> /\ taken = <<>> /\ srv.pending = <<>>
    BY <1>4 DEF ServerInv
  <2>3. /\ srv' \in Screens /\ srv'.working = TRUE /\ srv'.queue = srv.queue
        /\ srv'.pending = srv.pending
    <3>1. srv' = [srv EXCEPT !.working = TRUE] /\ srv \in Screens /\ TRUE \in BOOLEAN
      BY <1>1, <2>1
    <3> QED
      BY <3>1, ScreenWorking
  <2>4. PICK e \in Event : e = Evt("user", p) /\ e.kind = "user"
    BY EvtTypes
  <2>5. log' \in Seq(Event) /\ log' = Append(log, e)
    BY <1>1, <2>1, <2>4, AppendProperties
  <2>6. ServerInv'
    BY <1>1, <2>1, <2>2, <2>3, <2>5 DEF ServerInv
  <2>7. ASSUME NEW s \in Screens, Agrees(s) PROVE AgreesNext(Mirrored(s, e))
    <3>1. /\ s.working = srv.working /\ s.pending = srv.pending /\ s.queue \in Seq(Nat)
          /\ Len(s.queue) <= Len(taken) + Len(srv.queue)
      BY <2>7, InStepParts
    <3>2. s.queue = <<>>
      <4>1. Len(taken) = 0 /\ Len(srv.queue) = 0
        BY <2>2
      <4>2. Len(s.queue) = 0
        BY <3>1, <4>1
      <4> QED
        BY <3>1, <4>2, EmptySeq
    <3>3. PICK now : now = Mirrored(s, e)
      OBVIOUS
    <3>4. now.working = TRUE /\ now.pending = s.pending /\ now.queue = Popped(s.queue)
      <4>1. e.kind = "user"
        BY <2>4
      <4> QED
        BY <3>3, <4>1, MirroredUser
    <3>5. now.queue = <<>>
      BY <3>1, <3>2, <3>4, PoppedIs
    <3>6. taken' \o srv'.queue = <<>> /\ Len(now.queue) <= Len(taken') + Len(srv'.queue)
      BY <1>1, <2>2, <2>3, <3>5
    <3> QED
      BY <2>3, <3>1, <3>3, <3>4, <3>5, <3>6 DEF AgreesNext
  <2>8. Moves
    BY <1>1, <2>5, <2>7, OneEvent
  <2> QED
    BY <2>6, <2>8
<1>5. (p \in seen /\ UNCHANGED <<srv, log, seen, submitted, crossed>>) \/ Admitted(p)
  BY DEF Prompt
<1> QED
  BY <1>2, <1>3, <1>4, <1>5

LEMMA InterruptMoves == ServerInv /\ InterruptRoute => ServerInv' /\ Moves
<1> SUFFICES ASSUME ServerInv, InterruptRoute PROVE ServerInv' /\ Moves
  OBVIOUS
<1>1. taken' = taken /\ nextId' = nextId /\ crossed' = crossed /\ log \in Seq(Event) /\ srv \in Screens
  BY DEF ServerInv, InterruptRoute
<1>2. CASE ~srv.working
  <2>1. srv' = srv /\ log' = log
    BY <1>2 DEF InterruptRoute
  <2>2. ServerInv'
    BY <1>1, <2>1 DEF ServerInv
  <2>3. \A s \in Screens : Agrees(s) => AgreesNext(s)
    BY <1>1, <2>1 DEF Agrees, AgreesNext
  <2>4. Moves
    BY <1>1, <2>1, <2>3, NoEvent
  <2> QED
    BY <2>2, <2>4
<1>3. CASE srv.working
  <2>1. PICK none \in Seq(Nat) : none = <<>>
    BY EmptySeq
  <2>2. PICK f \in Event : f = Evt("text", 0) /\ f.kind = "text"
    BY EvtTypes
  <2>3. PICK rejected : rejected = [i \in 1 .. Len(srv.pending) |-> Evt("resolved", srv.pending[i])]
    OBVIOUS
  <2>4. srv' = [srv EXCEPT !.pending = none] /\ log' = log \o rejected \o <<f>>
    BY <1>3, <2>1, <2>2, <2>3 DEF InterruptRoute
  <2>5. /\ srv' \in Screens /\ srv'.working = srv.working /\ srv'.queue = srv.queue
        /\ srv'.pending = none
    <3>1. srv' = [srv EXCEPT !.pending = none] /\ srv \in Screens
      BY <1>1, <2>4
    <3> QED
      BY <3>1, ScreenPending
  <2>6. CASE srv.pending = <<>>
    <3>1. rejected = <<>>
      BY <2>3, <2>6
    <3>2. log' = Append(log, f) /\ log' \in Seq(Event)
      <4>1. log \o rejected = log
        BY <1>1, <3>1, ConcatEmptySeq
      <4> QED
        BY <1>1, <2>4, <4>1, AppendProperties
    <3>3. ServerInv'
      BY <1>1, <1>3, <2>1, <2>5, <3>2 DEF ServerInv
    <3>4. ASSUME NEW s \in Screens, Agrees(s) PROVE AgreesNext(Mirrored(s, f))
      <4>1. Mirrored(s, f) = s
        BY <2>2, MirroredParts
      <4> QED
        BY <1>1, <2>1, <2>5, <2>6, <3>4, <4>1 DEF Agrees, AgreesNext
    <3>5. Moves
      BY <1>1, <3>2, <3>4, OneEvent
    <3> QED
      BY <3>3, <3>5
  <2>7. CASE srv.pending # <<>>
    <3>1. PICK id \in Nat : srv.pending = <<id>>
      BY <2>7 DEF ServerInv
    <3>2. PICK e \in Event : e = Evt("resolved", id) /\ e.kind = "resolved" /\ e.arg = id
      BY EvtTypes
    <3>3. rejected = <<e>>
      <4>1. Len(srv.pending) = 1 /\ srv.pending[1] = id
        BY <3>1
      <4> QED
        BY <2>3, <3>2, <4>1
    <3>4. log' = log \o <<e, f>> /\ log' \in Seq(Event)
      <4>1. <<e>> \o <<f>> = <<e, f>> /\ <<e>> \in Seq(Event) /\ <<f>> \in Seq(Event)
        <5>1. <<e>> \in Seq(Event)
          OBVIOUS
        <5>2. <<f>> \in Seq(Event)
          OBVIOUS
        <5>3. <<e>> \o <<f>> = <<e, f>>
          BY Pair
        <5> QED
          BY <5>1, <5>2, <5>3
      <4>2. log \o <<e>> \o <<f>> = log \o (<<e>> \o <<f>>)
        BY <1>1, <4>1, ConcatAssociative
      <4> QED
        BY <1>1, <2>4, <3>3, <4>1, <4>2, ConcatProperties
    <3>5. ServerInv'
      BY <1>1, <1>3, <2>1, <2>5, <3>4 DEF ServerInv
    <3>6. ASSUME NEW s \in Screens, Agrees(s) PROVE AgreesNext(Mirrored(Mirrored(s, e), f))
      <4>1. PICK now : now = Mirrored(s, e)
        OBVIOUS
      <4>2. /\ now \in Screens /\ now.working = s.working /\ now.queue = s.queue
            /\ now.pending = Without(s.pending, e.arg)
        <5>1. e.kind = "resolved"
          BY <3>2
        <5> QED
          BY <4>1, <5>1, MirroredResolved
      <4>3. Mirrored(now, f) = now
        BY <2>2, <4>2, MirroredParts
      <4>4. Without(s.pending, e.arg) = <<>>
        BY <3>1, <3>2, <3>6, InStepParts, WithoutOne
      <4> QED
        BY <1>1, <2>1, <2>5, <3>6, <4>1, <4>2, <4>3, <4>4, InStepParts DEF AgreesNext
    <3>7. Moves
      BY <1>1, <3>4, <3>6, TwoEvents
    <3> QED
      BY <3>5, <3>7
  <2> QED
    BY <2>6, <2>7
<1> QED
  BY <1>2, <1>3

LEMMA TurnEndsMoves == ServerInv /\ TurnEnds => ServerInv' /\ Moves
<1> SUFFICES ASSUME ServerInv, TurnEnds PROVE ServerInv' /\ Moves
  OBVIOUS
<1>1. /\ taken' = taken /\ nextId' = nextId /\ taken = <<>> /\ srv.pending = <<>> /\ srv.working
      /\ log \in Seq(Event) /\ srv \in Screens /\ srv.queue \in Seq(Nat) /\ crossed \in BOOLEAN
  BY DEF ServerInv, TurnEnds, AgentOnly, Screens
<1>2. PICK e \in Event : e = Evt("turnend", 0) /\ e.kind = "turnend"
  BY EvtTypes
<1>3. ASSUME NEW s \in Screens, Agrees(s), NEW mid, mid = Mirrored(s, e)
      PROVE  /\ mid \in Screens /\ mid.working = (s.queue # <<>>) /\ mid.queue = s.queue
             /\ mid.pending = s.pending /\ s.pending = srv.pending /\ s.queue \in Seq(Nat)
             /\ Len(s.queue) <= Len(srv.queue)
             /\ ~crossed => s.queue = srv.queue
  <2>1. e.kind = "turnend"
    BY <1>2
  <2>2. /\ mid \in Screens /\ mid.working = (s.queue # <<>>) /\ mid.queue = s.queue
        /\ mid.pending = s.pending
    BY <1>3, <2>1, MirroredTurnEnd
  <2>3. /\ s.pending = srv.pending /\ s.queue \in Seq(Nat)
        /\ ~crossed => s.queue = taken \o srv.queue
        /\ Len(s.queue) <= Len(taken) + Len(srv.queue)
    BY <1>3, InStepParts
  <2>4. Len(taken) = 0 /\ taken \o srv.queue = srv.queue
    BY <1>1, ConcatEmptySeq
  <2> QED
    BY <1>1, <2>2, <2>3, <2>4
<1>4. CASE srv.queue = <<>>
  <2>1. /\ srv' = [srv EXCEPT !.working = FALSE] /\ log' = Append(log, e) /\ crossed' = FALSE
    BY <1>2, <1>4 DEF TurnEnds
  <2>2. /\ srv' \in Screens /\ srv'.working = FALSE /\ srv'.queue = srv.queue
        /\ srv'.pending = srv.pending
    <3>1. srv' = [srv EXCEPT !.working = FALSE] /\ srv \in Screens /\ FALSE \in BOOLEAN
      BY <1>1, <2>1
    <3> QED
      BY <3>1, ScreenWorking
  <2>3. log' \in Seq(Event)
    BY <1>1, <2>1, AppendProperties
  <2>4. ServerInv'
    BY <1>1, <1>4, <2>1, <2>2, <2>3 DEF ServerInv
  <2>5. ASSUME NEW s \in Screens, Agrees(s) PROVE AgreesNext(Mirrored(s, e))
    <3>1. PICK mid : mid = Mirrored(s, e)
      OBVIOUS
    <3>2. /\ mid.working = (s.queue # <<>>) /\ mid.queue = s.queue
          /\ mid.pending = srv.pending /\ s.queue \in Seq(Nat)
          /\ Len(s.queue) <= Len(srv.queue)
      BY <1>3, <2>5, <3>1
    <3>3. Len(srv.queue) = 0 /\ Len(s.queue) = 0
      BY <1>4, <3>2
    <3>4. s.queue = <<>>
      BY <3>2, <3>3, EmptySeq
    <3>5. mid.queue = taken' \o srv'.queue /\ Len(mid.queue) <= Len(taken') + Len(srv'.queue)
      BY <1>1, <1>4, <2>2, <3>2, <3>4
    <3> QED
      BY <2>2, <3>1, <3>2, <3>4, <3>5 DEF AgreesNext
  <2>6. Moves
    BY <1>1, <2>1, <2>5, OneEvent
  <2> QED
    BY <2>4, <2>6
<1>5. CASE srv.queue # <<>>
  <2>1. /\ Head(srv.queue) \in Nat /\ Tail(srv.queue) \in Seq(Nat)
        /\ Len(Tail(srv.queue)) = Len(srv.queue) - 1 /\ Len(srv.queue) > 0
    BY <1>1, <1>5, HeadTailProperties, EmptySeq
  <2>2. PICK rest \in Seq(Nat) : rest = Tail(srv.queue)
    BY <2>1
  <2>3. PICK f \in Event : f = Evt("user", Head(srv.queue)) /\ f.kind = "user"
    BY <2>1, EvtTypes
  <2>4. srv' = [srv EXCEPT !.queue = rest] /\ log' = log \o <<e, f>> /\ crossed' = crossed
    BY <1>2, <1>5, <2>2, <2>3 DEF TurnEnds
  <2>5. /\ srv' \in Screens /\ srv'.working = srv.working /\ srv'.queue = rest
        /\ srv'.pending = srv.pending
    <3>1. srv' = [srv EXCEPT !.queue = rest] /\ srv \in Screens
      BY <1>1, <2>4
    <3> QED
      BY <3>1, ScreenQueue
  <2>6. log' \in Seq(Event)
    <3>1. <<e, f>> \in Seq(Event)
      OBVIOUS
    <3> QED
      BY <1>1, <2>4, <3>1, ConcatProperties
  <2>7. ServerInv'
    BY <1>1, <2>4, <2>5, <2>6 DEF ServerInv
  <2>8. ASSUME NEW s \in Screens, Agrees(s) PROVE AgreesNext(Mirrored(Mirrored(s, e), f))
    <3>1. PICK mid : mid = Mirrored(s, e)
      OBVIOUS
    <3>2. /\ mid \in Screens /\ mid.queue = s.queue /\ mid.pending = srv.pending
          /\ s.queue \in Seq(Nat) /\ Len(s.queue) <= Len(srv.queue)
          /\ ~crossed => s.queue = srv.queue
      BY <1>3, <2>8, <3>1
    <3>3. PICK now : now = Mirrored(mid, f)
      OBVIOUS
    <3>4. now.working = TRUE /\ now.queue = Popped(mid.queue) /\ now.pending = mid.pending
      <4>1. f.kind = "user"
        BY <2>3
      <4> QED
        <5>1. mid \in Screens
          BY <3>2
        <5> QED
          BY <3>3, <4>1, <5>1, MirroredUser
    <3>5. Len(Popped(s.queue)) <= Len(srv.queue) - 1
      <4>1. CASE s.queue = <<>>
        <5>1. Popped(s.queue) = <<>>
          BY <3>2, <4>1, PoppedIs
        <5>2. Len(Popped(s.queue)) = 0
          BY <5>1
        <5> QED
          BY <1>1, <2>1, <5>2
      <4>2. CASE s.queue # <<>>
        BY <1>1, <2>1, <3>2, <4>2, PoppedIs
      <4> QED
        BY <4>1, <4>2
    <3>6. Len(now.queue) <= Len(taken') + Len(srv'.queue)
      BY <1>1, <2>1, <2>2, <2>5, <3>2, <3>4, <3>5
    <3>7. ~crossed' => now.queue = taken' \o srv'.queue
      <4> SUFFICES ASSUME ~crossed' PROVE Popped(s.queue) = rest
        BY <1>1, <2>5, <3>2, <3>4, ConcatEmptySeq
      <4>1. s.queue = srv.queue
        BY <2>4, <3>2
      <4> QED
        BY <1>5, <2>2, <3>2, <4>1, PoppedIs
    <3> QED
      BY <1>1, <2>5, <3>1, <3>2, <3>3, <3>4, <3>6, <3>7 DEF AgreesNext
  <2>9. Moves
    BY <1>1, <2>4, <2>8, TwoEvents
  <2> QED
    BY <2>7, <2>9
<1> QED
  BY <1>4, <1>5

LEMMA AgentMoves == ServerInv /\ Agent => ServerInv' /\ Moves
<1> SUFFICES ASSUME ServerInv, Agent PROVE ServerInv' /\ Moves
  OBVIOUS
<1>1. CASE AnsweredThere
  <2>1. PICK id \in Nat : srv.pending = <<id>>
    BY <1>1 DEF AnsweredThere, ServerInv
  <2>2. Head(srv.pending) = id
    BY <2>1
  <2>3. AnswerRoute(id)
    BY <1>1, <2>2 DEF AnsweredThere, AnswerRoute, AnswerTakes
  <2> QED
    BY <2>3, AnswerMoves
<1> QED
  BY <1>1, TakesQueueMoves, LandsMoves, AsksMoves, TurnEndsMoves DEF Agent
-----------------------------------------------------------------------------
(* The mirror.  The numbers on the wire go on from one another, but for    *)
(* where a lag is noted; the first is no further than the one after what   *)
(* was seen; and from there the events still to come lead to what the      *)
(* session has.                                                            *)

MirrorTypes ==
    /\ wire \in Seq(Nat) /\ view \in Screens /\ snapView \in Screens
    /\ shown \in Seq(Nat \X Nat) /\ up \in BOOLEAN
    /\ cursor \in Nat /\ after \in Nat /\ snapSeq \in Nat
    /\ run \in Nat /\ seeded \in Nat /\ seeded <= run
OnTheWire ==
    /\ \A i \in 1 .. Len(wire) : wire[i] <= Latest
    /\ \A i \in 1 .. Len(wire) - 1 : wire[i] # 0 /\ wire[i + 1] # 0 => wire[i + 1] = wire[i] + 1
    /\ ~cut /\ wire # <<>> => wire[Len(wire)] = cursor /\ cursor > 0
    /\ follow \in {"down", "conflict"} => wire = <<>>
    /\ ~cut /\ follow \in {"open", "lagged"} => cursor <= Latest
Places ==
    /\ ~cut /\ follow = "lagged" => wire # <<>>
    /\ InStep /\ follow = "open" /\ wire # <<>> => wire[1] <= after + 1
    /\ InStep /\ follow = "open" /\ ~cut /\ wire = <<>> => cursor <= after
    /\ stage \in {"seq", "state"} =>
          Asked /\ snapSeq <= Latest /\ (wire # <<>> => wire[1] <= snapSeq + 1)
Leads(screen, from) ==
    \E g \in [from .. Latest -> Screens] :
        /\ g[from] = screen /\ \A n \in from + 1 .. Latest : g[n] = Mirrored(g[n - 1], log[n])
        /\ Agrees(g[Latest])
ViewFollows ==
    InStep => /\ after <= Latest
              /\ \A n \in 1 .. after : \E k \in 1 .. Len(shown) : shown[k] = <<run, n>>
              /\ ~raced => shown = [n \in 1 .. after |-> <<run, n>>] /\ Leads(view, after)
SnapFits == stage = "state" /\ ~snapTaken /\ snapSeq = Latest => Agrees(snapView)
MirrorInv == MirrorTypes /\ OnTheWire /\ Places /\ ViewFollows /\ SnapFits

LEMMA LeadsStays ==
    ASSUME NEW s, NEW n, Leads(s, n), UNCHANGED <<log, srv, taken, crossed>>
    PROVE  Leads(s, n)'
BY DEF Leads, Agrees, Latest

\* The session goes on: nothing of the mirror changes.
LEMMA ServerKeepsMirror ==
    ASSUME MirrorInv, ServerInv, Moves, UNCHANGED <<run, followVars>>
    PROVE  MirrorInv'
<1>1. UNCHANGED <<follow, cut, cursor, wire, after, up, stage, snapSeq, snapView,
                  snapTaken, view, shown, faults, seeded, gap, raced, run>>
  BY DEF followVars
<1>2. PICK more \in Seq(Event) : log' = log \o more /\ Follows(more)
  BY DEF Moves
<1>3. log \in Seq(Event)
  BY DEF ServerInv
<1>4. PICK size \in Nat : size = Len(more)
  BY <1>2
<1>5. Latest \in Nat /\ Latest' = Latest + size /\ Latest' >= Latest /\ Latest' \in Nat
  BY <1>2, <1>3, <1>4, ConcatProperties DEF Latest
<1>6. MirrorTypes'
  BY <1>1 DEF MirrorInv, MirrorTypes
<1>7. OnTheWire'
  <2>1. \A i \in 1 .. Len(wire) : wire[i] \in Nat
    BY DEF MirrorInv, MirrorTypes
  <2>2. cursor \in Nat
    BY DEF MirrorInv, MirrorTypes
  <2>3. \A i \in 1 .. Len(wire) : wire[i] <= Latest'
    BY <1>5, <2>1 DEF MirrorInv, OnTheWire
  <2>4. ~cut /\ follow \in {"open", "lagged"} => cursor <= Latest'
    BY <1>5, <2>2 DEF MirrorInv, OnTheWire
  <2>5. wire' = wire /\ cut' = cut /\ cursor' = cursor /\ follow' = follow
    BY <1>1
  <2>6. /\ \A i \in 1 .. Len(wire) - 1 : wire[i] # 0 /\ wire[i + 1] # 0 => wire[i + 1] = wire[i] + 1
        /\ ~cut /\ wire # <<>> => wire[Len(wire)] = cursor /\ cursor > 0
        /\ follow \in {"down", "conflict"} => wire = <<>>
    BY DEF MirrorInv, OnTheWire
  <2> QED
    BY <2>3, <2>4, <2>5, <2>6 DEF OnTheWire
<1>8. Places'
  <2>1. stage \in {"seq", "state"} => Asked /\ snapSeq <= Latest' /\ (wire # <<>> => wire[1] <= snapSeq + 1)
    BY <1>5 DEF MirrorInv, MirrorTypes, Places
  <2> QED
    BY <1>1, <2>1 DEF MirrorInv, Places, InStep, Asked
<1>9. ViewFollows'
  <2> SUFFICES ASSUME InStep
               PROVE  /\ after <= Latest'
                      /\ \A n \in 1 .. after : \E k \in 1 .. Len(shown) : shown[k] = <<run, n>>
                      /\ ~raced => shown = [n \in 1 .. after |-> <<run, n>>] /\ Leads(view, after)'
    BY <1>1 DEF ViewFollows, InStep
  <2>1. /\ after <= Latest /\ after \in Nat
        /\ \A n \in 1 .. after : \E k \in 1 .. Len(shown) : shown[k] = <<run, n>>
        /\ ~raced => shown = [n \in 1 .. after |-> <<run, n>>] /\ Leads(view, after)
    BY DEF MirrorInv, ViewFollows, MirrorTypes
  <2>2. after <= Latest'
    BY <1>5, <2>1
  <2>3. ASSUME Leads(view, after) PROVE Leads(view, after)'
    <3>1. PICK g \in [after .. Latest -> Screens] :
             /\ g[after] = view /\ \A n \in after + 1 .. Latest : g[n] = Mirrored(g[n - 1], log[n])
             /\ Agrees(g[Latest])
      BY <2>3 DEF Leads
    <3>2. g[Latest] \in Screens
      BY <1>5, <2>1
    <3>3. PICK h \in [0 .. size -> Screens] :
             /\ h[0] = g[Latest] /\ \A k \in 1 .. size : h[k] = Mirrored(h[k - 1], more[k])
             /\ AgreesNext(h[size])
      BY <1>2, <1>4, <3>1, <3>2 DEF Follows
    <3>4. PICK g2 : g2 = [n \in after .. Latest' |-> IF n <= Latest THEN g[n] ELSE h[n - Latest]]
      OBVIOUS
    <3>5. g2 \in [after .. Latest' -> Screens]
      BY <1>5, <2>1, <3>4
    <3>6. /\ \A n \in after .. Latest : g2[n] = g[n]
          /\ \A k \in 1 .. size : g2[Latest + k] = h[k]
      BY <1>5, <2>1, <3>4
    <3>7. /\ \A n \in 1 .. Latest : log'[n] = log[n]
          /\ \A k \in 1 .. size : log'[Latest + k] = more[k]
      BY <1>2, <1>3, <1>4, ConcatProperties DEF Latest
    <3>8. ASSUME NEW n \in after + 1 .. Latest' PROVE g2[n] = Mirrored(g2[n - 1], log'[n])
      <4>1. CASE n <= Latest
        <5>1. n \in after + 1 .. Latest /\ n - 1 \in after .. Latest /\ n \in after .. Latest /\ n \in 1 .. Latest
          BY <1>5, <2>1, <4>1
        <5>2. g2[n] = g[n] /\ g2[n - 1] = g[n - 1] /\ log'[n] = log[n]
          BY <3>6, <3>7, <5>1
        <5>3. g[n] = Mirrored(g[n - 1], log[n])
          BY <3>1, <5>1
        <5> QED
          BY <5>2, <5>3
      <4>2. CASE n = Latest + 1
        <5>1. 1 \in 1 .. size /\ n - 1 = Latest /\ Latest \in after .. Latest /\ 1 - 1 = 0
          BY <1>5, <2>1, <4>2
        <5>2. g2[n] = h[1] /\ g2[n - 1] = h[0] /\ log'[n] = more[1]
          BY <3>3, <3>6, <3>7, <4>2, <5>1
        <5>3. h[1] = Mirrored(h[0], more[1])
          BY <3>3, <5>1
        <5> QED
          BY <5>2, <5>3
      <4>3. CASE n > Latest + 1
        <5>1. PICK k \in 2 .. size : n = Latest + k
          <6>1. n - Latest \in 2 .. size /\ n = Latest + (n - Latest)
            BY <1>5, <2>1, <4>3
          <6> QED
            BY <6>1
        <5>2. k \in 1 .. size /\ k - 1 \in 1 .. size /\ n - 1 = Latest + (k - 1)
          BY <1>5, <5>1
        <5>3. g2[n] = h[k] /\ g2[n - 1] = h[k - 1] /\ log'[n] = more[k]
          BY <3>6, <3>7, <5>1, <5>2
        <5>4. h[k] = Mirrored(h[k - 1], more[k])
          BY <3>3, <5>2
        <5> QED
          BY <5>3, <5>4
      <4> QED
        BY <1>5, <4>1, <4>2, <4>3
    <3>9. g2[after] = view /\ g2[Latest'] = h[size]
      <4>1. after \in after .. Latest /\ Latest \in after .. Latest
        BY <1>5, <2>1
      <4>2. g2[after] = view
        BY <3>1, <3>6, <4>1
      <4>3. CASE size = 0
        BY <1>5, <3>3, <3>6, <4>1, <4>2, <4>3
      <4>4. CASE size # 0
        <5>1. size \in 1 .. size
          BY <4>4
        <5> QED
          BY <1>5, <3>6, <4>2, <5>1
      <4> QED
        BY <4>2, <4>3, <4>4
    <3>10. Agrees(g2[Latest])'
      <4>1. PICK last : last = g2[Latest']
        OBVIOUS
      <4>2. AgreesNext(last)
        BY <3>3, <3>9, <4>1
      <4>3. Agrees(last)'
        BY <4>2 DEF Agrees, AgreesNext
      <4> QED
        BY <4>1, <4>3 DEF Agrees
    <3>11. /\ g2 \in [after' .. Latest' -> Screens] /\ g2[after'] = view'
           /\ \A n \in after' + 1 .. Latest' : g2[n] = Mirrored(g2[n - 1], log'[n])
      BY <1>1, <3>5, <3>8, <3>9
    <3> QED
      BY <3>10, <3>11 DEF Leads
  <2> QED
    BY <2>1, <2>2, <2>3
<1>10. SnapFits'
  <2> SUFFICES ASSUME stage = "state", ~snapTaken, snapSeq = Latest' PROVE Agrees(snapView)'
    BY <1>1 DEF SnapFits
  <2>1. snapSeq <= Latest /\ snapSeq \in Nat
    BY DEF MirrorInv, MirrorTypes, Places
  <2>2. size = 0 /\ snapSeq = Latest
    BY <1>5, <2>1
  <2>3. Agrees(snapView) /\ snapView \in Screens
    BY <2>2 DEF MirrorInv, MirrorTypes, SnapFits
  <2>4. PICK h \in [0 .. size -> Screens] : h[0] = snapView /\ AgreesNext(h[size])
    BY <1>2, <1>4, <2>3 DEF Follows
  <2>5. AgreesNext(snapView)
    BY <2>2, <2>4
  <2> QED
    BY <1>1, <2>5 DEF Agrees, AgreesNext
<1> QED
  BY <1>6, <1>7, <1>8, <1>9, <1>10 DEF MirrorInv

LEMMA ViewStays ==
    ASSUME ViewFollows, UNCHANGED <<servedVars, view, shown, seeded, raced, after>>,
           gap' = gap \/ gap' = TRUE
    PROVE  ViewFollows'
<1>1. UNCHANGED <<run, log, srv, taken, crossed, view, shown, seeded, raced, after>>
  BY DEF servedVars
<1>2. InStep' => InStep
  BY <1>1 DEF InStep
<1>3. Leads(view, after) => Leads(view, after)'
  BY <1>1 DEF Leads, Agrees, Latest
<1> SUFFICES ASSUME InStep'
             PROVE  /\ after' <= Latest'
                    /\ \A n \in 1 .. after' : \E k \in 1 .. Len(shown') : shown'[k] = <<run', n>>
                    /\ ~raced' => shown' = [n \in 1 .. after' |-> <<run', n>>] /\ Leads(view, after)'
  BY DEF ViewFollows
<1>4. /\ after <= Latest
      /\ \A n \in 1 .. after : \E k \in 1 .. Len(shown) : shown[k] = <<run, n>>
      /\ ~raced => shown = [n \in 1 .. after |-> <<run, n>>] /\ Leads(view, after)'
  BY <1>2, <1>3 DEF ViewFollows
<1>5. Latest' = Latest
  BY <1>1 DEF Latest
<1>6. after' = after /\ shown' = shown /\ run' = run /\ raced' = raced
  BY <1>1
<1>7. after' <= Latest'
  BY <1>4, <1>5, <1>6
<1>8. \A n \in 1 .. after' : \E k \in 1 .. Len(shown') : shown'[k] = <<run', n>>
  BY <1>4, <1>6
<1>9. ~raced' => shown' = [n \in 1 .. after' |-> <<run', n>>]
  BY <1>4, <1>6
<1>10. ~raced' => Leads(view, after)'
  BY <1>4, <1>6
<1> QED
  BY <1>7, <1>8, <1>9, <1>10

LEMMA SnapStays ==
    ASSUME SnapFits, UNCHANGED servedVars,
           stage' = "state" => UNCHANGED <<stage, snapSeq, snapView, snapTaken>>
    PROVE  SnapFits'
<1>1. UNCHANGED <<log, srv, taken, crossed>>
  BY DEF servedVars
<1> QED
  BY <1>1 DEF SnapFits, Agrees, Latest

LEMMA ConnectsKeeps == ASSUME MirrorInv, log \in Seq(Event), Connects PROVE MirrorInv'
<1>1. /\ follow = "down" /\ UNCHANGED <<servedVars, view, shown, seeded, raced, after, gap, snapSeq, snapView, snapTaken>>
      /\ \/ follow' = "conflict" /\ stage' = "asked" /\ UNCHANGED <<cut, cursor, wire, up>>
         \/ /\ after <= Latest /\ follow' = "open" /\ stage' = stage
            /\ cut' = FALSE /\ cursor' = after /\ wire' = <<>> /\ up' = TRUE
  BY DEF Connects, Screen
<1>2. run' = run /\ log' = log /\ Latest' = Latest
  BY <1>1 DEF servedVars, Latest
<1>3. wire = <<>> /\ stage \notin {"seq", "state"}
  BY <1>1 DEF MirrorInv, OnTheWire, Places, Asked
<1>4. wire' = <<>> /\ wire' \in Seq(Nat) /\ Len(wire') = 0
  BY <1>1, <1>3, EmptySeq
<1>5. MirrorTypes'
  <2>1. up' \in BOOLEAN /\ cursor' \in Nat
    BY <1>1 DEF MirrorInv, MirrorTypes
  <2> QED
    BY <1>1, <1>2, <1>4, <2>1 DEF MirrorInv, MirrorTypes
<1>6. OnTheWire'
  <2>1. ~cut' /\ follow' \in {"open", "lagged"} => cursor' <= Latest'
    BY <1>1, <1>2
  <2> QED
    BY <1>4, <2>1 DEF OnTheWire
<1>7. Places'
  <2>1. after \in Nat
    BY DEF MirrorInv, MirrorTypes
  <2> QED
    BY <1>1, <1>3, <1>4, <2>1 DEF Places, InStep
<1>8. ViewFollows'
  BY <1>1, ViewStays DEF MirrorInv
<1>9. SnapFits'
  BY <1>1, <1>3, SnapStays DEF MirrorInv
<1> QED
  BY <1>5, <1>6, <1>7, <1>8, <1>9 DEF MirrorInv

LEMMA Numbers ==
    ASSUME log \in Seq(Event), NEW n \in Nat, n < Latest
    PROVE  /\ Newer(n) \in Seq(Nat) /\ Len(Newer(n)) > 0 /\ Latest > 0
           /\ Missed(n) = 0 => Newer(n)[1] = n + 1
           /\ Newer(n)[Len(Newer(n))] = Latest
           /\ \A i \in 1 .. Len(Newer(n)) : Newer(n)[i] \in 1 .. Latest
           /\ \A i \in 1 .. Len(Newer(n)) - 1 : Newer(n)[i + 1] = Newer(n)[i] + 1
<1>1. Latest \in Nat /\ Latest > 0 /\ Kept \in Nat \ {0}
  BY ServedAssumption DEF Latest
<1>2. PICK oldest \in Nat : oldest = Oldest /\ oldest \in 1 .. Latest
  <2>1. Oldest \in Nat /\ Oldest \in 1 .. Latest
    <3>1. CASE Latest < Kept
      BY <1>1, <3>1 DEF Oldest
    <3>2. CASE ~(Latest < Kept)
      BY <1>1, <3>2 DEF Oldest
    <3> QED
      BY <3>1, <3>2
  <2> QED
    BY <2>1
<1>3. PICK low \in Nat : low = (IF n + 1 > oldest THEN n + 1 ELSE oldest) /\ low \in 1 .. Latest
  BY <1>1, <1>2
<1>4. PICK s : s = Newer(n)
  OBVIOUS
<1>5. PICK size \in Nat : size = Latest - low + 1 /\ size > 0
  <2>1. Latest - low + 1 \in Nat /\ Latest - low + 1 > 0
    BY <1>1, <1>3
  <2> QED
    BY <2>1
<1>6. s = [i \in 1 .. size |-> low + i - 1]
  BY <1>1, <1>2, <1>3, <1>4, <1>5 DEF Newer
<1>7. s \in Seq(Nat) /\ Len(s) = size
  BY <1>3, <1>5, <1>6, SMTT(30)
<1>8. \A i \in 1 .. size : s[i] = low + i - 1 /\ s[i] \in 1 .. Latest
  BY <1>1, <1>3, <1>5, <1>6
<1>9. s[size] = Latest /\ s[1] = low
  BY <1>1, <1>3, <1>5, <1>8
<1>10. \A i \in 1 .. size - 1 : s[i + 1] = s[i] + 1
  BY <1>3, <1>5, <1>8
<1>11. Missed(n) = 0 => low = n + 1
  BY <1>1, <1>2, <1>3 DEF Missed
<1> QED
  BY <1>1, <1>4, <1>5, <1>7, <1>8, <1>9, <1>10, <1>11

LEMMA StreamsKeeps == ASSUME MirrorInv, log \in Seq(Event), Streams PROVE MirrorInv'
<1>1. /\ follow \in {"open", "lagged"} /\ ~cut /\ cursor < Latest /\ cursor' = Latest
      /\ wire' = wire \o (IF Missed(cursor) > 0 THEN <<0>> ELSE <<>>) \o Newer(cursor)
      /\ UNCHANGED <<servedVars, view, shown, seeded, raced, after, gap, follow, cut, up>>
      /\ UNCHANGED <<stage, snapSeq, snapView, snapTaken>>
  BY DEF Streams, Screen, Snapshot
<1>2. run' = run /\ log' = log /\ Latest' = Latest /\ Latest \in Nat
  BY <1>1 DEF servedVars, Latest
<1>3. cursor \in Nat /\ after \in Nat /\ wire \in Seq(Nat) /\ snapSeq \in Nat
  BY DEF MirrorInv, MirrorTypes
<1>4. PICK fresh \in Seq(Nat) :
         /\ fresh = Newer(cursor) /\ Len(fresh) > 0 /\ Latest > 0
         /\ Missed(cursor) = 0 => fresh[1] = cursor + 1
         /\ fresh[Len(fresh)] = Latest
         /\ \A i \in 1 .. Len(fresh) : fresh[i] \in 1 .. Latest
         /\ \A i \in 1 .. Len(fresh) - 1 : fresh[i + 1] = fresh[i] + 1
  BY <1>1, <1>3, Numbers
<1>5. Missed(cursor) \in Nat
  <2>1. Oldest \in Nat
    BY <1>2, ServedAssumption DEF Oldest
  <2> QED
    BY <1>3, <2>1 DEF Missed
<1>6. PICK new \in Seq(Nat) :
         /\ wire' = wire \o new /\ Len(new) > 0 /\ new[Len(new)] = Latest
         /\ new[1] = 0 \/ new[1] = cursor + 1
         /\ \A i \in 1 .. Len(new) : new[i] <= Latest
         /\ \A i \in 1 .. Len(new) - 1 : new[i] # 0 => new[i + 1] = new[i] + 1
  <2>1. CASE Missed(cursor) = 0
    <3>1. wire \o <<>> = wire
      BY <1>3, ConcatEmptySeq
    <3>2. wire' = wire \o fresh
      BY <1>1, <1>4, <2>1, <3>1
    <3>3. \A i \in 1 .. Len(fresh) : fresh[i] <= Latest
      BY <1>2, <1>4
    <3> QED
      BY <1>4, <2>1, <3>2, <3>3
  <2>2. CASE Missed(cursor) > 0
    <3>1. PICK lag \in Seq(Nat) : lag = <<0>> /\ Len(lag) = 1 /\ lag[1] = 0
      <4>1. <<0>> \in Seq(Nat) /\ Len(<<0>>) = 1 /\ <<0>>[1] = 0
        OBVIOUS
      <4> QED
        BY <4>1
    <3>2. wire' = wire \o (lag \o fresh)
      <4>1. wire' = (wire \o lag) \o fresh
        BY <1>1, <1>4, <2>2, <3>1
      <4> QED
        BY <1>3, <3>1, <4>1, ConcatAssociative
    <3>3. PICK new : new = lag \o fresh
      OBVIOUS
    <3>4. PICK size \in Nat : size = Len(fresh) /\ size > 0
      BY <1>4
    <3>5. /\ new \in Seq(Nat) /\ Len(new) = 1 + size /\ new[1] = 0
          /\ \A i \in 1 .. size : new[1 + i] = fresh[i]
      BY <3>1, <3>3, <3>4, ConcatProperties
    <3>6. \A i \in 2 .. 1 + size : i - 1 \in 1 .. size /\ new[i] = fresh[i - 1]
      <4>1. \A i \in 2 .. 1 + size : i - 1 \in 1 .. size /\ 1 + (i - 1) = i
        BY <3>4
      <4> QED
        BY <3>5, <4>1
    <3>7. \A i \in 1 .. Len(new) : new[i] <= Latest
      <4>1. \A i \in 1 .. Len(new) : i = 1 \/ i \in 2 .. 1 + size
        BY <3>4, <3>5
      <4>2. ASSUME NEW i \in 2 .. 1 + size PROVE new[i] <= Latest
        <5>1. new[i] \in 1 .. Latest
          BY <1>4, <3>4, <3>6
        <5> QED
          BY <1>2, <5>1
      <4>3. new[1] <= Latest
        BY <1>2, <3>5
      <4> QED
        BY <4>1, <4>2, <4>3
    <3>8. \A i \in 1 .. Len(new) - 1 : new[i] # 0 => new[i + 1] = new[i] + 1
      <4> SUFFICES ASSUME NEW i \in 1 .. Len(new) - 1, new[i] # 0 PROVE new[i + 1] = new[i] + 1
        OBVIOUS
      <4>1. i # 1
        BY <3>5
      <4>2. /\ i \in 2 .. 1 + size /\ i + 1 \in 2 .. 1 + size /\ (i + 1) - 1 = (i - 1) + 1
            /\ i - 1 \in 1 .. size - 1
        BY <3>4, <3>5, <4>1
      <4>3. new[i] = fresh[i - 1] /\ new[i + 1] = fresh[(i - 1) + 1]
        BY <3>6, <4>2
      <4> QED
        BY <1>4, <3>4, <4>2, <4>3
    <3>9. new[Len(new)] = Latest
      <4>1. size \in 1 .. size
        BY <3>4
      <4> QED
        BY <1>4, <3>4, <3>5, <4>1
    <3>10. Len(new) > 0
      BY <3>4, <3>5
    <3> QED
      BY <3>2, <3>3, <3>5, <3>7, <3>8, <3>9, <3>10
  <2>3. Missed(cursor) = 0 \/ Missed(cursor) > 0
    BY <1>5
  <2> QED
    BY <2>1, <2>2, <2>3
<1>7. PICK m \in Nat, k \in Nat : m = Len(wire) /\ k = Len(new) /\ k > 0
  BY <1>3, <1>6
<1>8. /\ wire' \in Seq(Nat) /\ Len(wire') = m + k
      /\ \A i \in 1 .. m : wire'[i] = wire[i]
      /\ \A i \in 1 .. k : wire'[m + i] = new[i]
  BY <1>3, <1>6, <1>7, ConcatProperties
<1>9. \A i \in m + 1 .. m + k : i - m \in 1 .. k /\ wire'[i] = new[i - m]
  <2>1. \A i \in m + 1 .. m + k : i - m \in 1 .. k /\ m + (i - m) = i
    BY <1>7
  <2> QED
    BY <1>8, <2>1
<1>10. wire' # <<>>
  BY <1>7, <1>8
<1>11. MirrorTypes'
  BY <1>1, <1>2, <1>8 DEF MirrorInv, MirrorTypes
<1>12. OnTheWire'
  <2>1. \A i \in 1 .. Len(wire') : wire'[i] <= Latest'
    <3>1. \A i \in 1 .. Len(wire') : i \in 1 .. m \/ i \in m + 1 .. m + k
      BY <1>7, <1>8
    <3>2. \A i \in 1 .. m : wire[i] <= Latest
      BY <1>7 DEF MirrorInv, OnTheWire
    <3> QED
      BY <1>2, <1>6, <1>7, <1>8, <1>9, <3>1, <3>2
  <2>2. ASSUME NEW i \in 1 .. Len(wire') - 1, wire'[i] # 0, wire'[i + 1] # 0
        PROVE  wire'[i + 1] = wire'[i] + 1
    <3>1. CASE i + 1 <= m
      <4>1. i \in 1 .. m /\ i + 1 \in 1 .. m /\ i \in 1 .. Len(wire) - 1
        BY <1>7, <1>8, <3>1, SMTT(30)
      <4>2. wire'[i] = wire[i] /\ wire'[i + 1] = wire[i + 1]
        BY <1>8, <4>1
      <4>3. wire[i] # 0 /\ wire[i + 1] # 0 => wire[i + 1] = wire[i] + 1
        BY <4>1 DEF MirrorInv, OnTheWire
      <4> QED
        BY <2>2, <4>2, <4>3
    <3>2. CASE i = m
      <4>1. i \in 1 .. m /\ 1 \in 1 .. k /\ m = Len(wire) /\ wire # <<>>
        BY <1>7, <1>8, <3>2
      <4>2. wire'[i] = wire[Len(wire)] /\ wire'[i + 1] = new[1]
        BY <1>8, <3>2, <4>1
      <4>3. wire[Len(wire)] = cursor
        BY <1>1, <4>1 DEF MirrorInv, OnTheWire
      <4> QED
        BY <1>6, <2>2, <4>2, <4>3
    <3>3. CASE i > m
      <4>1. /\ i \in m + 1 .. m + k /\ i + 1 \in m + 1 .. m + k /\ (i + 1) - m = (i - m) + 1
            /\ i - m \in 1 .. Len(new) - 1
        BY <1>7, <1>8, <3>3
      <4>2. wire'[i] = new[i - m] /\ wire'[i + 1] = new[(i - m) + 1]
        BY <1>9, <4>1
      <4> QED
        BY <1>6, <2>2, <4>1, <4>2
    <3> QED
      BY <1>7, <1>8, <3>1, <3>2, <3>3
  <2>3. wire'[Len(wire')] = cursor' /\ cursor' > 0
    <3>1. k \in 1 .. k
      BY <1>7
    <3> QED
      BY <1>1, <1>4, <1>6, <1>7, <1>8, <3>1
  <2>4. follow' \in {"open", "lagged"} /\ cursor' <= Latest'
    BY <1>1, <1>2
  <2> QED
    BY <2>1, <2>2, <2>3, <2>4 DEF OnTheWire
<1>13. Places'
  <2>1. CASE wire = <<>>
    <3>1. follow = "open" /\ stage \notin {"seq", "state"}
      BY <1>1, <2>1 DEF MirrorInv, Places, Asked
    <3>2. wire'[1] = 0 \/ wire'[1] = cursor + 1
      <4>1. m = 0 /\ 1 \in 1 .. k
        BY <1>7, <2>1
      <4>2. wire'[m + 1] = new[1]
        BY <1>8, <4>1
      <4> QED
        BY <1>6, <4>1, <4>2
    <3>3. InStep => wire'[1] <= after + 1
      <4>1. InStep => cursor <= after
        BY <1>1, <2>1, <3>1 DEF MirrorInv, Places
      <4> QED
        BY <1>3, <3>2, <4>1
    <3> QED
      BY <1>1, <1>2, <1>10, <3>1, <3>3 DEF Places, InStep
  <2>2. CASE wire # <<>>
    <3>1. wire'[1] = wire[1]
      <4>1. m > 0
        BY <1>3, <1>7, <2>2, EmptySeq
      <4>2. 1 \in 1 .. m
        BY <4>1
      <4> QED
        BY <1>8, <4>2
    <3>2. InStep' = InStep /\ Asked' = Asked
      BY <1>1, <1>2 DEF InStep, Asked
    <3> QED
      BY <1>1, <1>2, <1>10, <2>2, <3>1, <3>2 DEF MirrorInv, Places
  <2> QED
    BY <2>1, <2>2
<1>14. ViewFollows'
  BY <1>1, ViewStays DEF MirrorInv
<1>15. SnapFits'
  BY <1>1, SnapStays DEF MirrorInv
<1> QED
  BY <1>11, <1>12, <1>13, <1>14, <1>15 DEF MirrorInv

\* What only the number of faults tells apart.
LEMMA MirrorStays ==
    ASSUME MirrorInv, UNCHANGED <<servedVars, follow, cut, cursor, wire, after, up, stage, snapSeq,
                                  snapView, snapTaken, view, shown, seeded, gap, raced>>
    PROVE  MirrorInv'
<1>1. run' = run /\ Latest' = Latest
  BY DEF servedVars, Latest
<1>2. MirrorTypes'
  BY <1>1 DEF MirrorInv, MirrorTypes
<1>3. OnTheWire'
  BY <1>1 DEF MirrorInv, OnTheWire
<1>4. Places'
  BY <1>1 DEF MirrorInv, Places, InStep, Asked
<1>5. ViewFollows'
  BY ViewStays DEF MirrorInv
<1>6. SnapFits'
  BY SnapStays DEF MirrorInv
<1> QED
  BY <1>2, <1>3, <1>4, <1>5, <1>6 DEF MirrorInv

LEMMA CutsKeeps == ASSUME MirrorInv, Cuts PROVE MirrorInv'
<1>1. /\ follow \in {"open", "lagged"} /\ cut' = TRUE
      /\ UNCHANGED <<servedVars, view, shown, seeded, raced, after, gap, follow, cursor, up>>
      /\ UNCHANGED <<stage, snapSeq, snapView, snapTaken>>
  BY DEF Cuts, Screen, Snapshot
<1>2. run' = run /\ Latest' = Latest
  BY <1>1 DEF servedVars, Latest
<1>3. wire \in Seq(Nat)
  BY DEF MirrorInv, MirrorTypes
<1>4. PICK n \in 0 .. Len(wire) : wire' = SubSeq(wire, 1, n)
  BY DEF Cuts
<1>5. wire' \in Seq(Nat) /\ Len(wire') = n /\ \A i \in 1 .. n : wire'[i] = wire[i]
  <2>1. \A i \in 1 .. n : wire[i] \in Nat /\ i \in 1 .. Len(wire)
    BY <1>3
  <2>2. SubSeq(wire, 1, n) \in Seq(Nat)
    BY <2>1, SubSeqProperties
  <2>3. Len(SubSeq(wire, 1, n)) = n
    BY <1>3
  <2>4. \A i \in 1 .. n : SubSeq(wire, 1, n)[i] = wire[i]
    BY <1>3
  <2> QED
    BY <1>4, <2>2, <2>3, <2>4
<1>6. wire' # <<>> => wire # <<>> /\ wire'[1] = wire[1]
  <2> SUFFICES ASSUME wire' # <<>> PROVE wire # <<>> /\ wire'[1] = wire[1]
    OBVIOUS
  <2>1. n > 0
    BY <1>5, EmptySeq
  <2>2. 1 \in 1 .. n /\ Len(wire) > 0
    BY <1>3, <2>1
  <2> QED
    BY <1>5, <2>2
<1>7. MirrorTypes'
  BY <1>1, <1>2, <1>5 DEF MirrorInv, MirrorTypes
<1>8. OnTheWire'
  <2>1. \A i \in 1 .. n : i \in 1 .. Len(wire)
    BY <1>3
  <2>2. \A i \in 1 .. Len(wire') : wire'[i] <= Latest'
    BY <1>2, <1>5, <2>1 DEF MirrorInv, OnTheWire
  <2>3. ASSUME NEW i \in 1 .. Len(wire') - 1, wire'[i] # 0, wire'[i + 1] # 0
        PROVE  wire'[i + 1] = wire'[i] + 1
    <3>1. i \in 1 .. n /\ i + 1 \in 1 .. n /\ i \in 1 .. Len(wire) - 1
      BY <1>3, <1>5
    <3>2. wire[i] # 0 /\ wire[i + 1] # 0 => wire[i + 1] = wire[i] + 1
      BY <3>1 DEF MirrorInv, OnTheWire
    <3> QED
      BY <1>5, <2>3, <3>1, <3>2
  <2> QED
    BY <1>1, <2>2, <2>3 DEF OnTheWire
<1>9. Places'
  <2>1. InStep' = InStep /\ Asked' = Asked
    BY <1>1, <1>2 DEF InStep, Asked
  <2> QED
    BY <1>1, <1>2, <1>6, <2>1 DEF MirrorInv, Places
<1>10. ViewFollows'
  BY <1>1, ViewStays DEF MirrorInv
<1>11. SnapFits'
  BY <1>1, SnapStays DEF MirrorInv
<1> QED
  BY <1>7, <1>8, <1>9, <1>10, <1>11 DEF MirrorInv

LEMMA NoticesKeeps == ASSUME MirrorInv, Notices PROVE MirrorInv'
<1>1. /\ follow = "open" /\ cut /\ wire = <<>> /\ follow' = "down" /\ up' = FALSE
      /\ UNCHANGED <<servedVars, view, shown, seeded, raced, cut, cursor, wire, after, gap>>
      /\ UNCHANGED <<stage, snapSeq, snapView, snapTaken>>
  BY DEF Notices, Screen, Snapshot
<1>2. run' = run /\ Latest' = Latest /\ stage \notin {"seq", "state"}
  BY <1>1 DEF servedVars, Latest, MirrorInv, Places, Asked
<1>3. MirrorTypes'
  BY <1>1, <1>2 DEF MirrorInv, MirrorTypes
<1>4. OnTheWire'
  BY <1>1, <1>2 DEF OnTheWire
<1>5. Places'
  BY <1>1, <1>2 DEF Places
<1>6. ViewFollows'
  BY <1>1, ViewStays DEF MirrorInv
<1>7. SnapFits'
  BY <1>1, SnapStays DEF MirrorInv
<1> QED
  BY <1>3, <1>4, <1>5, <1>6, <1>7 DEF MirrorInv

LEMMA ReadsSeqKeeps == ASSUME MirrorInv, log \in Seq(Event), ReadsSeq PROVE MirrorInv'
<1>1. /\ Asked /\ stage' = "seq" /\ snapSeq' = Latest
      /\ UNCHANGED <<servedVars, view, shown, seeded, raced, follow, cut, cursor, wire, after, up, gap>>
      /\ UNCHANGED <<snapView, snapTaken>>
  BY DEF ReadsSeq, Screen, SnapRest
<1>2. run' = run /\ Latest' = Latest /\ Latest \in Nat
  BY <1>1 DEF servedVars, Latest
<1>3. MirrorTypes'
  BY <1>1, <1>2 DEF MirrorInv, MirrorTypes
<1>4. OnTheWire'
  BY <1>1, <1>2 DEF MirrorInv, OnTheWire
<1>5. Places'
  <2>1. wire # <<>> => wire[1] <= Latest + 1
    <3>1. wire # <<>> => 1 \in 1 .. Len(wire) /\ wire[1] \in Nat
      BY EmptySeq DEF MirrorInv, MirrorTypes
    <3> QED
      BY <1>2, <3>1 DEF MirrorInv, OnTheWire
  <2>2. InStep' = InStep /\ Asked' = Asked
    BY <1>1, <1>2 DEF InStep, Asked
  <2> QED
    BY <1>1, <1>2, <2>1, <2>2 DEF MirrorInv, Places
<1>6. ViewFollows'
  BY <1>1, ViewStays DEF MirrorInv
<1>7. SnapFits'
  BY <1>1, SnapStays DEF MirrorInv
<1> QED
  BY <1>3, <1>4, <1>5, <1>6, <1>7 DEF MirrorInv

LEMMA ReadsStateKeeps == ASSUME MirrorInv, ServerInv, ReadsState PROVE MirrorInv'
<1>1. /\ Asked /\ stage = "seq" /\ stage' = "state" /\ snapView' = srv /\ snapTaken' = (taken # <<>>)
      /\ UNCHANGED <<servedVars, view, shown, seeded, raced, follow, cut, cursor, wire, after, up, gap>>
      /\ UNCHANGED snapSeq
  BY DEF ReadsState, Screen, SnapRest
<1>2. run' = run /\ Latest' = Latest /\ UNCHANGED <<srv, taken, crossed>>
  BY <1>1 DEF servedVars, Latest
<1>3. MirrorTypes'
  BY <1>1, <1>2 DEF MirrorInv, MirrorTypes, ServerInv
<1>4. OnTheWire'
  BY <1>1, <1>2 DEF MirrorInv, OnTheWire
<1>5. Places'
  <2>1. InStep' = InStep /\ Asked' = Asked
    BY <1>1, <1>2 DEF InStep, Asked
  <2> QED
    BY <1>1, <1>2, <2>1 DEF MirrorInv, Places
<1>6. ViewFollows'
  BY <1>1, ViewStays DEF MirrorInv
<1>7. SnapFits'
  <2> SUFFICES ASSUME ~snapTaken' PROVE Agrees(srv)'
    BY <1>1, <1>2 DEF SnapFits, Agrees
  <2>1. taken = <<>> /\ srv.queue \in Seq(Nat)
    BY <1>1 DEF ServerInv, Screens
  <2>2. taken \o srv.queue = srv.queue /\ Len(taken) = 0 /\ Len(srv.queue) \in Nat
    BY <2>1, ConcatEmptySeq
  <2>3. Agrees(srv)
    BY <2>1, <2>2 DEF Agrees
  <2> QED
    BY <1>2, <2>3 DEF Agrees
<1> QED
  BY <1>3, <1>4, <1>5, <1>6, <1>7 DEF MirrorInv

LEMMA SeedFailsKeeps == ASSUME MirrorInv, SeedFails PROVE MirrorInv'
<1>1. /\ Asked /\ SnapLost
      /\ UNCHANGED <<servedVars, view, shown, seeded, raced, cut, cursor, wire, after>>
      /\ UNCHANGED <<snapSeq, snapView, snapTaken>>
  BY DEF SeedFails, Screen
<1>2. /\ stage' = "none"
      /\ \/ follow = "lagged" /\ follow' = "open" /\ gap' = TRUE /\ up' = up
         \/ follow = "conflict" /\ follow' = "down" /\ up' = FALSE /\ gap' = gap
  BY <1>1 DEF SnapLost
<1>3. run' = run /\ Latest' = Latest
  BY <1>1 DEF servedVars, Latest
<1>4. MirrorTypes'
  <2>1. up' \in BOOLEAN
    BY <1>2 DEF MirrorInv, MirrorTypes
  <2> QED
    BY <1>1, <1>3, <2>1 DEF MirrorInv, MirrorTypes
<1>5. OnTheWire'
  BY <1>1, <1>2, <1>3 DEF MirrorInv, OnTheWire
<1>6. Places'
  BY <1>2 DEF Places, InStep
<1>7. ViewFollows'
  BY <1>1, <1>2, ViewStays DEF MirrorInv
<1>8. SnapFits'
  BY <1>1, <1>2, SnapStays DEF MirrorInv
<1> QED
  BY <1>4, <1>5, <1>6, <1>7, <1>8 DEF MirrorInv

LEMMA FrameKeeps == ASSUME MirrorInv, log \in Seq(Event), Frame PROVE MirrorInv'
<1>1. /\ follow = "open" /\ wire # <<>> /\ wire' = Tail(wire)
      /\ UNCHANGED <<servedVars, cut, cursor, up, snapSeq, snapView, snapTaken, gap, seeded, raced>>
  BY DEF Frame, Screen
<1>2. run' = run /\ log' = log /\ Latest' = Latest /\ Latest \in Nat /\ UNCHANGED <<srv, taken, crossed>>
  BY <1>1 DEF servedVars, Latest
<1>3. wire \in Seq(Nat) /\ cursor \in Nat /\ after \in Nat /\ view \in Screens /\ shown \in Seq(Nat \X Nat)
  BY DEF MirrorInv, MirrorTypes
<1>4. PICK m \in Nat : m = Len(wire) /\ m > 0
  BY <1>1, <1>3, EmptySeq
<1>5. /\ wire' \in Seq(Nat) /\ Len(wire') = m - 1
      /\ \A i \in 1 .. m - 1 : wire'[i] = wire[i + 1]
  BY <1>1, <1>3, <1>4, HeadTailProperties
<1>6. Head(wire) = wire[1] /\ wire[1] \in Nat /\ wire[1] <= Latest /\ 1 \in 1 .. Len(wire)
  <2>1. 1 \in 1 .. Len(wire)
    BY <1>4
  <2> QED
    BY <1>1, <1>3, <2>1 DEF MirrorInv, OnTheWire
<1>7. stage \notin {"seq", "state"}
  BY <1>1 DEF MirrorInv, Places, Asked
<1>8. ~cut => wire[m] = cursor /\ cursor > 0 /\ cursor <= Latest
  BY <1>1, <1>4 DEF MirrorInv, OnTheWire
<1>9. InStep' = InStep
  BY <1>1, <1>2 DEF InStep
<1>10. ASSUME NEW i \in 1 .. m - 1, wire[i] # 0, wire[i + 1] # 0 PROVE wire[i + 1] = wire[i] + 1
  BY <1>4, <1>10 DEF MirrorInv, OnTheWire
<1>11. ASSUME follow' \in {"open", "lagged"} PROVE OnTheWire'
  <2>1. \A i \in 1 .. Len(wire') : wire'[i] <= Latest'
    <3>1. \A i \in 1 .. Len(wire') : i \in 1 .. m - 1 /\ i + 1 \in 1 .. Len(wire)
      BY <1>4, <1>5
    <3> QED
      BY <1>2, <1>5, <3>1 DEF MirrorInv, OnTheWire
  <2>2. ASSUME NEW i \in 1 .. Len(wire') - 1, wire'[i] # 0, wire'[i + 1] # 0
        PROVE  wire'[i + 1] = wire'[i] + 1
    <3>1. i \in 1 .. m - 1 /\ i + 1 \in 1 .. m - 1
      BY <1>4, <1>5
    <3> QED
      BY <1>5, <1>10, <2>2, <3>1
  <2>3. ASSUME ~cut', wire' # <<>> PROVE wire'[Len(wire')] = cursor' /\ cursor' > 0
    <3>1. m - 1 \in 1 .. m - 1 /\ (m - 1) + 1 = m
      BY <1>4, <1>5, <2>3, EmptySeq
    <3> QED
      BY <1>1, <1>5, <1>8, <2>3, <3>1
  <2> QED
    BY <1>1, <1>2, <1>8, <1>11, <2>1, <2>2, <2>3 DEF OnTheWire
<1>12. CASE Rereads
  <2>1. follow' = "lagged" /\ stage' = "asked" /\ UNCHANGED <<view, shown, seeded, raced, after>>
    BY <1>12 DEF Frame, Screen
  <2>2. MirrorTypes'
    BY <1>1, <1>2, <1>5, <2>1 DEF MirrorInv, MirrorTypes
  <2>3. OnTheWire'
    BY <1>11, <2>1
  <2>4. Places'
    <3>1. ~cut => wire' # <<>>
      <4> SUFFICES ASSUME ~cut, wire' = <<>> PROVE FALSE
        OBVIOUS
      <4>1. m = 1
        <5>1. Len(wire') = 0
          OBVIOUS
        <5>2. Len(wire') = m - 1
          BY <1>5
        <5> QED
          BY <5>1, <5>2
      <4> QED
        BY <1>6, <1>8, <1>12, <4>1 DEF Rereads
    <3> QED
      BY <1>1, <2>1, <3>1 DEF Places
  <2>5. ViewFollows'
    BY <1>1, <2>1, ViewStays DEF MirrorInv
  <2>6. SnapFits'
    BY <1>1, <2>1, SnapStays DEF MirrorInv
  <2> QED
    BY <2>2, <2>3, <2>4, <2>5, <2>6 DEF MirrorInv
<1>13. CASE ~Rereads
  <2>1. /\ UNCHANGED <<follow, stage>> /\ wire[1] > 0
        /\ \/ wire[1] <= after /\ UNCHANGED <<view, shown, after>>
           \/ /\ ~(wire[1] <= after) /\ after' = wire[1] /\ view' = Mirrored(view, log[wire[1]])
              /\ shown' = Append(shown, <<run, wire[1]>>)
    <3>1. wire[1] # 0
      BY <1>6, <1>13 DEF Rereads
    <3> QED
      BY <1>6, <1>13, <3>1 DEF Frame, Screen, Skips
  <2>2. after' \in Nat /\ after' >= wire[1] /\ after' >= after
    BY <1>3, <1>6, <2>1
  <2>3. OnTheWire'
    BY <1>1, <1>11, <2>1
  <2>4. Places'
    <3>1. ASSUME wire' # <<>> PROVE wire'[1] <= after' + 1
      <4>1. m > 1
        BY <1>4, <1>5, <3>1, EmptySeq
      <4>2. 1 \in 1 .. m - 1 /\ 2 \in 1 .. m /\ 1 + 1 = 2
        BY <4>1
      <4>3. wire'[1] = wire[2] /\ wire[2] \in Nat
        BY <1>3, <1>4, <1>5, <4>2
      <4>4. wire[2] = 0 \/ wire[2] = wire[1] + 1
        BY <1>10, <2>1, <4>2
      <4> QED
        BY <1>6, <2>2, <4>3, <4>4
    <3>2. ASSUME ~cut', wire' = <<>> PROVE cursor' <= after'
      <4>1. m = 1
        <5>1. Len(wire') = 0
          BY <3>2
        <5>2. Len(wire') = m - 1
          BY <1>5
        <5> QED
          BY <5>1, <5>2
      <4> QED
        BY <1>1, <1>8, <2>2, <3>2, <4>1
    <3> QED
      BY <1>1, <1>7, <2>1, <3>1, <3>2 DEF Places
  <2>5. SnapFits'
    BY <1>1, <2>1, SnapStays DEF MirrorInv
  <2>6. CASE wire[1] <= after
    <3>1. UNCHANGED <<view, shown, after>>
      BY <2>1, <2>6
    <3>2. MirrorTypes'
      BY <1>1, <1>2, <1>5, <3>1 DEF MirrorInv, MirrorTypes
    <3>3. ViewFollows'
      BY <1>1, <3>1, ViewStays DEF MirrorInv
    <3> QED
      BY <2>3, <2>4, <2>5, <3>2, <3>3 DEF MirrorInv
  <2>7. CASE ~(wire[1] <= after)
    <3>1. PICK n \in Nat : n = wire[1] /\ n > after /\ n \in 1 .. Latest
      BY <1>2, <1>3, <1>6, <2>1, <2>7
    <3>2. after' = n /\ view' = Mirrored(view, log[n]) /\ shown' = Append(shown, <<run, n>>)
      BY <2>1, <2>7, <3>1
    <3>3. log[n] \in Event
      BY <3>1 DEF Latest
    <3>4. view' \in Screens
      BY <1>3, <3>2, <3>3, MirroredParts
    <3>5. PICK pair : pair = <<run, n>>
      OBVIOUS
    <3>6. pair \in Nat \X Nat
      BY <3>1, <3>5 DEF MirrorInv, MirrorTypes
    <3>7. /\ shown' \in Seq(Nat \X Nat) /\ Len(shown') = Len(shown) + 1
          /\ \A k \in 1 .. Len(shown) : shown'[k] = shown[k]
          /\ shown'[Len(shown) + 1] = pair
      BY <1>3, <3>2, <3>5, <3>6, AppendProperties
    <3>8. MirrorTypes'
      BY <1>1, <1>2, <1>5, <2>2, <3>4, <3>7 DEF MirrorInv, MirrorTypes
    <3>9. ASSUME InStep
          PROVE  /\ n <= Latest'
                 /\ \A i \in 1 .. n : \E k \in 1 .. Len(shown') : shown'[k] = <<run, i>>
                 /\ ~raced => shown' = [i \in 1 .. n |-> <<run, i>>] /\ Leads(view, after)'
      <4>1. n = after + 1
        <5>1. wire[1] <= after + 1
          BY <1>1, <3>9 DEF MirrorInv, Places
        <5> QED
          BY <1>3, <3>1, <5>1
      <4>2. /\ \A i \in 1 .. after : \E k \in 1 .. Len(shown) : shown[k] = <<run, i>>
            /\ ~raced => shown = [i \in 1 .. after |-> <<run, i>>] /\ Leads(view, after)
        BY <3>9 DEF MirrorInv, ViewFollows
      <4>3. ASSUME NEW i \in 1 .. n PROVE \E k \in 1 .. Len(shown') : shown'[k] = <<run, i>>
        <5>1. PICK many \in Nat : many = Len(shown)
          BY <1>3
        <5>2. CASE i = n
          <6>1. many + 1 \in 1 .. Len(shown') /\ shown'[many + 1] = <<run, i>>
            BY <3>5, <3>7, <5>1, <5>2
          <6> QED
            BY <6>1
        <5>3. CASE i # n
          <6>1. i \in 1 .. after
            BY <1>3, <4>1, <5>3
          <6>2. PICK k \in 1 .. many : shown[k] = <<run, i>>
            BY <4>2, <5>1, <6>1
          <6>3. k \in 1 .. Len(shown') /\ shown'[k] = <<run, i>>
            BY <3>7, <5>1, <6>2, SMTT(30)
          <6> QED
            BY <6>3
        <5> QED
          BY <5>2, <5>3
      <4>4. ASSUME ~raced PROVE shown' = [i \in 1 .. n |-> <<run, i>>]
        <5>1. PICK lit : lit = [i \in 1 .. n |-> <<run, i>>]
          OBVIOUS
        <5>2. lit \in Seq(Nat \X Nat) /\ Len(lit) = n /\ \A i \in 1 .. n : lit[i] = <<run, i>>
          <6>1. run \in Nat
            BY DEF MirrorInv, MirrorTypes
          <6> QED
            BY <5>1, <6>1
        <5>3. Len(shown) = after /\ \A i \in 1 .. after : shown[i] = <<run, i>>
          BY <1>3, <4>2, <4>4
        <5>4. Len(shown') = n
          BY <3>7, <4>1, <5>3
        <5>5. \A i \in 1 .. n : i = n \/ i \in 1 .. after
          BY <1>3, <4>1
        <5>6. \A i \in 1 .. Len(shown') : shown'[i] = lit[i]
          BY <3>5, <3>7, <4>1, <5>2, <5>3, <5>4, <5>5
        <5> QED
          BY <3>7, <5>1, <5>2, <5>4, <5>6, SeqEqual
      <4>5. ASSUME ~raced PROVE Leads(view, after)'
        <5>1. PICK g \in [after .. Latest -> Screens] :
                 /\ g[after] = view /\ \A i \in after + 1 .. Latest : g[i] = Mirrored(g[i - 1], log[i])
                 /\ Agrees(g[Latest])
          BY <4>2, <4>5 DEF Leads
        <5>2. PICK rest : rest = [i \in n .. Latest |-> g[i]]
          OBVIOUS
        <5>3. /\ n \in after + 1 .. Latest /\ n - 1 = after /\ Latest \in n .. Latest /\ n \in n .. Latest
              /\ \A i \in n .. Latest : i \in after .. Latest
          BY <1>2, <1>3, <3>1, <4>1
        <5>4. rest \in [n .. Latest -> Screens] /\ rest[Latest] = g[Latest] /\ rest[n] = g[n]
          BY <5>2, <5>3
        <5>5. g[n] = view'
          BY <3>2, <5>1, <5>3
        <5>6. ASSUME NEW i \in n + 1 .. Latest PROVE rest[i] = Mirrored(rest[i - 1], log[i])
          <6>1. i \in after + 1 .. Latest /\ i \in n .. Latest /\ i - 1 \in n .. Latest
            BY <1>2, <1>3, <3>1, <4>1
          <6>2. rest[i] = g[i] /\ rest[i - 1] = g[i - 1]
            BY <5>2, <6>1
          <6> QED
            BY <5>1, <6>1, <6>2
        <5>7. Agrees(rest[Latest])'
          <6>1. Agrees(rest[Latest])
            BY <5>1, <5>4
          <6> QED
            BY <1>2, <6>1 DEF Agrees
        <5>8. /\ rest \in [after' .. Latest' -> Screens] /\ rest[after'] = view'
              /\ \A i \in after' + 1 .. Latest' : rest[i] = Mirrored(rest[i - 1], log'[i])
          BY <1>2, <3>2, <5>4, <5>5, <5>6
        <5> QED
          BY <5>7, <5>8 DEF Leads
      <4>6. n <= Latest'
        BY <1>2, <3>1
      <4>7. ~raced => shown' = [i \in 1 .. n |-> <<run, i>>]
        BY <4>4
      <4>8. ~raced => Leads(view, after)'
        BY <4>5
      <4> QED
        BY <4>3, <4>6, <4>7, <4>8
    <3>10. ViewFollows'
      <4> SUFFICES ASSUME InStep'
                   PROVE  /\ after' <= Latest'
                          /\ \A i \in 1 .. after' : \E k \in 1 .. Len(shown') : shown'[k] = <<run', i>>
                          /\ ~raced' => shown' = [i \in 1 .. after' |-> <<run', i>>] /\ Leads(view, after)'
        BY DEF ViewFollows
      <4>1. after' = n /\ run' = run /\ raced' = raced /\ InStep
        BY <1>1, <1>2, <1>9, <3>2
      <4>2. ~raced' => shown' = [i \in 1 .. after' |-> <<run', i>>]
        BY <3>9, <4>1
      <4> QED
        BY <3>9, <4>1, <4>2
    <3> QED
      BY <2>3, <2>4, <2>5, <3>8, <3>10 DEF MirrorInv
  <2> QED
    BY <2>6, <2>7
<1> QED
  BY <1>12, <1>13

LEMMA SeedsKeeps == ASSUME MirrorInv, log \in Seq(Event), Seeds PROVE MirrorInv'
<1>1. /\ Asked /\ stage = "state" /\ stage' = "none" /\ view' = snapView
      /\ shown' = [n \in 1 .. Latest |-> <<run, n>>] /\ after' = snapSeq /\ seeded' = run /\ gap' = FALSE
      /\ raced' = (snapTaken \/ snapSeq # Latest)
      /\ follow' = IF follow = "lagged" THEN "open" ELSE "down"
      /\ UNCHANGED <<servedVars, cut, cursor, wire, up, snapSeq, snapView, snapTaken>>
  BY DEF Seeds
<1>2. run' = run /\ log' = log /\ Latest' = Latest /\ Latest \in Nat /\ UNCHANGED <<srv, taken, crossed>>
  BY <1>1 DEF servedVars, Latest
<1>3. snapSeq \in Nat /\ snapSeq <= Latest /\ run \in Nat /\ snapView \in Screens
  BY <1>1 DEF MirrorInv, MirrorTypes, Places
<1>4. shown' \in Seq(Nat \X Nat) /\ Len(shown') = Latest /\ \A n \in 1 .. Latest : shown'[n] = <<run, n>>
  BY <1>1, <1>2, <1>3
<1>5. MirrorTypes'
  BY <1>1, <1>2, <1>3, <1>4 DEF MirrorInv, MirrorTypes
<1>6. OnTheWire'
  <2>1. \/ follow = "lagged" /\ follow' = "open"
        \/ follow = "conflict" /\ follow' = "down"
    BY <1>1 DEF Asked
  <2> QED
    BY <1>1, <1>2, <2>1 DEF MirrorInv, OnTheWire
<1>7. Places'
  BY <1>1 DEF MirrorInv, Places
<1>8. ViewFollows'
  <2>1. after' <= Latest'
    BY <1>1, <1>2, <1>3
  <2>2. \A n \in 1 .. after' : \E k \in 1 .. Len(shown') : shown'[k] = <<run', n>>
    <3>1. \A n \in 1 .. after' : n \in 1 .. Len(shown') /\ shown'[n] = <<run', n>>
      BY <1>1, <1>2, <1>3, <1>4
    <3> QED
      BY <3>1
  <2>3. ASSUME ~raced' PROVE shown' = [n \in 1 .. after' |-> <<run', n>>] /\ Leads(view, after)'
    <3>1. ~snapTaken /\ snapSeq = Latest
      BY <1>1, <2>3
    <3>2. after' = Latest
      BY <1>1, <3>1
    <3>3. shown' = [n \in 1 .. after' |-> <<run', n>>]
      BY <1>1, <1>2, <3>2
    <3>4. PICK g : g = [n \in Latest .. Latest |-> snapView]
      OBVIOUS
    <3>5. /\ g \in [after' .. Latest' -> Screens] /\ g[after'] = view' /\ g[Latest'] = snapView
          /\ after' + 1 .. Latest' = {}
      BY <1>1, <1>2, <1>3, <3>2, <3>4
    <3>6. Agrees(g[Latest])'
      <4>1. Agrees(snapView)
        BY <1>1, <3>1 DEF MirrorInv, SnapFits
      <4> QED
        BY <1>2, <3>5, <4>1 DEF Agrees
    <3>7. Leads(view, after)'
      BY <3>5, <3>6 DEF Leads
    <3> QED
      BY <3>3, <3>7
  <2> QED
    BY <2>1, <2>2, <2>3 DEF ViewFollows
<1>9. SnapFits'
  BY <1>1 DEF SnapFits
<1> QED
  BY <1>5, <1>6, <1>7, <1>8, <1>9 DEF MirrorInv

LEMMA RestartMirror == ASSUME MirrorInv, ServerInv, Restart PROVE MirrorInv' /\ ServerInv'
<1>1. /\ run' = run + 1 /\ log' = <<>> /\ srv' = Blank /\ taken' = <<>> /\ nextId' = 0 /\ crossed' = FALSE
      /\ cut' = TRUE /\ wire' = <<>>
      /\ IF stage \in {"seq", "state"} THEN SnapLost ELSE UNCHANGED <<stage, follow, gap, up>>
      /\ UNCHANGED <<view, shown, seeded, raced, cursor, after, snapSeq, snapView, snapTaken>>
  BY DEF Restart, Restarted, StreamDies, Screen
<1>2. stage' \notin {"seq", "state"} /\ up' \in BOOLEAN
  BY <1>1 DEF SnapLost, MirrorInv, MirrorTypes
<1>3. ~InStep'
  BY <1>1 DEF InStep, MirrorInv, MirrorTypes
<1>4. MirrorTypes'
  <2>1. wire' \in Seq(Nat) /\ run' \in Nat /\ seeded' <= run'
    BY <1>1, EmptySeq DEF MirrorInv, MirrorTypes
  <2> QED
    BY <1>1, <1>2, <2>1 DEF MirrorInv, MirrorTypes
<1>5. OnTheWire' /\ Places'
  BY <1>1, <1>2, <1>3 DEF OnTheWire, Places
<1>6. ViewFollows' /\ SnapFits'
  BY <1>2, <1>3 DEF ViewFollows, SnapFits
<1>7. ServerInv'
  <2>1. log' \in Seq(Event) /\ taken' \in Seq(Nat) /\ nextId' \in Nat /\ crossed' \in BOOLEAN
    BY <1>1, EmptySeq
  <2>2. srv' \in Screens /\ srv'.pending = <<>> /\ srv'.queue = <<>>
    BY <1>1, EmptySeq DEF Blank, Screens
  <2> QED
    BY <1>1, <2>1, <2>2 DEF ServerInv
<1> QED
  BY <1>4, <1>5, <1>6, <1>7 DEF MirrorInv

LEMMA InitMirror == Init => ServerInv /\ MirrorInv
<1> SUFFICES ASSUME Init PROVE ServerInv /\ MirrorInv
  OBVIOUS
<1>1. /\ run \in Nat /\ log = <<>> /\ srv = Blank /\ taken = <<>> /\ nextId \in Nat /\ crossed = FALSE
      /\ follow = "down" /\ cursor = 0 /\ wire = <<>> /\ after = 0 /\ up = TRUE /\ stage = "none"
      /\ snapSeq = 0 /\ snapView = Blank /\ view = Blank /\ shown = <<>> /\ seeded = run
  BY ServedAssumption DEF Init, ServedInit, FollowInit
<1>2. Blank \in Screens /\ Blank.pending = <<>> /\ Blank.queue = <<>>
  BY EmptySeq DEF Blank, Screens
<1>3. Latest = 0 /\ log \in Seq(Event)
  BY <1>1, EmptySeq DEF Latest
<1>4. ServerInv
  BY <1>1, <1>2, <1>3, EmptySeq DEF ServerInv
<1>5. MirrorTypes
  <2>1. wire \in Seq(Nat) /\ shown \in Seq(Nat \X Nat)
    BY <1>1, EmptySeq
  <2> QED
    BY <1>1, <1>2, <2>1 DEF MirrorTypes
<1>6. OnTheWire /\ Places /\ SnapFits
  BY <1>1, <1>3 DEF OnTheWire, Places, SnapFits
<1>7. ViewFollows
  <2>1. PICK g : g = [n \in 0 .. 0 |-> Blank]
    OBVIOUS
  <2>2. Agrees(Blank)
    BY <1>1, <1>2 DEF Agrees
  <2>3. g \in [after .. Latest -> Screens] /\ g[after] = view /\ after + 1 .. Latest = {} /\ Agrees(g[Latest])
    BY <1>1, <1>2, <1>3, <2>1, <2>2
  <2>4. Leads(view, after)
    BY <2>3 DEF Leads
  <2>5. shown = [n \in 1 .. after |-> <<run, n>>] /\ 1 .. after = {} /\ after <= Latest
    BY <1>1, <1>3
  <2> QED
    BY <2>4, <2>5 DEF ViewFollows
<1> QED
  BY <1>4, <1>5, <1>6, <1>7 DEF MirrorInv

-----------------------------------------------------------------------------
(* The two ends together.                                                  *)

AttachInv == ServerInv /\ MirrorInv /\ PromptsInv

LEMMA AttachInit == Init => AttachInv
BY InitMirror, InitPrompts DEF AttachInv

\* What a step leaves of the session, when it is not one of the session's.
LEMMA ServerStays == ASSUME ServerInv, UNCHANGED servedVars PROVE ServerInv'
<1>1. UNCHANGED <<log, srv, taken, nextId, crossed>>
  BY DEF servedVars
<1> QED
  BY <1>1 DEF ServerInv

LEMMA ThereKeeps == AttachInv /\ There => AttachInv'
<1> SUFFICES ASSUME AttachInv, There PROVE AttachInv'
  OBVIOUS
<1>1. Agent /\ UNCHANGED <<followVars, relayVars>>
  BY DEF There
<1>2. UNCHANGED <<run, seen, submitted>>
  BY <1>1 DEF Agent, TakesQueue, Lands, Asks, AnsweredThere, AnswerRoute, TurnEnds, AgentOnly
<1>3. ServerInv' /\ Moves
  BY <1>1, AgentMoves DEF AttachInv
<1>4. MirrorInv'
  BY <1>1, <1>2, <1>3, ServerKeepsMirror DEF AttachInv
<1>5. PromptsInv'
  BY <1>1, <1>2, PromptsStay DEF AttachInv
<1> QED
  BY <1>3, <1>4, <1>5 DEF AttachInv

LEMMA ReadsKeeps == AttachInv /\ Reads => AttachInv'
<1> SUFFICES ASSUME AttachInv, Reads PROVE AttachInv'
  OBVIOUS
<1>1. /\ \/ Connects \/ Streams \/ Notices \/ Frame \/ ReadsSeq \/ ReadsState \/ Seeds \/ Cuts \/ SeedFails
      /\ UNCHANGED relayVars
  BY DEF Reads, Reading, ReadingFaults
<1>2. UNCHANGED servedVars
  BY <1>1 DEF Connects, Streams, Notices, Frame, ReadsSeq, ReadsState, SnapRest, Seeds, Cuts, SeedFails
<1>3. log \in Seq(Event) /\ MirrorInv /\ ServerInv
  BY DEF AttachInv, ServerInv
<1>4. MirrorInv'
  BY <1>1, <1>3, ConnectsKeeps, StreamsKeeps, NoticesKeeps, FrameKeeps, ReadsSeqKeeps, ReadsStateKeeps,
     SeedsKeeps, CutsKeeps, SeedFailsKeeps
<1>5. PromptsInv'
  <2>1. UNCHANGED <<run, seen, submitted>>
    BY <1>2 DEF servedVars
  <2> QED
    BY <1>1, <2>1, PromptsStay DEF AttachInv
<1> QED
  BY <1>2, <1>3, <1>4, <1>5, ServerStays DEF AttachInv

LEMMA WritesKeeps == AttachInv /\ Writes => AttachInv'
<1> SUFFICES ASSUME AttachInv, Writes PROVE AttachInv'
  OBVIOUS
<1>1. GivesPrompt \/ GivesAnswer \/ GivesInterrupt \/ Take \/ Posts \/ Answered \/ NoAnswer
  BY DEF Writes, User, Act
<1>2. UNCHANGED <<servedVars, follow, cut, cursor, wire, after, up, stage, snapSeq, snapView,
                  snapTaken, view, shown, seeded, gap, raced>>
  <2>1. CASE NoAnswer
    BY <2>1 DEF NoAnswer
  <2>2. CASE ~NoAnswer
    BY <1>1, <2>2 DEF GivesPrompt, GivesAnswer, GivesInterrupt, Does, Take, Posts, Answered, Elsewhere, followVars
  <2> QED
    BY <2>1, <2>2
<1>3. view \in Screens /\ up \in BOOLEAN /\ PromptsInv /\ MirrorInv /\ ServerInv
  BY DEF AttachInv, MirrorInv, MirrorTypes
<1>4. MirrorInv'
  BY <1>2, <1>3, MirrorStays
<1>5. ServerInv'
  BY <1>2, <1>3, ServerStays
<1>6. PromptsInv'
  BY <1>1, <1>3, GivesKeeps, TakeKeeps, PostsKeeps, AnsweredKeeps, NoAnswerKeeps
<1> QED
  BY <1>4, <1>5, <1>6 DEF AttachInv

LEMMA DeliversAll == AttachInv /\ Delivers => AttachInv'
<1> SUFFICES ASSUME AttachInv, Delivers PROVE AttachInv'
  OBVIOUS
<1>1. PICK i \in 1 .. Len(transit) : Serve(i) \/ Loses(i)
  BY DEF Delivers
<1>2. PromptsInv'
  BY <1>1, DeliversKeeps DEF AttachInv
<1>3. CASE Loses(i)
  <2>1. UNCHANGED servedVars /\ UNCHANGED followVars
    BY <1>3 DEF Loses, Elsewhere
  <2>2. ServerInv'
    BY <2>1, ServerStays DEF AttachInv
  <2>3. MirrorInv'
    BY <2>1, MirrorStays DEF AttachInv, followVars
  <2> QED
    BY <1>2, <2>2, <2>3 DEF AttachInv
<1>4. CASE Serve(i)
  <2>1. PICK p \in Nat : p = transit[i].act.arg
    BY HeldTypes DEF AttachInv
  <2>2. UNCHANGED followVars /\ run' = run
    BY <1>4 DEF Serve, Prompt, AnswerRoute, InterruptRoute
  <2>3. Prompt(p) \/ AnswerRoute(p) \/ InterruptRoute
    <3>1. CASE Prompt(transit[i].act.arg)
      BY <2>1, <3>1 DEF Prompt, Admitted
    <3>2. CASE AnswerRoute(transit[i].act.arg)
      BY <2>1, <3>2 DEF AnswerRoute, AnswerTakes
    <3> QED
      BY <1>4, <3>1, <3>2 DEF Serve
  <2>4. ServerInv' /\ Moves
    BY <2>3, PromptMoves, AnswerMoves, InterruptMoves DEF AttachInv
  <2>5. MirrorInv'
    BY <2>2, <2>4, ServerKeepsMirror DEF AttachInv
  <2> QED
    BY <1>2, <2>4, <2>5 DEF AttachInv
<1> QED
  BY <1>1, <1>3, <1>4

LEMMA AttachNext == AttachInv /\ [Next]_vars => AttachInv'
<1> SUFFICES ASSUME AttachInv, [Next]_vars PROVE AttachInv'
  OBVIOUS
<1>1. CASE There
  BY <1>1, ThereKeeps
<1>2. CASE Restart
  BY <1>2, RestartMirror, RestartKeeps DEF AttachInv
<1>3. CASE Reads
  BY <1>3, ReadsKeeps
<1>4. CASE Writes
  BY <1>4, WritesKeeps
<1>5. CASE Delivers
  BY <1>5, DeliversAll
<1>6. CASE UNCHANGED vars
  <2>1. UNCHANGED <<servedVars, followVars, relayVars>>
    BY <1>6 DEF vars
  <2>2. ServerInv'
    BY <2>1, ServerStays DEF AttachInv
  <2>3. MirrorInv'
    BY <2>1, MirrorStays DEF AttachInv, followVars
  <2>4. PromptsInv'
    BY <2>1, PromptsStay DEF AttachInv, servedVars
  <2> QED
    BY <2>2, <2>3, <2>4 DEF AttachInv
<1> QED
  BY <1>1, <1>2, <1>3, <1>4, <1>5, <1>6 DEF Next

LEMMA AttachShows == AttachInv => ShowsTheSession
<1> SUFFICES ASSUME AttachInv PROVE ShowsTheSession
  OBVIOUS
<1>1. PromptsOnceInOrder
  BY DEF AttachInv, PromptsInv, TakenOnce
<1>2. after \in Nat /\ shown \in Seq(Nat \X Nat) /\ ViewFollows
  BY DEF AttachInv, MirrorInv, MirrorTypes
<1>3. ShownOnce
  <2> SUFFICES ASSUME InStep
               PROVE  /\ \A n \in 1 .. after : <<run, n>> \in Range(shown)
                      /\ ~raced => shown = [n \in 1 .. after |-> <<run, n>>]
    BY DEF ShownOnce
  <2>1. /\ \A n \in 1 .. after : \E k \in 1 .. Len(shown) : shown[k] = <<run, n>>
        /\ ~raced => shown = [n \in 1 .. after |-> <<run, n>>]
    BY <1>2 DEF ViewFollows
  <2>2. DOMAIN shown = 1 .. Len(shown)
    BY <1>2
  <2>3. \A n \in 1 .. after : <<run, n>> \in Range(shown)
    BY <2>1, <2>2 DEF Range
  <2> QED
    BY <2>1, <2>3
<1>4. MirrorInStep
  <2> SUFFICES ASSUME InStep, ~raced, after = Latest PROVE Agrees(view)
    BY DEF MirrorInStep
  <2>1. Leads(view, after)
    BY <1>2 DEF ViewFollows
  <2> QED
    BY <2>1 DEF Leads
<1> QED
  BY <1>1, <1>3, <1>4 DEF ShowsTheSession

\* A mirror over a link that drops, falls behind and meets the server started again shows,
\* once it has caught up, what the session has, and the session takes each prompt once and in
\* order: for every size of the log and every number of prompts, approvals, faults and runs
\* (remote.rs follow and act, session.rs mirror and since, server.rs Seen).
THEOREM MirrorShows == Spec => []ShowsTheSession
<1>1. Init => AttachInv
  BY AttachInit
<1>2. AttachInv /\ [Next]_vars => AttachInv'
  BY AttachNext
<1>3. AttachInv => ShowsTheSession
  BY AttachShows
<1> QED
  BY <1>1, <1>2, <1>3, PTL DEF Spec
=============================================================================
