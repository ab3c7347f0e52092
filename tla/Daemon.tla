------------------------------- MODULE Daemon -------------------------------
(***************************************************************************)
(* bhai daemon (daemon.rs): one process that starts, reaches and stops     *)
(* served sessions, each a process of its own.  Requests to open, to close *)
(* and to reach a session run at once; sessions end by themselves, hang,   *)
(* or never come up; a client may hang up on its request; a signal stops   *)
(* the daemon.  Time is a choice: any deadline may pass.                   *)
(***************************************************************************)
EXTENDS Naturals, Sequences, FiniteSets

CONSTANTS
    Askers,         \* requests to the daemon
    SavedIds,       \* the sessions saved before it starts
    FreshIds,       \* what the n-th new session is called
    MaxStarts       \* a bound: processes started

ASSUME DaemonAssumption ==
    /\ MaxStarts \in Nat \ {0} /\ Len(FreshIds) >= MaxStarts
    /\ Askers \cap {"free", "daemon"} = {}

VARIABLES
    served,     \* the n-th session process: its session, and where it is
    roll,       \* the sessions that run: process numbers
    opens,      \* asker -> its request to open
    opening,    \* who holds the lock of that name
    stops,      \* the stops under way
    standing    \* "serving", "closing" or "gone"

daemonVars == <<served, roll, opens, opening, stops, standing>>

NoOpen == [at |-> "idle", id |-> "new", proc |-> 0]
DaemonInit ==
    /\ served = <<>> /\ roll = {} /\ opens = [a \in Askers |-> NoOpen]
    /\ opening = "free" /\ stops = {} /\ standing = "serving"

Ups(p) == served[p].at \in {"starting", "serving"}
Listed(id) == \E p \in roll : served[p].id = id
Known == SavedIds \cup {served[p].id : p \in {p \in DOMAIN served : served[p].said}}

\* A request to open comes; connections already made are served while the daemon closes.
AsksOpen(a) ==
    /\ opens[a].at = "idle" /\ standing # "gone" /\ Len(served) < MaxStarts
    /\ \E id \in Known \cup {"new"} : opens' = [opens EXCEPT ![a] = [NoOpen EXCEPT !.at = "asks", !.id = id]]
    /\ UNCHANGED <<served, roll, opening, stops, standing>>

Spawned(a, id) == [id |-> id, at |-> "starting", said |-> FALSE, told |-> FALSE]
\* A departure for the checks: the session is looked up without the lock.
SpawnsUnlocked(a) ==
    /\ opens[a].at = "asks" /\ standing # "gone" /\ Len(served) < MaxStarts
    /\ LET id == IF opens[a].id = "new" THEN FreshIds[Len(served) + 1] ELSE opens[a].id
       IN  IF Listed(id) THEN /\ opens' = [opens EXCEPT ![a] = NoOpen]
                              /\ UNCHANGED <<opening, served>>
           ELSE /\ served' = Append(served, Spawned(a, id))
                /\ opens' = [opens EXCEPT ![a].at = "waits", ![a].proc = Len(served) + 1]
                /\ opening' = a
    /\ UNCHANGED <<roll, stops, standing>>
\* open: under the lock the id is resolved and refused if it is on the roll, and its
\* process is spawned.  A new session's id is fresh, so that it is looked up here too, which
\* the code does not, refuses nothing.
Spawns(a) ==
    /\ opens[a].at = "asks" /\ opening = "free" /\ standing # "gone" /\ Len(served) < MaxStarts
    /\ LET id == IF opens[a].id = "new" THEN FreshIds[Len(served) + 1] ELSE opens[a].id
       IN  IF Listed(id) THEN /\ opens' = [opens EXCEPT ![a] = NoOpen]
                              /\ UNCHANGED <<opening, served>>
           ELSE /\ served' = Append(served, Spawned(a, id))
                /\ opens' = [opens EXCEPT ![a].at = "waits", ![a].proc = Len(served) + 1]
                /\ opening' = a
    /\ UNCHANGED <<roll, stops, standing>>

\* The process says its session and its server; it may still end before that is read.
Serves(p) ==
    /\ served[p].at = "starting"
    /\ served' = [served EXCEPT ![p].at = "serving", ![p].said = TRUE]
    /\ UNCHANGED <<roll, opens, opening, stops, standing>>
\* It ends: by itself, as a signal asks, or by a crash.
ProcEnds(p) ==
    /\ Ups(p) /\ served' = [served EXCEPT ![p].at = "ended"]
    /\ UNCHANGED <<roll, opens, opening, stops, standing>>

\* Its lines were read: it is on the roll.
OpensSession(a) ==
    /\ opens[a].at = "waits" /\ served[opens[a].proc].said
    /\ roll' = roll \cup {opens[a].proc}
    /\ opens' = [opens EXCEPT ![a] = NoOpen] /\ opening' = "free"
    /\ UNCHANGED <<served, stops, standing>>
\* It said nothing in time or ended first: it is killed and waited for, with the lock held.
OpenFails(a) ==
    /\ opens[a].at = "waits"
    /\ served' = [served EXCEPT ![opens[a].proc].at = "reaped"]
    /\ opens' = [opens EXCEPT ![a] = NoOpen] /\ opening' = "free"
    /\ UNCHANGED <<roll, stops, standing>>
\* The client hangs up: the request is dropped, and kill_on_drop with it.
OpenDropped(a) ==
    /\ opens[a].at \in {"asks", "waits"}
    /\ served' = IF opens[a].at = "waits" THEN [served EXCEPT ![opens[a].proc].at = "reaped"] ELSE served
    /\ opens' = [opens EXCEPT ![a] = NoOpen]
    /\ opening' = IF opening = a THEN "free" ELSE opening
    /\ UNCHANGED <<roll, stops, standing>>

\* The task of a session: waits for the process, reads its last lines, and only then
\* takes it off the roll and says it ended.
Reaps(p) ==
    /\ served[p].at = "ended" /\ p \in roll
    /\ served' = [served EXCEPT ![p].at = "reaped"]
    /\ UNCHANGED <<roll, opens, opening, stops, standing>>
Unlists(p) ==
    /\ served[p].at = "reaped" /\ p \in roll
    /\ roll' = {q \in roll : served[q].id # served[p].id}
    /\ served' = [served EXCEPT ![p].told = TRUE]
    /\ UNCHANGED <<opens, opening, stops, standing>>

\* close: find, then stop: SIGTERM, unless it has said that it ended.
ClosesSession(a) ==
    /\ standing # "gone" /\ opens[a].at = "idle"
    /\ \A s \in stops : s.by # a
    /\ \E p \in roll : stops' = stops \cup {[by |-> a, proc |-> p, at |-> "term"]}
    /\ UNCHANGED <<served, roll, opens, opening, standing>>
\* The deadline of its wind-down passed: SIGKILL.
StopKills(s) ==
    /\ s.at = "term" /\ ~served[s.proc].told
    /\ served' = [served EXCEPT ![s.proc].at = IF Ups(s.proc) THEN "ended" ELSE @]
    /\ stops' = (stops \ {s}) \cup {[s EXCEPT !.at = "kill"]}
    /\ UNCHANGED <<roll, opens, opening, standing>>
StopEnds(s) ==
    /\ served[s.proc].told \/ s.at = "kill"
    /\ stops' = stops \ {s}
    /\ UNCHANGED <<served, roll, opens, opening, standing>>

\* A signal: every session on the roll is stopped, together.
Signalled ==
    /\ standing = "serving" /\ standing' = "closing"
    /\ stops' = stops \cup {[by |-> "daemon", proc |-> p, at |-> "term"] : p \in roll}
    /\ UNCHANGED <<served, roll, opens, opening>>
\* A departure for the checks: the daemon goes without waiting for its stops, and what it
\* started lives on.
GoneAtOnce ==
    /\ standing = "closing" /\ standing' = "gone"
    /\ opens' = [a \in Askers |-> NoOpen] /\ opening' = "free" /\ stops' = {}
    /\ UNCHANGED <<served, roll>>
\* run returns; the tasks are dropped with the runtime, and the processes they hold killed.
DaemonGone ==
    /\ standing = "closing" /\ standing' = "gone"
    /\ \A s \in stops : s.by # "daemon"
    /\ served' = [p \in DOMAIN served |-> [served[p] EXCEPT !.at = "reaped"]]
    /\ opens' = [a \in Askers |-> NoOpen] /\ opening' = "free" /\ stops' = {}
    /\ UNCHANGED <<roll>>

DaemonNext ==
    \/ standing # "gone" /\
         \/ \E a \in Askers : \/ AsksOpen(a) \/ Spawns(a) \/ OpensSession(a)
                             \/ OpenFails(a) \/ OpenDropped(a) \/ ClosesSession(a)
         \/ \E p \in DOMAIN served : Serves(p) \/ ProcEnds(p) \/ Reaps(p) \/ Unlists(p)
         \/ \E s \in stops : StopKills(s) \/ StopEnds(s)
    \/ Signalled \/ DaemonGone

\* Deadlines pass, processes that ended are waited for, and lines that were said are read.
\* A process need not come up or heed a signal.
DaemonFairness ==
    /\ \A a \in Askers : WF_daemonVars(OpensSession(a) \/ OpenFails(a))
    /\ WF_daemonVars(\E p \in DOMAIN served : Reaps(p) \/ Unlists(p))
    /\ WF_daemonVars(\E s \in stops : StopKills(s) \/ StopEnds(s))
    /\ WF_daemonVars(DaemonGone)
DaemonSpec == DaemonInit /\ [][DaemonNext]_daemonVars /\ DaemonFairness

(***************************************************************************)
(* Properties.                                                             *)
(***************************************************************************)
\* "So two requests cannot both resume one id": no two processes of one session are up.
OneProcess ==
    \A p, q \in DOMAIN served : p # q /\ Ups(p) /\ Ups(q) => served[p].id # served[q].id

\* A process that is up is on the roll or is being opened, so a close, a list and the end
\* of the daemon find it; and none outlives the daemon.
NoneStrays ==
    \A p \in DOMAIN served : Ups(p) =>
        /\ standing # "gone"
        /\ p \in roll \/ \E a \in Askers : opens[a].at = "waits" /\ opens[a].proc = p

\* A close ends however the session hangs, and once signalled the daemon ends.
StopsEnd ==
    /\ \A a \in Askers : (\E s \in stops : s.by = a) ~> ~\E s \in stops : s.by = a
    /\ standing = "closing" ~> standing = "gone"

DaemonKept == [](OneProcess /\ NoneStrays) /\ StopsEnd

(***************************************************************************)
(* The ssh tunnel of an attach to such a session (tunnel.rs): one ssh,     *)
(* started again whenever it exits, until the attach closes; what it shows *)
(* of itself, and the wait for the first one.  The network comes and goes, *)
(* ssh may fail to start, and exits some time after its link died.         *)
(***************************************************************************)
CONSTANT MaxOutages     \* a bound: times the network goes
ASSUME TunnelAssumption == MaxOutages \in Nat

VARIABLES
    network,    \* the server's machine is reached
    outages,
    ssh,        \* "none", "dialing", "forwards", "dead" or "exited"
    keeper,     \* the task: "spawns", "waits", "hears", "rests" or "closed"
    shows,      \* the state it publishes
    first       \* what the wait for the first one came to: "waits", "up" or "failed"

tunnelVars == <<network, outages, ssh, keeper, shows, first>>

TunnelInit ==
    /\ network \in BOOLEAN /\ outages = 0
    /\ ssh = "none" /\ keeper = "spawns" /\ shows = "Starting" /\ first = "waits"

Outage ==
    /\ network /\ outages < MaxOutages
    /\ network' = FALSE /\ outages' = outages + 1
    /\ ssh' = IF ssh = "forwards" THEN "dead" ELSE ssh
    /\ UNCHANGED <<keeper, shows, first>>
\* It returns, soon enough for the link or not.
NetworkReturns ==
    /\ ~network /\ network' = TRUE
    /\ ssh' \in IF ssh = "dead" THEN {"dead", "forwards"} ELSE {ssh}
    /\ UNCHANGED <<outages, keeper, shows, first>>

\* ssh is started, or could not be run at all (while the network is gone: the bound on how
\* often).
SpawnsSsh ==
    /\ keeper = "spawns"
    /\ \/ /\ ssh' = "dialing" /\ keeper' = "waits" /\ shows' = "Starting"
       \/ /\ ~network /\ keeper' = "rests" /\ shows' = "Down" /\ UNCHANGED ssh
    /\ UNCHANGED <<network, outages, first>>
\* It comes up, exits when its dial failed, or by its keep-alives once its link is dead.
SshForwards ==
    /\ ssh = "dialing" /\ network /\ ssh' = "forwards"
    /\ UNCHANGED <<network, outages, keeper, shows, first>>
SshExits ==
    /\ ssh = "dead" \/ (ssh = "dialing" /\ ~network)
    /\ ssh' = "exited"
    /\ UNCHANGED <<network, outages, keeper, shows, first>>
\* A probe of the local port is answered: up, and never probed again for this ssh.
Probed ==
    /\ keeper = "waits" /\ ssh \in {"forwards", "dead"} /\ shows = "Starting"
    /\ shows' = "Up"
    /\ UNCHANGED <<network, outages, ssh, keeper, first>>
\* The exit is seen; what it said last is waited for, a while, before it is down.
Hears ==
    /\ keeper = "waits" /\ ssh = "exited"
    /\ keeper' = "hears" /\ ssh' = "none"
    /\ UNCHANGED <<network, outages, shows, first>>
TellsDown ==
    /\ keeper = "hears" /\ shows' = "Down" /\ keeper' = "rests"
    /\ UNCHANGED <<network, outages, ssh, first>>
\* A departure for the checks: a tunnel that was up once is not started again.
RestsForGood ==
    /\ keeper = "rests" /\ first # "up" /\ keeper' = "spawns" /\ shows' = "Starting"
    /\ UNCHANGED <<network, outages, ssh, first>>
Rests ==
    /\ keeper = "rests" /\ keeper' = "spawns" /\ shows' = "Starting"
    /\ UNCHANGED <<network, outages, ssh, first>>
\* first: whatever it sees the state to be, once it is not Starting, or its deadline; an
\* attach whose first tunnel failed ends.
First ==
    /\ first = "waits"
    /\ first' \in IF shows = "Up" THEN {"up"} ELSE {"failed"}
    /\ UNCHANGED <<network, outages, ssh, keeper, shows>>
\* close, or a drop: the task is aborted and ssh killed with it.
ClosesTunnel ==
    /\ keeper # "closed" /\ first # "waits"
    /\ keeper' = "closed" /\ ssh' = "none"
    /\ UNCHANGED <<network, outages, shows, first>>

TunnelNext ==
    \/ Outage \/ NetworkReturns \/ First
    \/ keeper # "closed" /\ (SpawnsSsh \/ SshForwards \/ SshExits \/ Probed \/ Hears \/ TellsDown \/ Rests)
    \/ ClosesTunnel

\* The task and ssh move on; the network need not.
TunnelFairness ==
    /\ WF_tunnelVars(SpawnsSsh \/ Hears \/ TellsDown \/ Rests)
    /\ WF_tunnelVars(SshForwards) /\ WF_tunnelVars(SshExits) /\ WF_tunnelVars(Probed)
TunnelSpec == TunnelInit /\ [][TunnelNext]_tunnelVars /\ TunnelFairness

-----------------------------------------------------------------------------
\* One ssh at a time, none after the close, and Up only with one that came up (or whose
\* end was not yet told).
OneSsh ==
    /\ keeper \in {"spawns", "hears", "rests", "closed"} => ssh = "none"
    /\ shows = "Up" /\ keeper = "waits" => ssh # "dialing"
\* Once the network stays, the tunnel comes up and stays up, however often it was lost.
TunnelReturns == <>[]network => <>[](keeper = "closed" \/ (shows = "Up" /\ ssh = "forwards"))

TunnelKept == []OneSsh /\ TunnelReturns
=============================================================================
