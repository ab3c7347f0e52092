------------------------------- MODULE McpServers -------------------------------
(***************************************************************************)
(* mcp/mod.rs and mcp/servers.rs: the MCP servers of a session.  Those its *)
(* identity allows are started at launch; the others are started by the    *)
(* first child that may use them; /mcp reload restarts one from the config *)
(* as it is now.  CallsTool find a tool, then the connection to its server,    *)
(* while all this goes on.  A server of .mcp.json is held to the           *)
(* definition and to the tool catalog it was approved with.                *)
(***************************************************************************)
EXTENDS Integers, Sequences, FiniteSets

CONSTANTS
    Launched,        \* servers the session's identity allows
    Deferred,        \* servers only a child may start
    Repo,            \* those of .mcp.json, held to their approval
    McpCallers,      \* conversations with a view of the hub
    ViewOf,          \* the servers the identity of each allows
    Reloads,         \* /mcp reload, as tasks
    MaxConns,        \* bound on the connections started after launch
    MaxEdits         \* bound on what happens to configs and servers

ASSUME McpAssumption ==
    /\ Launched \cap Deferred = {} /\ IsFiniteSet(Launched)
    /\ McpCallers \cap Reloads = {} /\ "none" \notin McpCallers \cup Reloads
    /\ ViewOf \in [McpCallers -> SUBSET (Launched \cup Deferred)]

VARIABLES
    conf,        \* of each server: its definition, the one approved, its catalog, the one pinned
    conns,       \* every connection started: its server, its tools, and how it is
    services,    \* connections kept for shutdown, and whether there still is such a list
    entry,       \* servers as they came up at launch: the peers every view is given
    reloaded,    \* launched servers as they came back from a reload
    late,        \* deferred servers started so far
    lateBy,      \* who holds late's lock
    reloadBy,    \* which reload is under way
    mcpTask,     \* where each caller and each reload is
    edits        \* what has happened to configs and servers

mcpVars == <<conf, conns, services, entry, reloaded, late, lateBy, reloadBy, mcpTask, edits>>

Configured == Launched \cup Deferred
Tasks == McpCallers \cup Reloads
Down == [state |-> "down", conn |-> 0]
NoEntry == [state |-> "none", conn |-> 0]
Up(i) == [state |-> "up", conn |-> i]
NoTask == [pc |-> "idle", server |-> "none", conn |-> 0, pending |-> {}, skip |-> FALSE, old |-> {}]
NewConn(s, how) == [server |-> s, catalog |-> conf[s].serves, live |-> how]
Changed(s) == s \in Repo /\ conf[s].defn # conf[s].approved
Running(s) == {i \in DOMAIN conns : conns[i].server = s /\ conns[i].live # "dead"}

McpInit ==
    /\ \E stale \in SUBSET Repo : conf = [s \in Configured |->
           [defn |-> 1, approved |-> IF s \in stale THEN 0 ELSE 1,
            serves |-> 1, pinned |-> IF s \in Repo \ stale THEN 1 ELSE 0]]
    /\ \E up \in SUBSET {s \in Launched : ~Changed(s)} :
        \E order \in [1..Cardinality(up) -> up] :
            /\ \A i, j \in DOMAIN order : i # j => order[i] # order[j]
            /\ conns = [i \in DOMAIN order |-> NewConn(order[i], "up")]
            /\ entry = [s \in Configured |->
                   IF s \in up THEN Up(CHOOSE i \in DOMAIN order : order[i] = s) ELSE Down]
    /\ services = [open |-> TRUE, kept |-> DOMAIN conns]
    /\ reloaded = [s \in Launched |-> NoEntry] /\ late = [s \in Deferred |-> NoEntry]
    /\ lateBy = "none" /\ reloadBy = "none"
    /\ mcpTask = [t \in Tasks |-> NoTask] /\ edits = 0

At(t, pc) == mcpTask[t].pc = pc
Ends(t) == mcpTask' = [mcpTask EXCEPT ![t] = NoTask]

-----------------------------------------------------------------------------
(* Starting servers: start_one, keep. *)

\* The server comes up and lists its tools, within its time.  Its catalog is pinned when
\* nothing is, and held to what is pinned.
Fits(i) == LET c == conns[i] IN
    c.server \in Repo => conf[c.server].pinned \in {0, c.catalog}
Pinned(i) ==
    LET s == conns[i].server
    IN  [conf EXCEPT ![s].pinned = IF s \in Repo THEN conns[i].catalog ELSE @]
\* Mutant: a catalog that is not the pinned one is let through.
ComesAnyhow(i) ==
    /\ conns[i].live = "starting"
    /\ conf' = (IF Fits(i) THEN Pinned(i) ELSE conf) /\ conns' = [conns EXCEPT ![i].live = "up"]
    /\ UNCHANGED <<services, entry, reloaded, late, lateBy, reloadBy, mcpTask, edits>>
Comes(i) ==
    /\ conns[i].live = "starting"
    /\ \/ Fits(i) /\ conf' = Pinned(i) /\ conns' = [conns EXCEPT ![i].live = "up"]
       \/ UNCHANGED conf /\ conns' = [conns EXCEPT ![i].live = "dead"]
    /\ UNCHANGED <<services, entry, reloaded, late, lateBy, reloadBy, mcpTask, edits>>

\* keep: the connection goes with the others, or, the session closing, is dropped.
\* Mutant: a connection is handed out though nothing will close it.
KeepsAny(is) ==
    /\ services' = [services EXCEPT !.kept = IF services.open THEN @ \cup is ELSE @]
    /\ UNCHANGED conns
Keeps(is) ==
    IF services.open
    THEN services' = [services EXCEPT !.kept = @ \cup is] /\ UNCHANGED conns
    ELSE /\ conns' = [i \in DOMAIN conns |-> [conns[i] EXCEPT !.live = IF i \in is THEN "dead" ELSE @]]
         /\ UNCHANGED services
Came(i) == IF conns[i].live = "up" /\ services.open THEN Up(i) ELSE Down
Started(t) == {i \in DOMAIN conns : i \in mcpTask[t].pending}
Settled(t) == \A i \in Started(t) : conns[i].live # "starting"

-----------------------------------------------------------------------------
(* A call: find, peer; or find_late, which starts the view's deferred servers. *)

\* live: a launched server as it is now.  One that came back from a reload stands in.
Now(s) == IF reloaded[s] # NoEntry THEN reloaded[s] ELSE entry[s]
\* Connections that a reload which has ended put behind it.
Superseded(s) ==
    LET shown == IF s \in Launched THEN Now(s) ELSE late[s]
        coming == UNION {mcpTask[t].pending : t \in Tasks}
    IN  IF shown = NoEntry THEN {}
        ELSE {i \in DOMAIN conns : conns[i].server = s} \ ({shown.conn} \cup coming)
BeginCall(c) ==
    /\ At(c, "idle")
    /\ \E s \in ViewOf[c] :
        /\ s \in Launched => Now(s).state = "up"
        /\ mcpTask' = [mcpTask EXCEPT ![c].server = s,
               ![c].pc = IF s \in Launched THEN "found" ELSE "late", ![c].old = Superseded(s)]
    /\ UNCHANGED <<conf, conns, services, entry, reloaded, late, lateBy, reloadBy, edits>>
\* Mutant: a view's own peers come first.
PeerOwn(s) == IF entry[s].state = "up" THEN entry[s] ELSE reloaded[s]
Peer(s) == Now(s)
CallsTool(c, e) ==
    IF e.state = "up" THEN mcpTask' = [mcpTask EXCEPT ![c].pc = "calling", ![c].conn = e.conn]
                      ELSE Ends(c)
FindPeer(c) ==
    /\ At(c, "found") /\ CallsTool(c, Peer(mcpTask[c].server))
    /\ UNCHANGED <<conf, conns, services, entry, reloaded, late, lateBy, reloadBy, edits>>
\* start_deferred: under late's lock, those of the view that nobody has started yet.
Pending(c) == {s \in ViewOf[c] \cap Deferred : late[s] = NoEntry}
Spawns(s) ==
    /\ Len(conns) < MaxConns
    /\ conns' = Append(conns, NewConn(s, "starting"))
StartDeferred(c) ==
    /\ At(c, "late") /\ lateBy = "none"
    /\ IF Pending(c) = {}
       THEN /\ mcpTask' = [mcpTask EXCEPT ![c].pc = "started"]
            /\ UNCHANGED <<conns, lateBy>>
       ELSE \E s \in Pending(c) :
            /\ Spawns(s) /\ lateBy' = c
            /\ mcpTask' = [mcpTask EXCEPT ![c].pc = "starting", ![c].pending = {Len(conns) + 1}]
    /\ UNCHANGED <<conf, services, entry, reloaded, late, reloadBy, edits>>
StartsMore(c) ==
    /\ At(c, "starting")
    /\ \E s \in Pending(c) \ {conns[i].server : i \in Started(c)} :
        /\ Spawns(s)
        /\ mcpTask' = [mcpTask EXCEPT ![c].pending = @ \cup {Len(conns) + 1}]
    /\ UNCHANGED <<conf, services, entry, reloaded, late, lateBy, reloadBy, edits>>
KeepLate(c) ==
    /\ At(c, "starting") /\ Settled(c)
    /\ Pending(c) = {conns[i].server : i \in Started(c)}
    /\ late' = [s \in Deferred |->
           IF s \in Pending(c) THEN Came(CHOOSE i \in Started(c) : conns[i].server = s) ELSE late[s]]
    /\ Keeps({i \in Started(c) : conns[i].live = "up"})
    /\ lateBy' = "none"
    /\ mcpTask' = [mcpTask EXCEPT ![c].pc = "started", ![c].pending = {}]
    /\ UNCHANGED <<conf, entry, reloaded, reloadBy, edits>>
\* late_tools, then the connection, each under the lock.
LateTools(c) ==
    /\ At(c, "started") /\ lateBy = "none"
    /\ IF late[mcpTask[c].server].state = "up"
       THEN mcpTask' = [mcpTask EXCEPT ![c].pc = "foundLate"] ELSE Ends(c)
    /\ UNCHANGED <<conf, conns, services, entry, reloaded, late, lateBy, reloadBy, edits>>
LatePeer(c) ==
    /\ At(c, "foundLate") /\ lateBy = "none" /\ CallsTool(c, late[mcpTask[c].server])
    /\ UNCHANGED <<conf, conns, services, entry, reloaded, late, lateBy, reloadBy, edits>>
\* It answers, fails, or is given up on.
CallReturns(c) ==
    /\ At(c, "calling") /\ Ends(c)
    /\ UNCHANGED <<conf, conns, services, entry, reloaded, late, lateBy, reloadBy, edits>>
\* The turn is interrupted: the call is dropped, and with it the servers it was starting.
AbandonsStart(c) ==
    /\ mcpTask[c].pc \notin {"idle", "found"} /\ Ends(c)
    /\ conns' = [i \in DOMAIN conns |->
           [conns[i] EXCEPT !.live = IF i \in Started(c) THEN "dead" ELSE @]]
    /\ lateBy' = IF lateBy = c THEN "none" ELSE lateBy
    /\ UNCHANGED <<conf, services, entry, reloaded, late, reloadBy, edits>>

-----------------------------------------------------------------------------
(* /mcp reload. *)

\* The config is read; a session that had no tools at launch cannot reload.
HasTools == \E s \in Launched : entry[s].state = "up"
Reload(r) ==
    /\ At(r, "idle") /\ services.open
    /\ \E s \in Configured :
        /\ s \in Deferred \/ HasTools \/ Deferred # {}
        /\ mcpTask' = [mcpTask EXCEPT ![r].pc = "reloading", ![r].server = s, ![r].skip = Changed(s)]
    /\ UNCHANGED <<conf, conns, services, entry, reloaded, late, lateBy, reloadBy, edits>>
LockReload(r) ==
    /\ At(r, "reloading") /\ reloadBy = "none" /\ reloadBy' = r
    /\ mcpTask' = [mcpTask EXCEPT ![r].pc = IF mcpTask[r].server \in Deferred THEN "lock" ELSE "close"]
    /\ UNCHANGED <<conf, conns, services, entry, reloaded, late, lateBy, edits>>
LockLate(r) ==
    /\ At(r, "lock") /\ lateBy = "none" /\ lateBy' = r
    /\ mcpTask' = [mcpTask EXCEPT ![r].pc = "close"]
    /\ UNCHANGED <<conf, conns, services, entry, reloaded, late, reloadBy, edits>>
OfServer(r) == {i \in services.kept : conns[i].server = mcpTask[r].server}
\* Mutant: the connection is left to shutdown, which closes it too.
CloseNot(r) ==
    /\ At(r, "close")
    /\ mcpTask' = [mcpTask EXCEPT ![r].pc = "start"]
    /\ UNCHANGED <<conf, conns, services, entry, reloaded, late, lateBy, reloadBy, edits>>
Close(r) ==
    /\ At(r, "close")
    /\ IF services.open
       THEN /\ services' = [services EXCEPT !.kept = @ \ OfServer(r)]
            /\ mcpTask' = [mcpTask EXCEPT ![r].pc = "closing", ![r].pending = OfServer(r)]
       ELSE mcpTask' = [mcpTask EXCEPT ![r].pc = "start"] /\ UNCHANGED services
    /\ UNCHANGED <<conf, conns, entry, reloaded, late, lateBy, reloadBy, edits>>
Closed(r) ==
    /\ At(r, "closing")
    /\ conns' = [i \in DOMAIN conns |->
           [conns[i] EXCEPT !.live = IF i \in mcpTask[r].pending THEN "dead" ELSE @]]
    /\ mcpTask' = [mcpTask EXCEPT ![r].pc = "start", ![r].pending = {}]
    /\ UNCHANGED <<conf, services, entry, reloaded, late, lateBy, reloadBy, edits>>
StartAgain(r) ==
    /\ At(r, "start")
    /\ IF mcpTask[r].skip
       THEN /\ mcpTask' = [mcpTask EXCEPT ![r].pc = "keep"]
            /\ UNCHANGED conns
       ELSE /\ Spawns(mcpTask[r].server)
            /\ mcpTask' = [mcpTask EXCEPT ![r].pc = "keep", ![r].pending = {Len(conns) + 1}]
    /\ UNCHANGED <<conf, services, entry, reloaded, late, lateBy, reloadBy, edits>>
KeepReloaded(r) ==
    /\ At(r, "keep") /\ Settled(r)
    /\ LET s == mcpTask[r].server
           up == {i \in Started(r) : conns[i].live = "up"}
           came == IF up = {} THEN Down ELSE Came(CHOOSE i \in up : TRUE)
       IN  /\ Keeps(up)
           /\ IF s \in Deferred
              THEN late' = [late EXCEPT ![s] = came] /\ lateBy' = "none" /\ UNCHANGED reloaded
              ELSE reloaded' = [reloaded EXCEPT ![s] = came] /\ UNCHANGED <<late, lateBy>>
    /\ reloadBy' = "none" /\ Ends(r)
    /\ UNCHANGED <<conf, entry, edits>>

-----------------------------------------------------------------------------
(* The end of the session, and what happens to configs and servers meanwhile. *)

Shutdown ==
    /\ services.open /\ services' = [open |-> FALSE, kept |-> services.kept]
    /\ UNCHANGED <<conf, conns, entry, reloaded, late, lateBy, reloadBy, mcpTask, edits>>
Shut ==
    /\ ~services.open /\ services.kept # {}
    /\ \E i \in services.kept :
        /\ services' = [services EXCEPT !.kept = @ \ {i}]
        /\ conns' = [conns EXCEPT ![i].live = "dead"]
    /\ UNCHANGED <<conf, entry, reloaded, late, lateBy, reloadBy, mcpTask, edits>>
Edited(s, c) ==
    /\ edits < MaxEdits /\ edits' = edits + 1 /\ services.open
    /\ conf' = [conf EXCEPT ![s] = c]
    /\ UNCHANGED <<conns, services, entry, reloaded, late, lateBy, reloadBy, mcpTask>>
\* The checkout is edited, the server's program is, or bhai mcp approve accepts both.
Redefined(s) == Edited(s, [conf[s] EXCEPT !.defn = @ + 1])
Updated(s) == Edited(s, [conf[s] EXCEPT !.serves = @ + 1])
Approve(s) == s \in Repo /\ Edited(s, [conf[s] EXCEPT !.approved = conf[s].defn, !.pinned = 0])

CallerSteps(c) ==
    \/ BeginCall(c) \/ FindPeer(c) \/ StartDeferred(c) \/ StartsMore(c) \/ KeepLate(c)
    \/ LateTools(c) \/ LatePeer(c) \/ CallReturns(c) \/ AbandonsStart(c)
ReloadSteps(r) ==
    \/ Reload(r) \/ LockReload(r) \/ LockLate(r) \/ Close(r) \/ Closed(r)
    \/ StartAgain(r) \/ KeepReloaded(r)
McpNext ==
    \/ \E c \in McpCallers : CallerSteps(c)
    \/ \E r \in Reloads : ReloadSteps(r)
    \/ \E i \in DOMAIN conns : Comes(i)
    \/ \E s \in Configured : Redefined(s) \/ Updated(s) \/ Approve(s)
    \/ Shutdown \/ Shut
McpSpec == McpInit /\ [][McpNext]_mcpVars

-----------------------------------------------------------------------------
(* What holds of the servers and the calls. *)

\* A server is run once at a time, however starts, first calls and reloads fall, until the
\* session closes.
RunOnce == services.open => \A s \in Configured : Cardinality(Running(s)) <= 1
\* Once the session has closed, no server is left running but one whose start is under way
\* and that its task drops (mod.rs 901: "failed when the session is already closing").
NoneLeftUp ==
    ~services.open /\ services.kept = {} =>
        \A i \in DOMAIN conns : conns[i].live # "dead" => \E t \in Tasks : i \in mcpTask[t].pending
\* A call that began after a reload had ended reaches what came back, also from a view that
\* was given its connections before (mod.rs 470).
FollowsReload ==
    \A c \in McpCallers : At(c, "calling") => mcpTask[c].conn \notin mcpTask[c].old
\* What runs of .mcp.json serves the tools it was approved with, until it is approved anew
\* and restarted (servers.rs 75).
PinHolds ==
    services.open => \A i \in DOMAIN conns :
        conns[i].live = "up" /\ conns[i].server \in Repo =>
            conf[conns[i].server].pinned \in {0, conns[i].catalog}
ServersApart == RunOnce /\ NoneLeftUp /\ FollowsReload /\ PinHolds
=============================================================================
