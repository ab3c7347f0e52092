-------------------------------- MODULE Attach --------------------------------
(***************************************************************************)
(* bhai attach against bhai --serve: what a mirror may be relied on for,   *)
(* over links that drop and servers that start again.                      *)
(***************************************************************************)
EXTENDS Follow

vars == <<servedVars, followVars, relayVars>>

TypeOK == ServedTypeOK /\ FollowTypeOK /\ RelayTypeOK

Init == ServedInit /\ FollowInit /\ RelayInit

There == Agent /\ UNCHANGED <<followVars, relayVars>>
Restart == Restarted /\ StreamDies /\ RequestsDie
Reads == (Reading \/ ReadingFaults) /\ UNCHANGED relayVars
Writes == User \/ Act
Delivers == \E i \in 1 .. Len(transit) : Serve(i) \/ Loses(i)

Next == There \/ Restart \/ Reads \/ Writes \/ Delivers

Spec == Init /\ [][Next]_vars

-----------------------------------------------------------------------------
(* Safety. *)

InStep == seeded = run /\ ~gap

\* Everything up to the last event seen is on screen, whether it came by snapshot or by
\* the stream (remote.rs Frame, session.rs state: "replayed, not lost"): once each and in
\* order, unless the snapshot was read while the session went on (remote.rs: a snapshot
\* already holds what the stream replays).
ShownOnce ==
    InStep => /\ \A n \in 1 .. after : <<run, n>> \in Range(shown)
              /\ ~raced => shown = [n \in 1 .. after |-> <<run, n>>]

\* The turn is under way and the approval asked for as the session has them, and what waits
\* is what it has, with what the turn took and has not shown ahead of it; a prompt queued
\* behind such prompts is given its place without them, and may go missing with them.
Agrees(shows) ==
    /\ shows.working = srv.working /\ shows.pending = srv.pending
    /\ ~crossed => shows.queue = taken \o srv.queue
    /\ Len(shows.queue) <= Len(taken) + Len(srv.queue)

\* A mirror that has caught up shows the state of the session (session.rs mirror), but for
\* such a prompt until the session is idle.
MirrorInStep == InStep /\ ~raced /\ after = Latest => Agrees(view)

\* Each run takes a prompt once, and the prompts in the order they were given, however
\* often and however late their requests arrive (server.rs Seen, remote.rs act).
PromptsOnceInOrder ==
    \A i, j \in 1 .. Len(submitted) :
        i < j /\ submitted[i][1] = submitted[j][1] => submitted[i][2] < submitted[j][2]

\* A mirror and what it follows agree, in both directions: the events shown and the state
\* they add up to, and the prompts taken.
ShowsTheSession == ShownOnce /\ MirrorInStep /\ PromptsOnceInOrder

-----------------------------------------------------------------------------
(* Liveness: faults come to an end, tasks are scheduled, requests arrive. *)

Fairness ==
    /\ WF_vars(Reading /\ UNCHANGED relayVars)
    /\ WF_vars(Act)
    /\ \A i \in 1 .. 3 : WF_vars(Serve(i))
    /\ WF_vars(Lands /\ UNCHANGED <<followVars, relayVars>>)

FairSpec == Spec /\ Fairness

\* One prompt fewer with restarts, faults and approvals, or every prompt without them.
Few == \/ run = 1 /\ nextId = 0 /\ faults = 0 /\ given = 1
       \/ run = MaxRuns /\ nextId = MaxAsks /\ faults = MaxFaults /\ given = 0
FewInit == Init /\ Few

\* A mirror catches up with what is served (remote.rs follow).
CatchesUp == []<>(after = Latest)

\* Every prompt given is taken in, over every fault (remote.rs act, retried).
PromptArrives ==
    []<>(\A p \in 1 .. sent : \E i \in 1 .. Len(submitted) : submitted[i][2] = p)

\* Faults come to an end, and both directions recover from them.
FaultsRiddenOut == CatchesUp /\ PromptArrives
=============================================================================
