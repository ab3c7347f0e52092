-------------------------------- MODULE Follow --------------------------------
(***************************************************************************)
(* bhai attach (remote.rs follow and act, session.rs seed and mirror): a   *)
(* local session kept in step with a served one over a stream that drops,  *)
(* falls behind the log, or turns out to be another run of the server, and *)
(* what the user does there sent to it.                                    *)
(***************************************************************************)
EXTENDS Served

CONSTANT MaxFaults      \* bound: cuts, lost answers and lost requests

VARIABLES
    follow,       \* where follow is
    cut,          \* the stream is dead and follow has not noticed
    cursor,       \* the last event the server put on the stream
    wire,         \* frames sent and not yet read: an event's number, or 0 for a lag
    after,        \* the last event seen
    up,           \* what follow tells act
    stage,        \* how far the server is with a snapshot
    snapSeq, snapView,      \* what it has read of it
    snapTaken,    \* history: whether the turn held prompts it had not shown
    view,         \* what the mirror shows of /state
    shown,        \* the transcript the mirror shows: <<run, number>>
    faults,
    \* History variables.
    seeded,       \* the run the last snapshot was of
    gap,          \* a lag was left unread
    raced         \* the last snapshot was read while the session went on

followVars == <<follow, cut, cursor, wire, after, up, stage, snapSeq, snapView,
                snapTaken, view, shown, faults, seeded, gap, raced>>

FollowTypeOK ==
    /\ follow \in {"down", "open", "lagged", "conflict"}
    /\ cut \in BOOLEAN /\ up \in BOOLEAN /\ gap \in BOOLEAN
    /\ raced \in BOOLEAN /\ snapTaken \in BOOLEAN
    /\ cursor \in Nat /\ after \in Nat /\ snapSeq \in Nat
    /\ wire \in Seq(Nat)
    /\ stage \in {"none", "asked", "seq", "state"}
    /\ snapView \in View /\ view \in View
    /\ shown \in Seq((1 .. MaxRuns) \X Nat)
    /\ faults \in 0 .. MaxFaults
    /\ seeded \in 1 .. MaxRuns

\* connect: seeded from a snapshot, and act told the link is up before it is.
FollowInit ==
    /\ follow = "down" /\ cut = FALSE /\ cursor = 0 /\ wire = <<>>
    /\ after = 0 /\ up = TRUE
    /\ stage = "none" /\ snapSeq = 0 /\ snapView = Blank /\ snapTaken = FALSE
    /\ view = Blank /\ shown = <<>>
    /\ faults \in 0 .. MaxFaults /\ seeded = run /\ gap = FALSE /\ raced = FALSE

Fault == faults < MaxFaults /\ faults' = faults + 1
Screen == UNCHANGED <<view, shown, seeded, raced>>
Snapshot == UNCHANGED <<stage, snapSeq, snapView, snapTaken>>

-----------------------------------------------------------------------------
(* The stream. *)

\* Mutant: the stream goes on from the newest, not from what was seen.
ConnectsNewest ==
    /\ follow = "down"
    /\ follow' = "open"
    /\ cut' = FALSE /\ cursor' = Latest /\ wire' = <<>> /\ up' = TRUE
    /\ Screen
    /\ UNCHANGED <<servedVars, stage, after, snapSeq, snapView, snapTaken, faults, gap>>

\* A number from the future is another run's: 409.
Connects ==
    /\ follow = "down"
    /\ \/ /\ after > Latest
          /\ follow' = "conflict" /\ stage' = "asked"
          /\ UNCHANGED <<cut, cursor, wire, up>>
       \/ /\ after <= Latest
          /\ follow' = "open"
          /\ cut' = FALSE /\ cursor' = after /\ wire' = <<>> /\ up' = TRUE
          /\ UNCHANGED stage
    /\ Screen
    /\ UNCHANGED <<servedVars, after, snapSeq, snapView, snapTaken, faults, gap>>

\* Everything newer than the stream has sent, behind the notice of what it missed.
Streams ==
    /\ follow \in {"open", "lagged"} /\ ~cut
    /\ cursor < Latest
    /\ wire' = wire \o (IF Missed(cursor) > 0 THEN <<0>> ELSE <<>>) \o Newer(cursor)
    /\ cursor' = Latest
    /\ Screen /\ Snapshot
    /\ UNCHANGED <<servedVars, follow, cut, after, up, faults, gap>>

\* The link dies; some of what was on its way still arrives.
Cuts ==
    /\ follow \in {"open", "lagged"} /\ ~cut
    /\ Fault
    /\ cut' = TRUE
    /\ \E n \in 0 .. Len(wire) : wire' = SubSeq(wire, 1, n)
    /\ Screen /\ Snapshot
    /\ UNCHANGED <<servedVars, follow, cursor, after, up, gap>>

\* The stream ends or stays silent too long: dropped, to be opened again.
Notices ==
    /\ follow = "open" /\ cut /\ wire = <<>>
    /\ follow' = "down" /\ up' = FALSE
    /\ Screen /\ Snapshot
    /\ UNCHANGED <<servedVars, cut, cursor, wire, after, faults, gap>>

-----------------------------------------------------------------------------
(* The mirror. *)

Popped(queue) == IF queue = <<>> THEN <<>> ELSE Tail(queue)
\* retain, of ids that are there once.
Without(ids, id) ==
    IF \E i \in DOMAIN ids : ids[i] = id
    THEN RemoveAt(ids, CHOOSE i \in DOMAIN ids : ids[i] = id)
    ELSE ids

\* Mutant: a prompt that starts behind the turn stays in the queue shown.
MirroredQueued(shows, event) ==
    CASE event.kind = "user" -> [shows EXCEPT !.working = TRUE]
      [] event.kind = "steered" -> [shows EXCEPT !.queue = Popped(@)]
      [] event.kind = "queued" -> [shows EXCEPT !.queue = Append(@, event.arg)]
      [] event.kind = "turnend" -> [shows EXCEPT !.working = shows.queue # <<>>]
      [] event.kind = "approval" -> [shows EXCEPT !.pending = <<event.arg>>]
      [] event.kind = "resolved" -> [shows EXCEPT !.pending = <<>>]
      [] OTHER -> shows

\* mirror: what an event makes of the state shown.
Mirrored(shows, event) ==
    CASE event.kind = "user" -> [shows EXCEPT !.working = TRUE, !.queue = Popped(@)]
      [] event.kind = "steered" -> [shows EXCEPT !.queue = Popped(@)]
      [] event.kind = "queued" ->
           [shows EXCEPT !.queue = Append(SubSeq(@, 1, IF event.pos - 1 < Len(@)
                                                      THEN event.pos - 1 ELSE Len(@)),
                                         event.arg)]
      [] event.kind = "turnend" -> [shows EXCEPT !.working = shows.queue # <<>>]
      [] event.kind = "approval" ->
           [shows EXCEPT !.pending = <<event.arg>> \o Without(@, event.arg)]
      [] event.kind = "resolved" -> [shows EXCEPT !.pending = Without(@, event.arg)]
      [] OTHER -> shows

\* Mutant: an event already seen is shown again.
SkipNone(n) == FALSE

\* What is at or before the last seen was in the snapshot already.
Skips(n) == n <= after
\* A lag is met with a snapshot.
Rereads == Head(wire) = 0

Frame ==
    /\ follow = "open" /\ wire # <<>>
    /\ wire' = Tail(wire)
    /\ \/ /\ Rereads
          /\ follow' = "lagged" /\ stage' = "asked"
          /\ Screen
          /\ UNCHANGED after
       \/ /\ ~Rereads
          /\ IF Skips(Head(wire))
             THEN Screen /\ UNCHANGED after
             ELSE /\ after' = Head(wire)
                  /\ view' = Mirrored(view, log[Head(wire)])
                  /\ shown' = Append(shown, <<run, Head(wire)>>)
                  /\ UNCHANGED <<seeded, raced>>
          /\ UNCHANGED <<follow, stage>>
    /\ UNCHANGED <<servedVars, cut, cursor, up, snapSeq, snapView, snapTaken, faults, gap>>

-----------------------------------------------------------------------------
(* A snapshot: the number first, then the state, then the transcript. *)

Asked == follow \in {"lagged", "conflict"}
SnapRest == UNCHANGED <<servedVars, follow, cut, cursor, wire, after, up, faults, gap>>

ReadsSeq ==
    /\ Asked /\ stage = "asked"
    /\ stage' = "seq" /\ snapSeq' = Latest
    /\ Screen /\ SnapRest
    /\ UNCHANGED <<snapView, snapTaken>>

ReadsState ==
    /\ Asked /\ stage = "seq"
    /\ stage' = "state" /\ snapView' = srv
    /\ snapTaken' = (taken # <<>>)
    /\ Screen /\ SnapRest
    /\ UNCHANGED snapSeq

\* The transcript is read, the answer arrives, and seed starts the mirror over.
Seeds ==
    /\ Asked /\ stage = "state"
    /\ stage' = "none"
    /\ view' = snapView
    /\ shown' = [n \in 1 .. Latest |-> <<run, n>>]
    /\ after' = snapSeq
    /\ seeded' = run
    /\ gap' = FALSE
    /\ raced' = (snapTaken \/ snapSeq # Latest)
    /\ follow' = IF follow = "lagged" THEN "open" ELSE "down"
    /\ UNCHANGED <<servedVars, cut, cursor, wire, up, snapSeq, snapView, snapTaken, faults>>

\* No snapshot came: the stream goes on, or the link is taken for down.
SnapLost ==
    /\ stage' = "none"
    /\ \/ follow = "lagged" /\ follow' = "open" /\ gap' = TRUE /\ UNCHANGED up
       \/ follow = "conflict" /\ follow' = "down" /\ up' = FALSE /\ UNCHANGED gap

SeedFails ==
    /\ Asked /\ stage # "none"
    /\ Fault
    /\ SnapLost
    /\ Screen
    /\ UNCHANGED <<servedVars, cut, cursor, wire, after, snapSeq, snapView, snapTaken>>

\* What a restart of the server does to the reading side: the stream dies, and with it
\* a snapshot under way.  What had arrived was read before it.
StreamDies ==
    /\ cut' = TRUE /\ wire' = <<>>
    /\ IF stage \in {"seq", "state"} THEN SnapLost ELSE UNCHANGED <<stage, follow, gap, up>>
    /\ Screen
    /\ UNCHANGED <<cursor, after, snapSeq, snapView, snapTaken, faults>>

Reading ==
    Connects \/ Streams \/ Notices \/ Frame \/ ReadsSeq \/ ReadsState \/ Seeds
ReadingFaults == Cuts \/ SeedFails

-----------------------------------------------------------------------------
(* The writing: what the user does here leaves as one request at a time, in  *)
(* order, and is held while the link is down.  A request or its answer may   *)
(* be lost, and one given up on may still arrive.                            *)


VARIABLES
    actions,      \* given by the user, act has not come to them
    held,         \* Held: taken by act, the first being sent
    awaiting,     \* act awaits the answer to the first
    transit,      \* requests on their way, one of them the one awaited
    reply,        \* the answer on its way back
    given,        \* what the user has done
    \* History variable.
    sent          \* prompts given

relayVars == <<actions, held, awaiting, transit, reply, given, sent>>

Action == [op : {"prompt", "answer", "interrupt"}, arg : Nat]
RelayTypeOK ==
    /\ actions \in Seq(Action)
    /\ held \in Seq([act : Action, late : BOOLEAN])
    /\ awaiting \in BOOLEAN
    /\ transit \in Seq([act : Action, live : BOOLEAN])
    /\ reply \in {"none", "ok", "conflict"}
    /\ given \in 0 .. MaxGiven
    /\ sent \in 0 .. MaxGiven

RelayInit ==
    /\ actions = <<>> /\ held = <<>> /\ awaiting = FALSE
    /\ transit = <<>> /\ reply = "none"
    /\ given \in 0 .. MaxGiven /\ sent = 0

-----------------------------------------------------------------------------
(* The user: forward, answer and interrupt of an attached session. *)

Elsewhere == UNCHANGED <<servedVars, followVars>>
Does(op, arg) ==
    /\ actions' = Append(actions, [op |-> op, arg |-> arg])
    /\ Elsewhere
    /\ UNCHANGED <<held, awaiting, transit, reply>>

Once == given < MaxGiven /\ given' = given + 1

GivesPrompt ==
    /\ Once
    /\ sent' = sent + 1
    /\ Does("prompt", sent + 1)

\* The approval the mirror shows, and a stop while the mirror says it works.
GivesAnswer ==
    /\ Once
    /\ view.pending # <<>>
    /\ Does("answer", Head(view.pending))
    /\ UNCHANGED sent

GivesInterrupt ==
    /\ Once
    /\ view.working
    /\ Does("interrupt", 0)
    /\ UNCHANGED sent

-----------------------------------------------------------------------------
(* act. *)

ActOnly == UNCHANGED <<given, sent>>
\* take: an interrupt with the link down is refused at once.
Take ==
    /\ ~awaiting /\ actions # <<>>
    /\ held = <<>> \/ ~up
    /\ actions' = Tail(actions)
    /\ held' = IF ~up /\ Head(actions).op = "interrupt" THEN held
               ELSE Append(held, [act |-> Head(actions), late |-> ~up])
    /\ Elsewhere /\ ActOnly
    /\ UNCHANGED <<awaiting, transit, reply>>

Posts ==
    /\ ~awaiting /\ held # <<>> /\ up
    /\ awaiting' = TRUE
    /\ transit' = Append(transit, [act |-> Head(held).act, live |-> TRUE])
    /\ Elsewhere /\ ActOnly
    /\ UNCHANGED <<actions, held, reply>>

\* A request given up on is still on its way, and nobody waits for its answer.
Orphaned == [i \in 1 .. Len(transit) |-> [transit[i] EXCEPT !.live = FALSE]]

\* Mutant: nothing is sent again.
RetriedNever(act) == FALSE

\* retried: a prompt carries its id and an answer names its approval.
Retried(act) == act.op \in {"prompt", "answer"}

\* The request or its answer is lost, late, or was with a server that has gone.
NoAnswer ==
    /\ awaiting
    /\ \/ Fault
       \/ /\ reply = "none" /\ \A i \in 1 .. Len(transit) : ~transit[i].live
          /\ UNCHANGED faults
    /\ awaiting' = FALSE
    /\ transit' = Orphaned
    /\ reply' = "none"
    /\ held' = IF Retried(Head(held).act) THEN [held EXCEPT ![1].late = TRUE] ELSE Tail(held)
    /\ UNCHANGED <<servedVars, follow, cut, cursor, wire, after, up, stage, snapSeq,
                   snapView, snapTaken, view, shown, seeded, gap, raced, actions>>
    /\ ActOnly

Answered ==
    /\ awaiting /\ reply # "none"
    /\ awaiting' = FALSE
    /\ held' = Tail(held)
    /\ reply' = "none"
    /\ Elsewhere /\ ActOnly
    /\ UNCHANGED <<actions, transit>>

-----------------------------------------------------------------------------
(* The other end. *)

Serve(i) ==
    /\ i \in 1 .. Len(transit)
    /\ transit' = RemoveAt(transit, i)
    /\ LET act == transit[i].act
       IN  /\ \/ act.op = "prompt" /\ Prompt(act.arg)
              \/ act.op = "answer" /\ AnswerRoute(act.arg)
              \/ act.op = "interrupt" /\ InterruptRoute
           /\ reply' = IF ~transit[i].live THEN reply
                       ELSE IF \/ act.op = "answer" /\ ~AnswerTakes(act.arg)
                               \/ act.op = "interrupt" /\ ~srv.working
                       THEN "conflict" ELSE "ok"
    /\ UNCHANGED <<followVars, actions, held, awaiting>>
    /\ ActOnly

\* Lost with the connection it was on, whether or not act still waits.
Loses(i) ==
    /\ i \in 1 .. Len(transit)
    /\ ~transit[i].live
    /\ transit' = RemoveAt(transit, i)
    /\ Elsewhere /\ ActOnly
    /\ UNCHANGED <<actions, held, awaiting, reply>>

\* A restart of the server ends the connections to it.
RequestsDie ==
    /\ transit' = <<>>
    /\ UNCHANGED <<actions, held, awaiting, reply, given, sent>>

User == GivesPrompt \/ GivesAnswer \/ GivesInterrupt
Act == Take \/ Posts \/ Answered \/ NoAnswer

=============================================================================
