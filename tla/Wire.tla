-------------------------------- MODULE Wire --------------------------------
(***************************************************************************)
(* What the session hub (session.rs), the agent loop (agent.rs) and the    *)
(* detached child agents share: the bounded channels into the loop, the    *)
(* unbounded channel out of it, the children's report channel, the reply   *)
(* half of every approval, and the Cancel flags.                           *)
(***************************************************************************)
EXTENDS Naturals, Sequences, SequencesExt

CONSTANTS
    Prompts,      \* messages that may be sent, each at most once
    Autos,        \* those a schedule or a monitor sends rather than the user
    Children,     \* child agents the turns may start
    Models,       \* what /model may switch to
    Main,         \* the main agent, as the one asking for an approval
    None,         \* no prompt
    Compact,      \* a /compact waiting in the queue
    UserCap,      \* capacity of the message channel
    ControlCap    \* capacity of the control channel

ASSUME WireAssumption ==
    /\ Autos \subseteq Prompts
    /\ Main \notin Children
    /\ None \notin Prompts
    /\ Compact \notin Prompts
    /\ UserCap \in Nat \ {0}
    /\ ControlCap \in Nat \ {0}

VARIABLES
    rxUser,       \* messages handed to the loop, not yet taken
    rxControl,    \* controls handed to the loop, not yet taken
    events,       \* what the loop and the children said, not yet pumped
    results,      \* children whose report is posted and not yet landed
    stop,         \* Cancel.turn: the interrupt flag of the main agent
    childStop,    \* Cancel.children: the latched flag of each child
    childState,   \* where each child's task is
    replies,      \* the one-shot reply each asker waits on
    alive         \* whether the loop still holds its receivers

chanVars  == <<rxUser, rxControl, events, results>>
flagVars  == <<stop, childStop>>
childVars == <<childState, replies>>
wireVars  == <<rxUser, rxControl, events, results, stop, childStop,
               childState, replies, alive>>

Askers == Children \cup {Main}

\* A control carries what it names: a model, a prompt, or nothing.
GoalCommands == {"set", "pause", "resume", "cleargoal"}
TurnControls == {"retry", "btw", "workflow"}
PlainControls == GoalCommands \cup TurnControls \cup {"compact", "clear"}
Control == [op : PlainControls, arg : {None}]
             \cup [op : {"model"}, arg : Models]
             \cup [op : {"forked"}, arg : Prompts]
Plain(op) == [op |-> op, arg |-> None]

\* The agent events that change the hub; the rest only reach the transcript.
EventKinds == {"approval", "started", "ended", "resumed", "turnend",
               "authfailed", "refused", "fork", "nofork"}
ChildEvents == {"started", "ended"}
Event == [kind : EventKinds \ ChildEvents, who : Askers]
           \cup [kind : ChildEvents, who : Children]
Say(kind) == [kind |-> kind, who |-> Main]
SayOf(kind, who) == [kind |-> kind, who |-> who]

\* "new", then born with a flag nobody else holds, spawned once that is on Cancel's list,
\* its loop running, waiting on an approval, the loop over and its report being made, and
\* at last gone.
ChildStates == {"new", "born", "spawned", "running", "asking", "reporting", "gone"}

WireTypeOK ==
    /\ rxUser \in Seq(Prompts)
    /\ rxControl \in Seq(Control)
    /\ events \in Seq(Event)
    /\ results \in Seq(Children)
    /\ stop \in BOOLEAN
    /\ childStop \in [Children -> BOOLEAN]
    /\ childState \in [Children -> ChildStates]
    /\ replies \in [Askers -> {"none", "waiting", "accept", "reject"}]
    /\ alive \in BOOLEAN

WireInit ==
    /\ rxUser = <<>>
    /\ rxControl = <<>>
    /\ events = <<>>
    /\ results = <<>>
    /\ stop = FALSE
    /\ childStop = [c \in Children |-> FALSE]
    /\ childState = [c \in Children |-> "new"]
    /\ replies = [a \in Askers |-> "none"]
    /\ alive = TRUE

\* try_send: refused when the channel is full or the loop has gone.
UserRoom    == alive /\ Len(rxUser) < UserCap
ControlRoom == alive /\ Len(rxControl) < ControlCap

\* A child on Cancel's list whose flag something else still holds.
Live(c) == childState[c] \in {"spawned", "running", "asking", "reporting"}
=============================================================================
