--------------------------- MODULE CoreProperties ---------------------------
(***************************************************************************)
(* What makes a session correct: its mark follows the loop's turns, no     *)
(* message, report or approval is lost, and an interrupt stops what it was *)
(* accepted for.  What the code does not promise with reports, goals and   *)
(* schedules about is stated apart, as its documentation puts it.          *)
(***************************************************************************)
EXTENDS BhaiCore

\* An event of a kind among those said, and a control among those asked that is a
\* turn of its own.
Tells(said, kind) == \E i \in 1 .. Len(said) : said[i].kind = kind
AsksTurn(asked) ==
    \E i \in 1 .. Len(asked) : asked[i].op \in TurnControls \cup {"compact", "forked"}

\* The loop has a turn, or its own end, still to tell the end of.
LoopBusy == pc \notin {"idle", "forking", "dead"}

-----------------------------------------------------------------------------
(* Safety. *)

\* A session marked as working is owed the end that unmarks it: a turn runs, or
\* something that will end one is on its way (session.rs working, agent.rs TurnEnd).
TurnEndOwed ==
    \/ LoopBusy
    \/ alive /\ (rxUser # <<>> \/ AsksTurn(rxControl))
    \/ Tells(events, "turnend")
WorkingEnds == working => TurnEndOwed

\* The inductive form of WorkingEnds.  Marking a session on a Resumed is safe only if
\* the end of the turn it tells of is still to come: it follows in the events, or the
\* loop has not told it yet (agent.rs 1230-1340 and 1612).
Closed(said) ==
    \A i \in 1 .. Len(said) :
        said[i].kind = "resumed" =>
            \E j \in i + 1 .. Len(said) : said[j].kind = "turnend"
MarkInv ==
    /\ WorkingEnds
    /\ LoopBusy \/ Closed(events)
    /\ alive = (pc \notin {"panicked", "dead"})

\* The session keeps working while a turn runs or a message waits behind one
\* (session.rs 2016).
TurnsAreMarked == Busy => working \/ Tells(events, "resumed")

\* The model a turn calls is the one the session showed when it began: a switch
\* cannot pass a turn (session.rs set_model, agent.rs Control::Model).
TurnOnShownModel == Busy => model = shownModel

\* A turn an interrupt was accepted for stays interrupted to its end: nothing that
\* clears the flag for the next turn clears it for this one (session.rs interrupt).
InterruptSticks == Main \in cut /\ pc \in InTurn => stop

\* Messages reach the model in the order they were accepted, unless a failed
\* login held some of them back (session.rs queue, take_queued).
InOrder(read, given) ==
    \A i, j \in 1 .. Len(read) :
        i < j => \E k, l \in 1 .. Len(given) :
                     k < l /\ given[k] = read[i] /\ given[l] = read[j]
ReadInOrder == wasHeld \/ InOrder(landed, accepted)

\* A turn runs for the session as the session took it to be when it began, on what it
\* took in the order it took it.
TurnIsTheSessions == TurnsAreMarked /\ TurnOnShownModel /\ InterruptSticks /\ ReadInOrder

\* Once an interrupt has gone through the children, none of them runs on unaware of it
\* while the turn stays interrupted, one spawned after it included; only a child that was
\* between reading the flag and joining the list as the interrupt went through is missed
\* (agent.rs 624-629, 668-674).
InterruptReachesChildren ==
    stop /\ interrupting # "stopping" =>
        \A c \in Children :
            Live(c) \/ childState[c] = "born" => childStop[c] \/ c \in slipped

\* What Cancel::child is said to do: "A flag for a child about to start: already set if the
\* turn is, and latched by any later `stop`" (agent.rs 665-666).
StopLatchesEveryChild ==
    stop /\ interrupting # "stopping" => \A c \in Children : Live(c) => childStop[c]

\* Whoever waits on an approval can still be answered: it is parked, or on its way.
NoOrphanWait ==
    \A a \in Askers :
        replies[a] = "waiting" =>
            \/ a \in Range(pending)
            \/ \E i \in 1 .. Len(events) : events[i] = SayOf("approval", a)

\* An approval on screen is one somebody waits for, and only once.
NoStalePrompt ==
    /\ \A a \in Range(pending) : replies[a] = "waiting" \/ (a = Main /\ ~alive)
    /\ IsInjective(pending)

\* Approvals and those who wait for them match, through interrupts, crashes and answers
\* of several askers (session.rs pending, answer, interrupt).
ApprovalsMatch == NoOrphanWait /\ NoStalePrompt

\* A child's report reaches the history once: it is never landed twice, and what a
\* finished child posted is landed or waits to be (agent.rs land, tools/agent.rs).
ReportKept ==
    /\ IsInjective(results \o reported)
    /\ alive => \A c \in Children :
                    childState[c] = "gone" => c \in Range(results \o reported)

-----------------------------------------------------------------------------
(* What the session promises of a message. *)

Waiting ==
    {p \in Prompts : \/ p \in Range(queue) \cup Range(rxUser)
                     \/ \E i \in 1 .. Len(rxControl) : rxControl[i] = [op |-> "forked", arg |-> p]}
Delivery == INSTANCE PromptDelivery WITH
    waiting <- Waiting, read <- landed, back <- withdrawn, crashed <- ~alive

\* Every message accepted is read once, or taken back, or lost with the agent.
EveryPromptDelivered == Delivery!Spec

-----------------------------------------------------------------------------
(* Fairness: the tasks are scheduled, the turn's calls are finite in number, a  *)
(* lock let go of is taken again.  Nothing is asked of the user.              *)

\* Every step of the loop but a panic, which nothing obliges it to.
Proceeds == Loop /\ (alive => alive')

Fairness ==
    /\ WF_vars(Proceeds) /\ SF_vars(Works /\ ToolsDone)
    /\ WF_vars(Pumps)
    /\ WF_vars(UserSends /\ SubmitReleased)
    /\ WF_vars(UserInterrupts) /\ WF_vars(UserSends /\ RejectPending)
    /\ \A c \in Children : WF_vars(ChildWorks(c))

FairSpec == Spec /\ Fairness

\* And a user who answers what is on screen.
AnsweringSpec == FairSpec /\ WF_vars(UserSends /\ \E a \in {"accept", "reject"} : Answer(a))

-----------------------------------------------------------------------------
(* Liveness. *)

\* Turns do end: the model does not call tools for ever.
TurnsEnd == []<>~Busy

\* A message that waits is read, unless the user takes it back, a failed login holds
\* the session or the agent dies (session.rs submit, start_queued, take_queued).
PromptRead ==
    TurnsEnd => \A p \in Prompts :
        p \in Range(queue) \cup Range(rxUser)
            ~> p \in Range(landed) \cup withdrawn \/ held \/ ~alive

\* An interrupt ends the turn it was accepted for (session.rs 1381-1382).
InterruptedTurnEnds == Main \in cut ~> Main \notin cut

\* An active goal of a session not interrupted gets a turn (session.rs 1200-1201).
GoalKeepsGoing == goal = "active" /\ []~stop ~> Busy \/ goal # "active"

\* A goal whose turns do no work is paused rather than turned for ever (goal.rs).
IdleGoalPauses ==
    TurnsEnd => (goal = "active" /\ []~stop /\ []~acted ~> goal # "active")

\* A goal neither stalls nor turns for nothing.
GoalRuns == GoalKeepsGoing /\ IdleGoalPauses

\* What a child found reaches the history, with the session interrupted or idle
\* (agent.rs Next::Landed, delivered).
ReportReachesModel ==
    TurnsEnd => \A c \in Children :
        childState[c] = "reporting" ~> c \in Range(reported) \/ ~alive
=============================================================================
