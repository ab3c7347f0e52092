----------------------------- MODULE SessionHub -----------------------------
(***************************************************************************)
(* The session (session.rs): what the front ends call to submit, queue,    *)
(* interrupt, answer and switch, and what the agent's events make of its   *)
(* state.  What an operation does under the one mutex is one step.  Two let*)
(* go of it half way: submit_automatic, and interrupt, whose flags are not *)
(* under it at all.                                                        *)
(***************************************************************************)
EXTENDS Wire

VARIABLES
    working,      \* whether the session believes a turn runs
    held,         \* a failed login holds the queue and the schedules
    queue,        \* prompts and /compacts waiting for the turn
    pending,      \* approvals waiting, the one on screen first
    shownModel,   \* the model the session says it talks to
    panes,        \* children whose pane says they are running
    hubFork,      \* whether the session says there is a compacted copy
    autoGo,       \* the automatic prompt between its check of held and submit
    interrupting, \* how far an interrupt is: it found work to stop, it stops the
                  \* children, it rejects what is parked
    \* History variables: read by the properties, never by an action's guard.
    accepted,     \* prompts taken in, in that order
    withdrawn,    \* prompts the user took back out of the queue
    wasHeld       \* whether a failed login ever held the session

hubVars == <<working, held, queue, pending, shownModel, panes, hubFork,
             autoGo, interrupting, accepted, withdrawn, wasHeld>>

HubTypeOK ==
    /\ working \in BOOLEAN
    /\ held \in BOOLEAN
    /\ queue \in Seq(Prompts \cup {Compact})
    /\ pending \in Seq(Askers)
    /\ shownModel \in Models
    /\ panes \in SUBSET Children
    /\ hubFork \in BOOLEAN
    /\ autoGo \in Autos \cup {None}
    /\ interrupting \in {"no", "found", "stopping", "rejecting"}
    /\ accepted \in Seq(Prompts)
    /\ withdrawn \in SUBSET Prompts
    /\ wasHeld \in BOOLEAN

HubInit ==
    /\ working = FALSE
    /\ held = FALSE
    /\ queue = <<>>
    /\ pending = <<>>
    /\ shownModel \in Models
    /\ panes = {}
    /\ hubFork = FALSE
    /\ autoGo = None
    /\ interrupting = "no"
    /\ accepted = <<>>
    /\ withdrawn = {}
    /\ wasHeld = FALSE

Fresh(p) == p \notin Range(accepted) /\ p # autoGo

-----------------------------------------------------------------------------
(* Prompts in. *)

\* Every field of the hub that submitting a prompt leaves alone.
Kept == UNCHANGED <<pending, shownModel, panes, hubFork, interrupting, withdrawn,
                    wasHeld>>
\* Mutant: a message typed later goes ahead of one typed before it.
EnqueueFirst(w) == queue' = <<w>> \o queue

Enqueue(w) == queue' = Append(queue, w)
\* Mutant: the flag is cleared for a message that only waits.
SendClearing(p) ==
    /\ held' = FALSE
    /\ accepted' = IF working \/ UserRoom THEN Append(accepted, p) ELSE accepted
    /\ stop' = FALSE
    /\ \/ working /\ Enqueue(p) /\ UNCHANGED <<working, rxUser>>
       \/ /\ ~working
          /\ rxUser' = IF UserRoom THEN Append(rxUser, p) ELSE rxUser
          /\ working' = UserRoom
          /\ UNCHANGED queue

\* submit: queued behind a turn, else the flag is cleared and the loop is handed it.
Send(p) ==
    /\ held' = FALSE
    /\ accepted' = IF working \/ UserRoom THEN Append(accepted, p) ELSE accepted
    /\ \/ /\ working
          /\ Enqueue(p)
          /\ UNCHANGED <<working, rxUser, stop>>
       \/ /\ ~working
          /\ stop' = FALSE
          /\ rxUser' = IF UserRoom THEN Append(rxUser, p) ELSE rxUser
          /\ working' = UserRoom
          /\ UNCHANGED queue

Submit(p) ==
    /\ p \in Prompts \ Autos
    /\ Fresh(p)
    /\ Send(p)
    /\ Kept
    /\ UNCHANGED <<autoGo, rxControl, events, results, childStop, childVars, alive>>

\* submit_automatic, up to where it lets go of the lock.
SubmitAutomatic(p) ==
    /\ p \in Autos
    /\ Fresh(p)
    /\ autoGo = None
    /\ \/ /\ held
          /\ Enqueue(p)
          /\ accepted' = Append(accepted, p)
          /\ UNCHANGED autoGo
       \/ /\ ~held
          /\ autoGo' = p
          /\ UNCHANGED <<queue, accepted>>
    /\ Kept
    /\ UNCHANGED <<working, held, wireVars>>

\* And from where it takes the lock again, as submit.
SubmitReleased ==
    /\ autoGo # None
    /\ autoGo' = None
    /\ Send(autoGo)
    /\ Kept
    /\ UNCHANGED <<rxControl, events, results, childStop, childVars, alive>>

\* clear_queue and unqueue: everything waiting goes back to the user.
DropQueue ==
    /\ queue # <<>>
    /\ queue' = <<>>
    /\ withdrawn' = withdrawn \cup (Range(queue) \ {Compact})
    /\ UNCHANGED <<working, held, pending, shownModel, panes, hubFork, autoGo,
                   interrupting, accepted, wasHeld, wireVars>>

\* take_queued: the prompts ahead of the first /compact, none once interrupted.
Takes(n) ==
    /\ n \in 0 .. Len(queue)
    /\ IF stop
       THEN n = 0
       ELSE /\ \A j \in 1 .. n : queue[j] # Compact
            /\ n < Len(queue) => queue[n + 1] = Compact
\* Mutant: what waits behind a /compact is drained with what the turn takes.
TakeQueuedAll(n) ==
    /\ Takes(n)
    /\ queue' = <<>>
    /\ UNCHANGED <<working, held, pending, shownModel, panes, hubFork, autoGo,
                   interrupting, accepted, withdrawn, wasHeld>>

TakeQueued(n) ==
    /\ Takes(n)
    /\ queue' = SubSeq(queue, n + 1, Len(queue))
    /\ UNCHANGED <<working, held, pending, shownModel, panes, hubFork, autoGo,
                   interrupting, accepted, withdrawn, wasHeld>>

-----------------------------------------------------------------------------
(* Controls in. *)

HubRest == UNCHANGED <<held, pending, panes, hubFork, autoGo, interrupting,
                       withdrawn, wasHeld>>
\* Mutants: marked although the loop refused it, and taken without a mark.
StartTurnAs(control, mark) ==
    /\ ~working
    /\ stop' = FALSE
    /\ rxControl' = IF ControlRoom THEN Append(rxControl, control) ELSE rxControl
    /\ working' = mark
    /\ HubRest
    /\ UNCHANGED <<rxUser, events, results, childStop, childVars, alive>>
StartTurnMarking(control) == StartTurnAs(control, TRUE)
StartTurnUnmarked(control) == StartTurnAs(control, FALSE)

\* A control that is a turn of its own: refused while one runs, and marked as one.
\* The flag is cleared before the loop is asked, whether or not it takes it.
StartTurn(control) ==
    /\ ~working
    /\ stop' = FALSE
    /\ rxControl' = IF ControlRoom THEN Append(rxControl, control) ELSE rxControl
    /\ working' = ControlRoom
    /\ HubRest
    /\ UNCHANGED <<rxUser, events, results, childStop, childVars, alive>>

\* retry, btw and workflow.
StartControl(op) ==
    /\ op \in TurnControls
    /\ StartTurn(Plain(op))
    /\ UNCHANGED <<queue, accepted, shownModel>>

\* submit_forked: refused without a compacted copy, as well as while a turn runs.
SubmitForked(p) ==
    /\ p \in Prompts \ Autos
    /\ Fresh(p)
    /\ hubFork
    /\ StartTurn([op |-> "forked", arg |-> p])
    /\ accepted' = IF ControlRoom THEN Append(accepted, p) ELSE accepted
    /\ UNCHANGED <<queue, shownModel>>

\* compact: behind the turn and what is queued, or now.
AskCompact ==
    \/ /\ working
       /\ Enqueue(Compact)
       /\ HubRest
       /\ UNCHANGED <<working, shownModel, accepted, wireVars>>
    \/ /\ StartTurn(Plain("compact"))
       /\ UNCHANGED <<queue, accepted, shownModel>>

\* The controls that start nothing: one try_send, refused when there is no room.
Post(control) ==
    /\ ControlRoom
    /\ rxControl' = Append(rxControl, control)
    /\ UNCHANGED <<rxUser, events, results, flagVars, childVars, alive>>
\* Mutant: a switch is not refused while a turn runs.
SetModelAnytime(m) ==
    /\ m \in Models \ {shownModel}
    /\ Post([op |-> "model", arg |-> m])
    /\ shownModel' = m
    /\ HubRest
    /\ UNCHANGED <<working, queue, accepted>>

\* set_model: the session says so at once, the loop is told.
SetModel(m) ==
    /\ ~working
    /\ m \in Models \ {shownModel}
    /\ Post([op |-> "model", arg |-> m])
    /\ shownModel' = m
    /\ HubRest
    /\ UNCHANGED <<working, queue, accepted>>

Clear ==
    /\ ~working
    /\ Post(Plain("clear"))
    /\ HubRest
    /\ UNCHANGED <<working, queue, accepted, shownModel>>

\* set_goal: taken whether or not a turn runs, and never clears the flag.
SetGoal(command) ==
    /\ command \in GoalCommands
    /\ Post(Plain(command))
    /\ HubRest
    /\ UNCHANGED <<working, queue, accepted, shownModel>>

-----------------------------------------------------------------------------
(* Approvals and interrupts. *)

HubBut == UNCHANGED <<working, held, queue, shownModel, panes, hubFork, autoGo,
                      accepted, withdrawn, wasHeld>>

\* The reply reaches an asker that still waits for it.
Reply(who, answer) ==
    [a \in Askers |-> IF a \in who /\ replies[a] = "waiting" THEN answer ELSE replies[a]]

\* answer: the approval on screen, never one parked behind it.
Answer(answer) ==
    /\ pending # <<>>
    /\ pending' = Tail(pending)
    /\ replies' = Reply({Head(pending)}, answer)
    /\ UNCHANGED <<interrupting, chanVars, flagVars, childState, alive>>
    /\ HubBut

\* interrupt: is there anything to stop?  Nothing is held from here on, so the turn may
\* end and another start before its flag goes up.  Two front ends interrupting at once
\* are taken one after the other.
Interrupt ==
    /\ interrupting = "no"
    /\ working \/ panes # {}
    /\ interrupting' = "found"
    /\ UNCHANGED <<pending, wireVars>>
    /\ HubBut

\* Cancel::stop: the turn's flag goes up first, under no lock,
StopTurn ==
    /\ interrupting = "found"
    /\ stop' = TRUE
    /\ interrupting' = "stopping"
    /\ UNCHANGED <<pending, chanVars, childStop, childVars, alive>>
    /\ HubBut

\* and then, under the lock of the list, that of every child on it.
StopChildren ==
    /\ interrupting = "stopping"
    /\ childStop' = [c \in Children |-> childStop[c] \/ Live(c)]
    /\ interrupting' = "rejecting"
    /\ UNCHANGED <<pending, chanVars, stop, childVars, alive>>
    /\ HubBut
\* Mutant: only the approval on screen is told.
RejectFirst ==
    /\ interrupting = "rejecting"
    /\ interrupting' = "no"
    /\ pending' = <<>>
    /\ replies' = Reply(IF pending = <<>> THEN {} ELSE {Head(pending)}, "reject")
    /\ UNCHANGED <<chanVars, flagVars, childState, alive>>
    /\ HubBut

\* At last every parked approval is rejected, one answer and one lock at a time.
RejectPending ==
    /\ interrupting = "rejecting"
    /\ \/ /\ pending # <<>>
          /\ pending' = Tail(pending)
          /\ replies' = Reply({Head(pending)}, "reject")
          /\ UNCHANGED interrupting
       \/ /\ pending = <<>>
          /\ interrupting' = "no"
          /\ UNCHANGED <<pending, replies>>
    /\ UNCHANGED <<chanVars, flagVars, childState, alive>>
    /\ HubBut

\* interrupt_child: the child alone.
InterruptChild(c) ==
    /\ Live(c)
    /\ childStop' = [childStop EXCEPT ![c] = TRUE]
    /\ UNCHANGED <<hubVars, chanVars, stop, childVars, alive>>

-----------------------------------------------------------------------------
(* What the agent says (pump and on_agent). *)

Heard(kind) == events # <<>> /\ Head(events).kind = kind
Pumped ==
    /\ events' = Tail(events)
    /\ UNCHANGED <<results, childStop, childVars, alive>>
Quiet == UNCHANGED <<rxUser, rxControl, stop>>

OnApproval ==
    /\ Heard("approval")
    /\ Pumped
    /\ pending' = Append(pending, Head(events).who)
    /\ UNCHANGED interrupting
    /\ Quiet /\ HubBut

OnResumed ==
    /\ Heard("resumed")
    /\ Pumped
    /\ working' = TRUE
    /\ UNCHANGED <<held, queue, pending, shownModel, panes, hubFork, autoGo,
                   interrupting, accepted, withdrawn, wasHeld>>
    /\ Quiet

OnAuthFailed ==
    /\ Heard("authfailed")
    /\ Pumped
    /\ held' = TRUE
    /\ wasHeld' = TRUE
    /\ UNCHANGED <<working, queue, pending, shownModel, panes, hubFork, autoGo,
                   interrupting, accepted, withdrawn>>
    /\ Quiet
\* Mutant: the end of a turn leaves what waits behind it waiting.
OnTurnEndIdle ==
    /\ Heard("turnend") /\ Pumped /\ Quiet
    /\ working' = FALSE
    /\ UNCHANGED <<held, queue, pending, shownModel, panes, hubFork, autoGo, interrupting,
                   accepted, withdrawn, wasHeld>>

\* The turn's end starts what waits behind it: start_queued, in the same step.
OnTurnEnd ==
    /\ Heard("turnend")
    /\ Pumped
    /\ \/ /\ held \/ queue = <<>>
          /\ working' = FALSE
          /\ UNCHANGED queue
          /\ Quiet
       \/ /\ ~held /\ queue # <<>>
          /\ stop' = FALSE
          /\ \/ /\ Head(queue) = Compact /\ ControlRoom
                /\ rxControl' = Append(rxControl, Plain("compact"))
                /\ queue' = Tail(queue)
                /\ working' = TRUE
                /\ UNCHANGED rxUser
             \/ /\ Head(queue) # Compact /\ UserRoom
                /\ rxUser' = Append(rxUser, Head(queue))
                /\ queue' = Tail(queue)
                /\ working' = TRUE
                /\ UNCHANGED rxControl
             \/ /\ IF Head(queue) = Compact THEN ~ControlRoom ELSE ~UserRoom
                /\ working' = FALSE
                /\ UNCHANGED <<queue, rxUser, rxControl>>
    /\ UNCHANGED <<held, pending, shownModel, panes, hubFork, autoGo, interrupting,
                   accepted, withdrawn, wasHeld>>

\* A pane follows its child; the copy and the refusals only show.
OnOther ==
    /\ events # <<>>
    /\ Head(events).kind \in {"started", "ended", "fork", "nofork", "refused"}
    /\ Pumped
    /\ panes' = CASE Head(events).kind = "started" -> panes \cup {Head(events).who}
                  [] Head(events).kind = "ended" -> panes \ {Head(events).who}
                  [] OTHER -> panes
    /\ hubFork' = CASE Head(events).kind = "fork" -> TRUE
                    [] Head(events).kind = "nofork" -> FALSE
                    [] OTHER -> hubFork
    /\ UNCHANGED <<working, held, queue, pending, shownModel, autoGo, interrupting,
                   accepted, withdrawn, wasHeld>>
    /\ Quiet

Pump == OnApproval \/ OnResumed \/ OnAuthFailed \/ OnTurnEnd \/ OnOther
=============================================================================
