------------------------------ MODULE Terminal ------------------------------
(***************************************************************************)
(* The terminal interface (app.rs, the loop of cli.rs, the approval box of *)
(* ui.rs) over a session whose events reach it through a broadcast that    *)
(* drops the oldest when it falls behind.  One thread applies keys and     *)
(* events in turn and draws between them; the session's handlers and the   *)
(* agent run on other threads.  A frame is drawn whole.  The loop applies  *)
(* a key as soon as it is there, so no time is modelled as passing between *)
(* the press and its handling.  Messages are sequences of typed prompts,   *)
(* since what is taken back goes out as one message.                       *)
(***************************************************************************)
EXTENDS Naturals, Sequences, FiniteSets, SequencesExt

CONSTANTS
    Budgets,        \* a bound: the prompts typed, calls that wait for an approval and
                    \* questions of sudo in one behaviour
    FeedMax,        \* events the broadcast keeps
    InboxMax,       \* a bound: events the loop has waiting
    Long            \* approvals longer than their box

ASSUME TerminalAssumption ==
    /\ Budgets \subseteq [prompts : Nat, asks : Nat, questions : Nat]
    /\ FeedMax \in Nat \ {0} /\ InboxMax \in Nat \ {0}
    /\ Long \subseteq Nat \ {0}

VARIABLES
    hub,        \* the session and its agent, as the terminal can tell
    feed,       \* events broadcast and not yet forwarded
    missed,     \* events were dropped from the feed since the last was forwarded
    inbox,      \* what the loop has waiting
    screen,     \* the App
    looked,     \* what a tick in progress saw of the front question, "no" between ticks
    withdrawn,  \* questions whose sudo gave up
    said        \* what the checks remember

terminalVars == <<hub, feed, missed, inbox, screen, looked, withdrawn, said>>

TerminalInit ==
    /\ \E b \in Budgets : hub =
             [budget |-> b, phase |-> "idle", queue |-> <<>>, taken |-> <<>>,
              turn |-> <<>>, last |-> "other", stopped |-> FALSE, edit |-> <<>>,
              asks |-> <<>>, asked |-> 0, questions |-> 0, typed |-> 0]
    /\ feed = <<>> /\ missed = FALSE /\ inbox = <<>>
    /\ screen = [working |-> FALSE, queue |-> <<>>, pending |-> 0, seen |-> FALSE,
                 end |-> FALSE, shown |-> 0, at |-> "none", armed |-> "none",
                 esc |-> FALSE, passwords |-> <<>>, typed |-> {}, draft |-> <<>>]
    /\ looked = "no" /\ withdrawn = {}
    /\ said = [read |-> {}, dropped |-> {}, whole |-> {}, rested |-> {},
               hint |-> {}, hinted |-> {}, blind |-> FALSE, covered |-> FALSE,
               strayed |-> FALSE, torn |-> FALSE]

Ticking == looked # "no"
Working == hub.phase # "idle"
FrontAsk == IF hub.asks = <<>> THEN 0 ELSE Head(hub.asks)
\* A broadcast keeps the newest FeedMax events.
Overflow(events) ==
    LET all == feed \o events
    IN IF Len(all) > FeedMax THEN Len(all) - FeedMax ELSE 0
Publish(events) ==
    LET all == feed \o events
        over == Overflow(events)
    IN /\ feed' = SubSeq(all, over + 1, Len(all))
       /\ missed' = (missed \/ over > 0)
Handed(events) == UNION {ToSet(events[i].of) : i \in
                           {j \in DOMAIN events : events[j].kind = "edited"}}
\* The prompts handed back in events the broadcast dropped.
Gone(events) == Handed(SubSeq(feed \o events, 1, Overflow(events)))
Event(kind, of, id) == [kind |-> kind, of |-> of, id |-> id]

(***************************************************************************)
(* The session: each operation under its lock, with what it publishes.     *)
(***************************************************************************)
\* start_queued: the front of the queue starts a turn of its own.
TurnStarted(h) ==
    IF h.queue = <<>> THEN [h EXCEPT !.phase = "idle", !.turn = <<>>]
    ELSE [h EXCEPT !.phase = "start", !.turn = Head(h.queue), !.queue = Tail(@),
                   !.stopped = FALSE, !.last = "user"]
StartedEvents(h) ==
    IF h.queue = <<>> THEN <<>> ELSE <<Event("user", Head(h.queue), 0)>>

\* submit: a turn of its own, or a place behind the one that runs.
Accepted(message) ==
    IF Working THEN [hub EXCEPT !.queue = Append(@, message)]
    ELSE [hub EXCEPT !.phase = "start", !.turn = message, !.stopped = FALSE,
                     !.last = "user"]
AcceptedEvents(message) ==
    IF Working THEN <<Event("queued", message, Len(hub.queue) + 1)>>
    ELSE <<Event("user", message, 0)>>

\* answer: only the approval in front, and the next one takes its place.
Answered(h) == [h EXCEPT !.asks = Tail(@)]
AnsweredEvents(h) ==
    <<Event("resolved", <<>>, Head(h.asks))>>
      \o (IF Len(h.asks) > 1 THEN <<Event("approval", <<>>, h.asks[2])>> ELSE <<>>)

\* interrupt: the cancel, then every parked call rejected in turn.
Stopped(h) == IF ~Working THEN h ELSE [h EXCEPT !.stopped = TRUE, !.asks = <<>>]
Rejections(h) ==
    FlattenSeq([i \in DOMAIN h.asks |->
        AnsweredEvents([h EXCEPT !.asks = SubSeq(@, i, Len(@))])])
StoppedEvents(h) == IF Working THEN Rejections(h) ELSE <<>>

\* What the checks remember of an approval, until it is resolved.
Remembering(s, h) ==
    LET waits == ToSet(h.asks)
    IN [s EXCEPT !.whole = @ \cap waits, !.rested = @ \cap waits,
                 !.hint = @ \cap waits, !.hinted = @ \cap waits]

\* edit_prompt is taken only while the transcript ends with the prompt.
Editable == Working /\ hub.queue = <<>> /\ hub.asks = <<>> /\ hub.last = "user"

(***************************************************************************)
(* The agent, as far as the terminal sees it.                              *)
(***************************************************************************)
Runs == hub.phase \in {"start", "running"} /\ hub.taken = <<>>

\* The inbox is read before a model call; its messages are announced after.
TakesQueue ==
    /\ Runs /\ ~hub.stopped /\ hub.queue # <<>>
    /\ hub' = [hub EXCEPT !.taken = hub.queue, !.queue = <<>>]
    /\ UNCHANGED <<feed, missed, said>>

AnnouncesSteer ==
    /\ hub.taken # <<>>
    /\ LET events == <<Event("steered", Head(hub.taken), 0)>>
       IN /\ Publish(events)
          /\ said' = [said EXCEPT !.read = @ \cup ToSet(Head(hub.taken)),
                                  !.dropped = @ \cup Gone(events)]
    /\ hub' = [hub EXCEPT !.taken = Tail(@), !.phase = "running", !.last = "user"]

WritesScreen ==
    /\ Runs /\ ~hub.stopped /\ hub.last = "user"
    /\ hub' = [hub EXCEPT !.phase = "running", !.last = "other"]
    /\ UNCHANGED <<feed, missed, said>>

AsksApproval ==
    /\ Runs /\ ~hub.stopped /\ hub.last = "other" /\ hub.asked < hub.budget.asks
    /\ hub' = [hub EXCEPT !.asks = Append(@, hub.asked + 1), !.asked = @ + 1]
    /\ LET events == IF hub.asks = <<>> THEN <<Event("approval", <<>>, hub.asked + 1)>>
                     ELSE <<>>
       IN /\ Publish(events)
          /\ said' = [said EXCEPT !.dropped = @ \cup Gone(events)]

\* The turn's result is in: an unanswered prompt asked back is handed over.
GivesBack == hub.edit # <<>> /\ hub.edit = hub.turn /\ hub.phase = "start" /\ hub.last = "user"
TurnIsOver ==
    /\ Runs /\ hub.asks = <<>> /\ (hub.stopped \/ hub.phase = "running")
    /\ LET events == IF GivesBack THEN <<Event("edited", hub.turn, 0)>> ELSE <<>>
       IN /\ Publish(events)
          /\ said' = [said EXCEPT !.dropped = @ \cup Gone(events),
                                  !.read = IF GivesBack THEN @ ELSE @ \cup ToSet(hub.turn)]
    /\ hub' = [hub EXCEPT !.phase = "over", !.edit = <<>>, !.turn = <<>>,
                          !.last = IF GivesBack THEN "other" ELSE @]

TurnEnds ==
    /\ hub.phase = "over"
    /\ LET events == <<Event("turn_end", <<>>, 0)>> \o StartedEvents(hub)
       IN /\ Publish(events)
          /\ said' = [said EXCEPT !.dropped = @ \cup Gone(events)]
    /\ hub' = TurnStarted(hub)

Agent ==
    /\ TakesQueue \/ AnnouncesSteer \/ WritesScreen \/ AsksApproval \/ TurnIsOver \/ TurnEnds
    /\ UNCHANGED <<inbox, screen, looked, withdrawn>>

(***************************************************************************)
(* The loop: events forwarded, applied one by one, frames between them.    *)
(***************************************************************************)
Forwards ==
    /\ Len(inbox) < InboxMax
    /\ IF missed
       THEN inbox' = Append(inbox, Event("resync", <<>>, 0)) /\ missed' = FALSE /\ UNCHANGED feed
       ELSE /\ feed # <<>>
            /\ inbox' = Append(inbox, Head(feed)) /\ feed' = Tail(feed) /\ UNCHANGED missed
    /\ UNCHANGED <<hub, screen, looked, withdrawn, said>>

Shift(queue) == IF queue = <<>> THEN <<>> ELSE Tail(queue)
\* A new approval starts at the top, and nothing of it has been read.
Unread(s) == [s EXCEPT !.end = FALSE, !.seen = FALSE]

OnEvent(s, e) ==
    CASE e.kind = "user"     -> [s EXCEPT !.working = TRUE, !.queue = Shift(@)]
      [] e.kind = "steered"  -> [s EXCEPT !.queue = Shift(@)]
      [] e.kind = "queued"   ->
           [s EXCEPT !.queue = Append(SubSeq(@, 1, IF Len(@) < e.id THEN Len(@) ELSE e.id - 1), e.of)]
      [] e.kind = "approval" -> Unread([s EXCEPT !.pending = e.id])
      [] e.kind = "resolved" -> IF s.pending = e.id THEN [s EXCEPT !.pending = 0] ELSE s
      [] e.kind = "edited"   -> [s EXCEPT !.draft = e.of \o @]
      [] e.kind = "turn_end" -> [s EXCEPT !.working = FALSE]
      [] e.kind = "askpass"  -> [s EXCEPT !.passwords = Append(@, e.id)]

\* A departure for the checks: a read-again state leaves the approval as it was.
ResyncedKeeping(s) == Unread([s EXCEPT !.working = Working, !.queue = hub.queue])
\* What the stream would have set, read from the session at this moment.
Resynced(s) ==
    Unread([s EXCEPT !.working = Working, !.queue = hub.queue, !.pending = FrontAsk])

Apply ==
    /\ ~Ticking /\ inbox # <<>>
    /\ screen' = IF Head(inbox).kind = "resync" THEN Resynced(screen)
                 ELSE OnEvent(screen, Head(inbox))
    /\ inbox' = Tail(inbox)
    /\ UNCHANGED <<hub, feed, missed, looked, withdrawn, said>>

\* A question covers an approval; an approval is remembered by its own frame.
Covered == screen.passwords # <<>>
InView == ~Covered /\ screen.pending # 0
ToItsEnd == screen.pending \notin Long \/ screen.end
\* A departure for the checks: an approval counts the time of the one before it.
RenderKeeping(s) ==
    IF ~InView THEN s
    ELSE [s EXCEPT !.shown = s.pending, !.seen = ToItsEnd]
Render(s) ==
    IF ~InView THEN s
    ELSE [s EXCEPT !.at = IF s.shown = s.pending THEN @ ELSE "none",
                   !.armed = IF s.shown = s.pending THEN @ ELSE "none",
                   !.shown = s.pending, !.seen = ToItsEnd]
Drawn(s) ==
    [s EXCEPT !.at = IF s.shown # 0 /\ @ = "none" THEN "drawn" ELSE @,
              !.armed = IF @ = "asked" THEN "drawn" ELSE @]
Fresh == InView /\ screen.pending \in ToSet(hub.asks)
Draw ==
    /\ ~Ticking
    /\ screen' = Drawn(Render(screen))
    /\ said' = [said EXCEPT
         !.whole = IF Fresh /\ ToItsEnd THEN @ \cup {screen.pending} ELSE @,
         !.hint = IF Fresh /\ screen'.armed # "none" THEN @ \cup {screen.pending} ELSE @,
         !.covered = @ \/ (~InView /\ screen.armed = "asked")]
    /\ UNCHANGED <<hub, feed, missed, inbox, looked, withdrawn>>

\* APPROVAL_SETTLE goes by.
Rested(at) == IF at = "drawn" THEN "settled" ELSE at
SettlesKey ==
    /\ ~Ticking
    /\ screen' = [screen EXCEPT !.at = Rested(@), !.armed = Rested(@)]
    /\ said' = [said EXCEPT !.rested = @ \cup ({screen.shown} \cap ToSet(hub.asks)),
                            !.hinted = @ \cup said.hint]
    /\ UNCHANGED <<hub, feed, missed, inbox, looked, withdrawn>>

\* QUIT_WINDOW goes by.
WindowPasses ==
    /\ screen.esc /\ ~Ticking /\ screen' = [screen EXCEPT !.esc = FALSE]
    /\ UNCHANGED <<hub, feed, missed, inbox, looked, withdrawn, said>>

(***************************************************************************)
(* Keys.  A password takes them first, then an approval, then the prompt.  *)
(***************************************************************************)
Box == screen.passwords = <<>> /\ screen.pending = 0 /\ ~Ticking
AtApproval == screen.passwords = <<>> /\ screen.pending # 0 /\ ~Ticking
SettledKey == screen.shown = screen.pending /\ screen.at = "settled"
KeyCalls(h, events, s) ==
    /\ hub' = h /\ screen' = s /\ Publish(events)

Typing ==
    /\ Box /\ hub.typed < hub.budget.prompts
    /\ hub' = [hub EXCEPT !.typed = @ + 1]
    /\ screen' = [screen EXCEPT !.draft = Append(@, hub.typed + 1)]
    /\ UNCHANGED <<feed, missed, said>>

Submit ==
    /\ Box /\ screen.draft # <<>>
    /\ KeyCalls(Accepted(screen.draft), AcceptedEvents(screen.draft), [screen EXCEPT !.draft = <<>>])
    /\ said' = [said EXCEPT !.dropped = @ \cup Gone(AcceptedEvents(screen.draft))]

\* Up on an empty prompt, with something in the panel.
Unqueue ==
    /\ Box /\ screen.draft = <<>> /\ screen.queue # <<>>
    /\ hub' = [hub EXCEPT !.queue = <<>>]
    /\ screen' = [screen EXCEPT !.queue = <<>>, !.draft = FlattenSeq(hub.queue)]
    /\ UNCHANGED <<feed, missed, said>>

Interrupt(s) ==
    /\ KeyCalls(Stopped(hub), StoppedEvents(hub), [s EXCEPT !.pending = 0])
    /\ said' = [Remembering(said, Stopped(hub)) EXCEPT !.dropped = @ \cup Gone(StoppedEvents(hub))]

ConfirmInterrupt ==
    /\ Box /\ screen.working
    /\ IF screen.draft = <<>> /\ Editable
       THEN /\ hub' = [hub EXCEPT !.edit = hub.turn, !.stopped = TRUE]
            /\ screen' = [screen EXCEPT !.esc = FALSE]
            /\ UNCHANGED <<feed, missed, said>>
       ELSE IF screen.esc THEN Interrupt([screen EXCEPT !.esc = FALSE])
       ELSE /\ screen' = [screen EXCEPT !.esc = TRUE]
            /\ UNCHANGED <<hub, feed, missed, said>>

CtrlC ==
    \/ Box /\ screen.working /\ Interrupt(screen)
    \/ AtApproval /\ Interrupt([screen EXCEPT !.armed = "none"])
    \/ /\ ~Ticking /\ Covered
       /\ LET s == [screen EXCEPT !.passwords = Tail(@), !.typed = {}]
          IN IF screen.working THEN Interrupt(s)
             ELSE screen' = s /\ UNCHANGED <<hub, feed, missed, said>>

\* The answer names the approval the box shows; the session heeds only its front.
Answer(allows, keeps) ==
    LET id == screen.pending
        heeded == FrontAsk = id
        h == IF heeded THEN Answered(hub) ELSE hub
        events == IF heeded THEN AnsweredEvents(hub) ELSE <<>>
    IN /\ KeyCalls(h, events, [screen EXCEPT !.armed = "none", !.pending = 0])
       /\ said' = [Remembering(said, h) EXCEPT
            !.dropped = @ \cup Gone(events),
            !.blind = \/ @
                      \/ heeded /\ allows /\ id \notin said.whole \cap said.rested
                      \/ heeded /\ keeps /\ id \notin said.hinted /\ ~said.covered]

Disarmed == [screen EXCEPT !.armed = "none"]
CanAllow == AtApproval /\ screen.seen /\ SettledKey
Allow == CanAllow /\ Answer(TRUE, FALSE)
Remember ==
    /\ CanAllow
    /\ IF screen.armed = "settled"
       THEN Answer(TRUE, TRUE)
       ELSE /\ screen' = [screen EXCEPT !.armed = "asked"]
            /\ UNCHANGED <<hub, feed, missed, said>>
Reject == AtApproval /\ Answer(FALSE, FALSE)
ScrollToEnd ==
    /\ AtApproval /\ screen' = [Disarmed EXCEPT !.end = TRUE]
    /\ UNCHANGED <<hub, feed, missed, said>>

\* What is typed is the front question's; enter sends it, esc refuses.
TypesPassword ==
    /\ ~Ticking /\ Covered
    /\ screen' = [screen EXCEPT !.typed = @ \cup {Head(screen.passwords)}]
    /\ UNCHANGED <<hub, feed, missed, said>>
AnswerPassword(give) ==
    /\ ~Ticking /\ Covered
    /\ screen' = [screen EXCEPT !.passwords = Tail(@), !.typed = {}]
    /\ said' = [said EXCEPT !.strayed =
         @ \/ (give /\ ~said.torn /\ screen.typed \ {Head(screen.passwords)} # {})]
    /\ UNCHANGED <<hub, feed, missed>>

Keys ==
    /\ \/ Typing \/ Submit \/ Unqueue \/ ConfirmInterrupt \/ CtrlC
       \/ Allow \/ Remember \/ Reject \/ ScrollToEnd
       \/ TypesPassword \/ AnswerPassword(TRUE) \/ AnswerPassword(FALSE)
    /\ UNCHANGED <<inbox, looked, withdrawn>>

(***************************************************************************)
(* sudo: a question reaches the loop, or its command ends before it is     *)
(* answered; a tick drops the questions nobody waits on.                   *)
(***************************************************************************)
AsksUser ==
    /\ hub.questions < hub.budget.questions /\ Len(inbox) < InboxMax
    /\ hub' = [hub EXCEPT !.questions = @ + 1]
    /\ inbox' = Append(inbox, Event("askpass", <<>>, hub.questions + 1))
    /\ UNCHANGED <<feed, missed, screen, looked, withdrawn, said>>
Withdraws ==
    /\ \E q \in 1 .. hub.questions : q \notin withdrawn /\ withdrawn' = withdrawn \cup {q}
    /\ UNCHANGED <<hub, feed, missed, inbox, screen, looked, said>>

Waiting(q) == q \notin withdrawn
\* A departure for the checks: the letters stay when their question goes.
TickLooksOnly ==
    /\ ~Ticking /\ Covered
    /\ looked' = IF Waiting(Head(screen.passwords)) THEN "waits" ELSE "gone"
    /\ UNCHANGED <<hub, feed, missed, inbox, screen, withdrawn, said>>
TickLooks ==
    /\ ~Ticking /\ Covered
    /\ looked' = IF Waiting(Head(screen.passwords)) THEN "waits" ELSE "gone"
    /\ screen' = [screen EXCEPT !.typed = IF Waiting(Head(screen.passwords)) THEN @ ELSE {}]
    /\ UNCHANGED <<hub, feed, missed, inbox, withdrawn, said>>
TickDrops ==
    /\ Ticking /\ looked' = "no"
    /\ screen' = [screen EXCEPT !.passwords = SelectSeq(@, Waiting)]
    /\ said' = [said EXCEPT !.torn =
         @ \/ (screen.typed # {} /\ looked = "waits"
                     /\ ~Waiting(Head(screen.passwords)))]
    /\ UNCHANGED <<hub, feed, missed, inbox, withdrawn>>

TerminalNext ==
    Agent \/ Forwards \/ Apply \/ Draw \/ SettlesKey \/ WindowPasses \/ Keys
      \/ AsksUser \/ Withdraws \/ TickLooks \/ TickDrops

TerminalSpec == TerminalInit /\ [][TerminalNext]_terminalVars

(***************************************************************************)
(* Properties.                                                             *)
(***************************************************************************)
\* What is allowed had been on screen to its end, and its box long enough; a rule is
\* kept only after a frame that asked for the second press had been there as long,
\* but for the frame a password question covered.
AllowedAsRead == ~said.blind

\* A password typed for one question is never sent to another's sudo, unless the first
\* is withdrawn between the two looks of one tick.
PasswordsStay == ~said.strayed

\* With every event applied the view shows whether a turn runs and which approval
\* waits, whatever the broadcast dropped on the way.
ViewAgrees ==
    feed = <<>> /\ inbox = <<>> /\ ~missed =>
        screen.working = Working /\ screen.pending = FrontAsk

\* Every prompt typed is in one place only: in the prompt box, on its way back to it,
\* waiting, running or read.  One handed back in an event the broadcast dropped is gone.
Held(p) ==
    LET in(messages) == Cardinality({i \in DOMAIN messages : p \in ToSet(messages[i])})
        edits(events) == in([i \in DOMAIN events |-> IF events[i].kind = "edited" THEN events[i].of ELSE <<>>])
    IN  in(hub.queue) + in(hub.taken) + in(<<hub.turn, screen.draft>>)
          + edits(feed) + edits(inbox) + Cardinality({p} \cap (said.read \cup said.dropped))
PromptsHeld == \A p \in 1 .. hub.typed : Held(p) = 1
ScreenTrue == PasswordsStay /\ ViewAgrees /\ PromptsHeld
=============================================================================
