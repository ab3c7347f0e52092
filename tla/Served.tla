-------------------------------- MODULE Served --------------------------------
(***************************************************************************)
(* A session behind --serve (server.rs) as those who attach to it meet it: *)
(* what its routes do, the numbered events it publishes, and the bounded   *)
(* log it replays them from (session.rs Log).  What the agent does is any  *)
(* choice the session publishes.                                           *)
(***************************************************************************)
EXTENDS Naturals, Sequences, SequencesExt

CONSTANTS
    MaxGiven,     \* bound: what the user does; prompts are numbered as they are given
    Kept,         \* EVENT_LOG: how many events the log holds
    MaxAsks,      \* bound: the approvals the agent asks for in a run
    MaxRuns       \* bound: how often the server is started

ASSUME ServedAssumption ==
    /\ Kept \in Nat \ {0} /\ MaxRuns \in Nat \ {0}
    /\ MaxGiven \in Nat /\ MaxAsks \in Nat

Prompts == 1 .. MaxGiven

VARIABLES
    run,          \* which start of the server this is
    log,          \* every event of this run; the ring is the last Kept of it
    srv,          \* what /state says: working, queue, pending
    taken,        \* prompts the turn took, their Steered still to be published
    nextId,       \* the last approval's id
    seen,         \* Seen: prompt ids this run has accepted
    \* History variables.
    submitted,    \* <<run, prompt>> for each prompt the session took in
    crossed       \* since it was last idle, a prompt was queued behind prompts taken and not shown

servedVars == <<run, log, srv, taken, nextId, seen, submitted, crossed>>

\* Only what the reader of a state tells apart; pos is the place in the queue.
Event == [kind : {"user", "steered", "queued", "turnend", "approval", "resolved", "text"},
          arg : Nat, pos : Nat]
Evt(kind, arg) == [kind |-> kind, arg |-> arg, pos |-> 0]
EvtAt(kind, arg, pos) == [kind |-> kind, arg |-> arg, pos |-> pos]
View == [working : BOOLEAN, queue : Seq(Prompts), pending : Seq(Nat)]
Blank == [working |-> FALSE, queue |-> <<>>, pending |-> <<>>]

ServedTypeOK ==
    /\ run \in 1 .. MaxRuns
    /\ log \in Seq(Event)
    /\ srv \in View
    /\ taken \in Seq(Prompts)
    /\ nextId \in Nat
    /\ seen \in SUBSET Prompts
    /\ submitted \in Seq((1 .. MaxRuns) \X Prompts)
    /\ crossed \in BOOLEAN

\* Some of what the bounds allow may be used up.
ServedInit ==
    /\ run \in 1 .. MaxRuns
    /\ log = <<>>
    /\ srv = Blank
    /\ taken = <<>>
    /\ nextId \in 0 .. MaxAsks
    /\ seen = {}
    /\ submitted = <<>>
    /\ crossed = FALSE

-----------------------------------------------------------------------------
(* The log. *)

Latest == Len(log)
\* The oldest the ring still holds.
Oldest == IF Latest < Kept THEN 1 ELSE Latest - Kept + 1

\* since: how many after it are gone, and the rest with their numbers.
Missed(after) == IF Oldest > after + 1 THEN Oldest - after - 1 ELSE 0
Newer(after) ==
    LET first == IF after + 1 > Oldest THEN after + 1 ELSE Oldest
    IN  [i \in 1 .. (IF first > Latest THEN 0 ELSE Latest - first + 1) |-> first + i - 1]

-----------------------------------------------------------------------------
(* The routes. *)

Admitted(p) ==
    IF srv.working
    THEN /\ srv' = [srv EXCEPT !.queue = Append(@, p)]
         /\ log' = Append(log, EvtAt("queued", p, Len(srv.queue) + 1))
         /\ crossed' = (crossed \/ taken # <<>>)
    ELSE /\ srv' = [srv EXCEPT !.working = TRUE]
         /\ log' = Append(log, Evt("user", p))
         /\ UNCHANGED crossed
\* Mutant: the id of an accepted prompt is not kept.
PromptForgetful(p) ==
    /\ Admitted(p)
    /\ submitted' = Append(submitted, <<run, p>>)
    /\ UNCHANGED <<run, taken, nextId, seen>>

\* /prompt with an id: an id already accepted gets the first answer again.
Prompt(p) ==
    /\ \/ p \in seen /\ UNCHANGED <<srv, log, seen, submitted, crossed>>
       \/ /\ p \notin seen
          /\ Admitted(p)
          /\ seen' = seen \cup {p}
          /\ submitted' = Append(submitted, <<run, p>>)
    /\ UNCHANGED <<run, taken, nextId>>

\* /approve and /reject with an id: refused unless that one is on screen.
AnswerTakes(id) == srv.pending # <<>> /\ Head(srv.pending) = id
AnswerRoute(id) ==
    /\ \/ /\ AnswerTakes(id)
          /\ srv' = [srv EXCEPT !.pending = Tail(@)]
          /\ log' = Append(log, Evt("resolved", id))
       \/ ~AnswerTakes(id) /\ UNCHANGED <<srv, log>>
    /\ UNCHANGED <<run, taken, nextId, seen, submitted, crossed>>

\* /interrupt: 409 with no turn running; else what waits for an answer is rejected.
InterruptRoute ==
    /\ \/ /\ srv.working
          /\ srv' = [srv EXCEPT !.pending = <<>>]
          /\ log' = log \o [i \in 1 .. Len(srv.pending) |-> Evt("resolved", srv.pending[i])]
                        \o <<Evt("text", 0)>>
       \/ ~srv.working /\ UNCHANGED <<srv, log>>
    /\ UNCHANGED <<run, taken, nextId, seen, submitted, crossed>>

-----------------------------------------------------------------------------
(* The agent, and whoever sits at the server.  What it only says is left out. *)

AgentOnly == UNCHANGED <<run, seen, submitted>>

\* The turn takes what waits; each prompt's Steered is published as it lands.
TakesQueue ==
    /\ srv.working /\ srv.queue # <<>>
    /\ taken' = taken \o srv.queue
    /\ srv' = [srv EXCEPT !.queue = <<>>]
    /\ AgentOnly /\ UNCHANGED <<log, nextId, crossed>>

Lands ==
    /\ taken # <<>>
    /\ taken' = Tail(taken)
    /\ log' = Append(log, Evt("steered", Head(taken)))
    /\ AgentOnly /\ UNCHANGED <<srv, nextId, crossed>>

Asks ==
    /\ srv.working /\ srv.pending = <<>> /\ nextId < MaxAsks
    /\ nextId' = nextId + 1
    /\ srv' = [srv EXCEPT !.pending = <<nextId + 1>>]
    /\ log' = Append(log, Evt("approval", nextId + 1))
    /\ AgentOnly /\ UNCHANGED <<taken, crossed>>

\* Answered at the server itself.
AnsweredThere ==
    /\ srv.pending # <<>>
    /\ AnswerRoute(Head(srv.pending))

\* The end of the turn, and the start of the next on what waits.
TurnEnds ==
    /\ srv.working /\ srv.pending = <<>> /\ taken = <<>>
    /\ IF srv.queue = <<>>
       THEN /\ srv' = [srv EXCEPT !.working = FALSE]
            /\ log' = Append(log, Evt("turnend", 0))
            /\ crossed' = FALSE
       ELSE /\ srv' = [srv EXCEPT !.queue = Tail(@)]
            /\ log' = log \o <<Evt("turnend", 0), Evt("user", Head(srv.queue))>>
            /\ UNCHANGED crossed
    /\ AgentOnly /\ UNCHANGED <<taken, nextId>>

\* Started again: the session behind it is a new one, and its numbers start again.
Restarted ==
    /\ run < MaxRuns
    /\ run' = run + 1
    /\ log' = <<>>
    /\ srv' = Blank
    /\ taken' = <<>>
    /\ nextId' = 0
    /\ seen' = {}
    /\ crossed' = FALSE
    /\ UNCHANGED submitted

Agent == TakesQueue \/ Lands \/ Asks \/ AnsweredThere \/ TurnEnds
=============================================================================
