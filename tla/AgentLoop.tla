------------------------------ MODULE AgentLoop ------------------------------
(***************************************************************************)
(* The agent loop (agent.rs run_configured and turn) and the child agents  *)
(* it detaches (tools/agent.rs spawn).  What the model answers is any      *)
(* choice the code handles; an await the session can interleave with is a  *)
(* step boundary.  Inbox messages come as the argument of the step that    *)
(* reads them.                                                             *)
(***************************************************************************)
EXTENDS Wire

CONSTANTS
    CanFork,      \* whether the prompt cache lapses
    CanPanic,     \* whether the loop may panic
    CanAdopt,     \* whether the model calls the goal tool
    Batch,        \* bound: calls of one batch that wait on an approval together
    Lag           \* bound: events the pump may be behind when the loop, having
                  \* waited, acts on its own

ASSUME LoopAssumption ==
    /\ CanFork \in BOOLEAN /\ CanPanic \in BOOLEAN /\ CanAdopt \in BOOLEAN
    /\ Batch \in Nat \ {0}
    /\ Lag \in Nat

VARIABLES
    pc,           \* where the loop is
    opened,       \* what opened the turn
    outcome,      \* how the turn's model call ended
    acted,        \* whether the turn called a tool that does work
    behind,       \* calls of the batch whose approval is held until the one
                  \* before it is settled
    goal,         \* the goal's state
    idleTurns,    \* goal turns in a row that did no work
    adoptable,    \* whether the turn may still adopt or resume a goal
    model,        \* the model in force
    fork,         \* whether a compacted copy stands for the history
    compactNext,  \* a /compact taken mid-turn
    retried,      \* whether the turn is already the overflow's second try
    wake,         \* the loop-top decision to wake on the goal
    landed,       \* prompts in the history, in the order they joined it
    reported      \* children whose report is in the history, in order

loopVars == <<pc, opened, outcome, acted, behind, goal, idleTurns, adoptable, model,
              fork, compactNext, retried, wake, landed, reported>>

\* Inside turn(), where the select beside it still takes controls.
InTurn == {"step", "calling", "tools", "joining", "asking", "after"}
\* Past turn(), where only the loop itself runs.
Wrapping == {"closing", "marking", "compacting", "ending"}
Phases == {"idle", "aside", "summary", "forking", "panicked", "dead"}
            \cup InTurn \cup Wrapping
GoalStates == {"none", "active", "paused", "blocked", "complete"}

LoopTypeOK ==
    /\ pc \in Phases
    /\ opened \in {"prompt", "report", "goal", "retry"}
    /\ outcome \in {"ok", "failed", "auth", "overflow"}
    /\ acted \in BOOLEAN
    /\ behind \in 0 .. Batch
    /\ goal \in GoalStates
    /\ idleTurns \in 0 .. 3
    /\ adoptable \in BOOLEAN
    /\ model \in Models
    /\ fork \in BOOLEAN
    /\ compactNext \in BOOLEAN
    /\ retried \in BOOLEAN
    /\ wake \in BOOLEAN
    /\ landed \in Seq(Prompts)
    /\ reported \in Seq(Children)

LoopInit ==
    /\ pc = "idle"
    /\ opened = "prompt"
    /\ outcome = "ok"
    /\ acted = FALSE
    /\ behind = 0
    /\ goal = "none"
    /\ idleTurns = 0
    /\ adoptable = FALSE
    /\ model \in Models
    /\ fork = FALSE
    /\ compactNext = FALSE
    /\ retried = FALSE
    /\ wake = FALSE
    /\ landed = <<>>
    /\ reported = <<>>

-----------------------------------------------------------------------------
(* Between turns. *)

Says(said) == events' = events \o said
DropFork ==
    /\ fork' = FALSE
    /\ Says(IF fork THEN <<Say("nofork")>> ELSE <<>>)
\* Mutant: the decision is taken on the goal before the control was applied.
ToTopStale(goalNow) == pc' = "idle" /\ wake' = (~stop /\ goal = "active")

\* Back to the top of the loop, where waking on the goal is decided.
ToTop(goalNow) ==
    /\ pc' = "idle"
    /\ wake' = (~stop /\ goalNow = "active")

\* A turn begins; only one a message opened may adopt a goal.
Open(by, second) ==
    /\ pc' = "step"
    /\ opened' = by
    /\ adoptable' = (by = "prompt")
    /\ acted' = FALSE
    /\ outcome' = "ok"
    /\ retried' = second

Unopened == UNCHANGED <<opened, adoptable, acted, outcome, retried>>

\* /goal: apply.
Applied(command) ==
    CASE command = "set" -> "active"
      [] command = "cleargoal" -> "none"
      [] command = "pause" -> IF goal = "active" THEN "paused" ELSE goal
      [] command = "resume" -> IF goal = "none" THEN "none" ELSE "active"
Counted(command) ==
    IF command \in {"set", "cleargoal"} \/ (command = "resume" /\ goal # "active")
    THEN 0 ELSE idleTurns

TakesControl(op) ==
    /\ pc = "idle"
    /\ rxControl # <<>>
    /\ Head(rxControl).op = op
    /\ rxControl' = Tail(rxControl)
    /\ UNCHANGED <<rxUser, flagVars, childVars, alive, compactNext, behind>>

TakeCompact ==
    /\ TakesControl("compact")
    /\ pc' = "summary"
    /\ DropFork
    /\ Unopened
    /\ UNCHANGED <<results, goal, idleTurns, model, wake, landed, reported>>

TakeRetry ==
    /\ TakesControl("retry")
    /\ Open("retry", FALSE)
    /\ DropFork
    /\ UNCHANGED <<results, goal, idleTurns, model, wake, landed, reported>>

\* /btw and a workflow: their own run, and the compacted copy still stands.
TakeAside ==
    /\ TakesControl("btw") \/ TakesControl("workflow")
    /\ pc' = "aside"
    /\ Unopened
    /\ UNCHANGED <<results, events, goal, idleTurns, model, fork, wake, landed, reported>>

\* /compact-then: on the copy, or an end with no turn when it is gone.
TakeForked ==
    /\ TakesControl("forked")
    /\ \/ /\ fork
          /\ Open("prompt", FALSE)
          /\ landed' = Append(landed, Head(rxControl).arg)
          /\ DropFork
          /\ UNCHANGED wake
       \/ /\ ~fork
          /\ Says(<<Say("turnend")>>)
          /\ ToTop(goal)
          /\ Unopened
          /\ UNCHANGED <<fork, landed>>
    /\ UNCHANGED <<results, goal, idleTurns, model, reported>>

TakeModel ==
    /\ TakesControl("model")
    /\ model' = Head(rxControl).arg
    /\ DropFork
    /\ ToTop(goal)
    /\ Unopened
    /\ UNCHANGED <<results, goal, idleTurns, landed, reported>>

TakeClear ==
    /\ TakesControl("clear")
    /\ goal' = "none"
    /\ idleTurns' = 0
    /\ DropFork
    /\ ToTop("none")
    /\ Unopened
    /\ UNCHANGED <<results, model, landed, reported>>

TakeGoalCommand(command) ==
    /\ TakesControl(command)
    /\ goal' = Applied(command)
    /\ idleTurns' = Counted(command)
    /\ ToTop(Applied(command))
    /\ Unopened
    /\ UNCHANGED <<results, events, model, fork, landed, reported>>

\* The message that was typed is the turn to run, ahead of reports and goals.
TakePrompt ==
    /\ pc = "idle"
    /\ rxControl = <<>> /\ rxUser # <<>>
    /\ rxUser' = Tail(rxUser)
    /\ Open("prompt", FALSE)
    /\ landed' = Append(landed, Head(rxUser))
    /\ DropFork
    /\ UNCHANGED <<rxControl, results, flagVars, childVars, alive, goal, idleTurns,
                   model, compactNext, behind, wake, reported>>

Idle == pc = "idle" /\ rxControl = <<>> /\ rxUser = <<>>

\* A report lands.  It opens a turn unless the session was interrupted.
TakeReport ==
    /\ Idle
    /\ results # <<>>
    /\ results' = <<>>
    /\ reported' = reported \o results
    /\ fork' = FALSE
    /\ LET dropped == IF fork THEN <<Say("nofork")>> ELSE <<>>
       IN  \/ /\ ~stop
              /\ Says(dropped \o <<Say("resumed")>>)
              /\ Open("report", FALSE)
              /\ UNCHANGED wake
           \/ /\ stop
              /\ Says(dropped)
              /\ ToTop(goal)
              /\ Unopened
    /\ UNCHANGED <<rxControl, rxUser, flagVars, childVars, alive, goal, idleTurns,
                   model, compactNext, behind, landed>>

\* The goal opens a turn of its own, on the decision taken at the loop's top.
TakeGoal ==
    /\ Idle /\ results = <<>>
    /\ wake /\ goal = "active"
    /\ Len(events) <= Lag
    /\ fork' = FALSE
    /\ Says((IF fork THEN <<Say("nofork")>> ELSE <<>>) \o <<Say("resumed")>>)
    /\ Open("goal", FALSE)
    /\ UNCHANGED <<rxControl, rxUser, results, flagVars, childVars, alive, goal,
                   idleTurns, model, compactNext, behind, wake, landed, reported>>

\* The cache is about to lapse: a compacted copy is made while the session is idle.
StartFork ==
    /\ CanFork /\ Len(events) <= Lag
    /\ Idle /\ results = <<>>
    /\ ~fork /\ ~stop
    /\ pc' = "forking"
    /\ Unopened
    /\ UNCHANGED <<wireVars, goal, idleTurns, model, fork, compactNext, behind, wake,
                   landed, reported>>

EndFork ==
    /\ pc = "forking"
    /\ \/ ~stop /\ fork' = TRUE /\ Says(<<Say("fork")>>)
       \/ UNCHANGED <<fork, events>>
    /\ ToTop(goal)
    /\ Unopened
    /\ UNCHANGED <<rxUser, rxControl, results, flagVars, childVars, alive, goal,
                   idleTurns, model, compactNext, behind, landed, reported>>

-----------------------------------------------------------------------------
(* One turn. *)

Carried == UNCHANGED <<opened, idleTurns, model, fork, retried, wake>>
OffWire == UNCHANGED <<rxUser, rxControl, flagVars, alive>>

\* The top of a step: what was typed joins the history, then what the children
\* reported, then the call goes out; a failed authorization refresh ends it first,
\* and with the flag up the call is cut before it is sent.
Step(taken) ==
    /\ pc = "step"
    /\ landed' = landed \o taken
    /\ \/ /\ pc' = IF stop THEN "closing" ELSE "calling"
          /\ reported' = reported \o results
          /\ results' = <<>>
          /\ UNCHANGED outcome
       \/ /\ pc' = "closing"
          /\ outcome' = "failed"
          /\ UNCHANGED <<reported, results>>
    /\ Carried /\ OffWire
    /\ UNCHANGED <<behind, events, childVars, acted, goal, adoptable, compactNext>>

Returned == UNCHANGED <<behind, landed, reported, results, events, childVars, goal,
                        adoptable, compactNext>>

\* The call ends: cut off, failed, a refused image taken out, or calls to make.
\* An error on an interrupted turn is not an error.
CallEnds ==
    /\ pc = "calling"
    /\ \/ /\ stop
          /\ pc' = "closing"
          /\ UNCHANGED <<outcome, acted>>
       \/ /\ ~stop
          /\ pc' = "closing"
          /\ outcome' \in {"failed", "auth", "overflow"}
          /\ UNCHANGED acted
       \/ /\ ~stop
          /\ pc' = "step"
          /\ UNCHANGED <<outcome, acted>>
       \/ /\ pc' = "tools"
          /\ acted' \in {acted, TRUE}
          /\ UNCHANGED outcome
    /\ Carried /\ OffWire /\ Returned

\* An answer without calls ends the turn, unless something was typed meanwhile
\* or the model said it would carry on.
Answers(taken) ==
    /\ pc = "calling"
    /\ landed' = landed \o taken
    /\ pc' \in IF taken = <<>> THEN {"closing", "step"} ELSE {"step"}
    /\ Carried /\ OffWire
    /\ UNCHANGED <<behind, outcome, acted, reported, results, events, childVars, goal,
                   adoptable, compactNext>>

Born(c) ==
    /\ pc = "tools" /\ acted
    /\ childState[c] = "new"
    /\ pc' = "joining"
    /\ childState' = [childState EXCEPT ![c] = "born"]
    /\ Carried
    /\ UNCHANGED <<rxUser, rxControl, alive, outcome, acted, behind, goal, adoptable,
                   compactNext, landed, reported, results, events, replies>>
\* Mutant: a child spawned under the flag is born without it.
SpawnUnflagged(c) ==
    /\ Born(c)
    /\ UNCHANGED flagVars

\* The agent tool: the child's flag is a copy of the turn's as it is read now.
Spawn(c) ==
    /\ Born(c)
    /\ childStop' = [childStop EXCEPT ![c] = stop]
    /\ UNCHANGED stop

\* And joins the list an interrupt goes through, whose lock is taken only after.
Joins(c) ==
    /\ pc = "joining" /\ childState[c] = "born"
    /\ pc' = "tools"
    /\ childState' = [childState EXCEPT ![c] = "spawned"]
    /\ Carried /\ OffWire
    /\ UNCHANGED <<outcome, acted, behind, goal, adoptable, compactNext, landed, reported,
                   results, events, replies>>

\* The goal tool: adopt and resume once a turn a message opened, complete and
\* blocked while it is active.
GoalTool ==
    /\ CanAdopt
    /\ pc = "tools" /\ ~stop
    /\ \/ /\ adoptable
          /\ goal \in {"none", "complete", "blocked"}
          /\ goal' = "active"
          /\ idleTurns' = 0
          /\ adoptable' = FALSE
       \/ /\ goal = "active"
          /\ goal' \in {"complete", "blocked"}
          /\ UNCHANGED <<idleTurns, adoptable>>
    /\ UNCHANGED <<wireVars, pc, opened, outcome, acted, model, fork, compactNext, behind,
                   retried, wake, landed, reported>>

\* ask: the approval goes out on the event channel and the call waits for it.  Calls
\* of its batch that ask too have theirs held back: in_turn passes them on in order.
Ask ==
    /\ pc = "tools" /\ acted /\ ~stop
    /\ pc' = "asking"
    /\ behind' \in 0 .. Batch - 1
    /\ replies' = [replies EXCEPT ![Main] = "waiting"]
    /\ Says(<<SayOf("approval", Main)>>)
    /\ Carried /\ OffWire
    /\ UNCHANGED <<outcome, acted, goal, adoptable, compactNext, landed, reported,
                   results, childState>>

\* A call settled lets the next one's approval out, interrupted or not.
Answered ==
    /\ pc = "asking"
    /\ replies[Main] \in {"accept", "reject"}
    /\ \/ /\ behind = 0
          /\ pc' = "tools"
          /\ replies' = [replies EXCEPT ![Main] = "none"]
          /\ UNCHANGED <<behind, events>>
       \/ /\ behind > 0
          /\ behind' = behind - 1
          /\ replies' = [replies EXCEPT ![Main] = "waiting"]
          /\ Says(<<SayOf("approval", Main)>>)
          /\ UNCHANGED pc
    /\ Carried /\ OffWire
    /\ UNCHANGED <<outcome, acted, goal, adoptable, compactNext, landed, reported,
                   results, childState>>

\* Every call of the response has its output; the pairs join the history.
ToolsDone ==
    /\ pc = "tools"
    /\ pc' = "after"
    /\ Carried /\ OffWire /\ Returned
    /\ UNCHANGED <<outcome, acted>>

\* The next step, the end of an interrupted turn, or the third round of failures,
\* which pauses the goal.
After ==
    /\ pc = "after"
    /\ \/ stop /\ pc' = "closing" /\ UNCHANGED goal
       \/ ~stop /\ pc' = "step" /\ UNCHANGED goal
       \/ /\ ~stop
          /\ pc' = "closing"
          /\ goal' = IF goal = "active" THEN "paused" ELSE goal
    /\ Carried /\ OffWire
    /\ UNCHANGED <<behind, outcome, acted, adoptable, compactNext, landed, reported,
                   results, events, childVars>>

\* The select beside the turn: a /compact waits for its end, /goal applies, and
\* what the session should have refused is refused here.  A child joins within one poll
\* of the turn.
ControlMidTurn ==
    /\ pc \in InTurn \ {"joining"}
    /\ rxControl # <<>>
    /\ rxControl' = Tail(rxControl)
    /\ LET op == Head(rxControl).op
       IN  \/ /\ op = "compact"
              /\ compactNext' = TRUE
              /\ UNCHANGED <<goal, idleTurns, events>>
           \/ /\ op \in GoalCommands
              /\ goal' = Applied(op)
              /\ idleTurns' = Counted(op)
              /\ UNCHANGED <<compactNext, events>>
           \/ /\ op \notin GoalCommands \cup {"compact"}
              /\ Says(<<Say("refused")>>)
              /\ UNCHANGED <<compactNext, goal, idleTurns>>
    /\ UNCHANGED <<rxUser, results, flagVars, childVars, alive, pc, opened, outcome,
                   acted, behind, adoptable, model, fork, retried, wake, landed, reported>>

-----------------------------------------------------------------------------
(* Past the turn. *)

Ended == UNCHANGED <<behind, opened, acted, adoptable, model, fork, landed, reported,
                     rxUser, rxControl, results, flagVars, childVars, alive>>

Paused(g) == IF g = "active" THEN "paused" ELSE g
\* Mutants: one turn too many, and a count that starts again at every turn.
ProgressLate ==
    /\ idleTurns' = IF acted THEN 0 ELSE idleTurns + 1
    /\ goal' = IF idleTurns' > 3 THEN "paused" ELSE goal
ProgressForgetful == idleTurns' = 0 /\ UNCHANGED goal

\* Goal::progress: three goal turns in a row without work pause it.
Progress ==
    /\ idleTurns' = IF acted THEN 0 ELSE IF idleTurns < 3 THEN idleTurns + 1 ELSE 3
    /\ goal' = IF idleTurns' >= 3 THEN "paused" ELSE goal

\* What the end of the turn makes of the goal.
Close ==
    /\ pc = "closing"
    /\ pc' = "marking"
    /\ \/ /\ outcome \in {"failed", "auth"} \/ stop
          /\ goal' = Paused(goal)
          /\ UNCHANGED idleTurns
       \/ /\ outcome \in {"ok", "overflow"} /\ ~stop
          /\ IF opened = "goal" /\ goal = "active"
             THEN Progress
             ELSE UNCHANGED <<goal, idleTurns>>
    /\ Ended
    /\ UNCHANGED <<outcome, events, compactNext, retried, wake>>

\* The failure is told, and the history is compacted if it has to be and no
\* interrupt would cut the call off.
Mark ==
    /\ pc = "marking"
    /\ Says(IF outcome = "auth" THEN <<Say("authfailed")>> ELSE <<>>)
    /\ \/ /\ ~stop
          /\ pc' = "compacting"
          /\ UNCHANGED goal
       \/ /\ stop \/ ~(outcome = "overflow" \/ compactNext)
          /\ pc' = "ending"
          /\ goal' = IF outcome = "overflow" THEN Paused(goal) ELSE goal
    /\ Ended
    /\ UNCHANGED <<outcome, idleTurns, compactNext, retried, wake>>

\* The compaction is over.  A turn refused as too long runs again on it, once.
EndCompaction ==
    /\ pc = "compacting"
    /\ compactNext' = FALSE
    /\ \/ /\ outcome = "overflow" /\ ~retried
          /\ Open("retry", TRUE)
          /\ UNCHANGED goal
       \/ /\ pc' = "ending"
          /\ goal' = IF outcome = "overflow" THEN Paused(goal) ELSE goal
          /\ Unopened
    /\ UNCHANGED <<behind, model, fork, landed, reported, rxUser, rxControl, results, events,
                   flagVars, childVars, alive, idleTurns, wake>>

\* The turn's own state goes out of scope with it.
EndTurn ==
    /\ pc \in {"ending", "aside", "summary"}
    /\ Says(<<Say("turnend")>>)
    /\ ToTop(goal)
    /\ opened' = "prompt" /\ outcome' = "ok"
    /\ acted' = FALSE /\ adoptable' = FALSE /\ retried' = FALSE
    /\ UNCHANGED <<behind, model, fork, landed, reported, rxUser, rxControl, results,
                   flagVars, childVars, alive, goal, idleTurns, compactNext>>

\* A panic drops everything the loop was to read; watch then ends the turn for it.
Panic ==
    /\ CanPanic /\ alive /\ pc # "joining"
    /\ pc' = "panicked"
    /\ alive' = FALSE
    /\ behind' = 0
    /\ rxUser' = <<>> /\ rxControl' = <<>> /\ results' = <<>>
    /\ replies' = [replies EXCEPT ![Main] = "none"]
    /\ Unopened
    /\ UNCHANGED <<events, flagVars, childState, goal, idleTurns, model, fork,
                   compactNext, wake, landed, reported>>

Watch ==
    /\ pc = "panicked"
    /\ pc' = "dead"
    /\ Says(<<Say("turnend")>>)
    /\ Ended
    /\ UNCHANGED <<outcome, goal, idleTurns, compactNext, retried, wake>>

-----------------------------------------------------------------------------
(* A child's task. *)

ChildOnly == UNCHANGED <<loopVars, rxUser, rxControl, flagVars, alive>>
Becomes(c, state) == childState' = [childState EXCEPT ![c] = state]

\* Stopped before it was scheduled, it only reports.
ChildStart(c) ==
    /\ childState[c] = "spawned"
    /\ \/ childStop[c] /\ Becomes(c, "reporting") /\ UNCHANGED events
       \/ ~childStop[c] /\ Becomes(c, "running") /\ Says(<<SayOf("started", c)>>)
    /\ ChildOnly
    /\ UNCHANGED <<results, replies>>

ChildAsk(c) ==
    /\ childState[c] = "running" /\ ~childStop[c]
    /\ Becomes(c, "asking")
    /\ replies' = [replies EXCEPT ![c] = "waiting"]
    /\ Says(<<SayOf("approval", c)>>)
    /\ ChildOnly
    /\ UNCHANGED results

ChildAnswered(c) ==
    /\ childState[c] = "asking"
    /\ replies[c] \in {"accept", "reject"}
    /\ Becomes(c, "running")
    /\ replies' = [replies EXCEPT ![c] = "none"]
    /\ ChildOnly
    /\ UNCHANGED <<results, events>>

ChildEnd(c) ==
    /\ childState[c] = "running"
    /\ Becomes(c, "reporting")
    /\ Says(<<SayOf("ended", c)>>)
    /\ ChildOnly
    /\ UNCHANGED <<results, replies>>
\* Mutants: one slot for all the reports, and no report from a child stopped.
ChildReportAs(c, posted) ==
    /\ childState[c] = "reporting"
    /\ Becomes(c, "gone")
    /\ results' = posted
    /\ ChildOnly
    /\ UNCHANGED <<events, replies>>
ChildReportSlot(c) == ChildReportAs(c, <<c>>)
ChildReportSilent(c) ==
    ChildReportAs(c, IF alive /\ ~childStop[c] THEN Append(results, c) ELSE results)

ChildReport(c) ==
    /\ childState[c] = "reporting"
    /\ Becomes(c, "gone")
    /\ results' = IF alive THEN Append(results, c) ELSE results
    /\ ChildOnly
    /\ UNCHANGED <<events, replies>>

ChildStep(c) ==
    ChildStart(c) \/ ChildAsk(c) \/ ChildAnswered(c) \/ ChildEnd(c) \/ ChildReport(c)
=============================================================================
