----------------------------- MODULE CoreProofs -----------------------------
(***************************************************************************)
(* A session keeps its types, for every number of messages, children and   *)
(* models and every capacity of the channels; and one marked as working is *)
(* always owed the event that unmarks it.                                  *)
(***************************************************************************)
EXTENDS CoreProperties, SequenceTheorems, TLAPS

-----------------------------------------------------------------------------
(* What the helpers of the actions return. *)

LEMMA SayTyped ==
    ASSUME NEW kind \in EventKinds \ ChildEvents, NEW who \in Askers
    PROVE  /\ <<Say(kind)>> \in Seq(Event)
           /\ <<SayOf(kind, who)>> \in Seq(Event)
  BY DEF Say, SayOf, Event, Askers

LEMMA ChildSaysTyped ==
    ASSUME NEW kind \in ChildEvents, NEW c \in Children
    PROVE  <<SayOf(kind, c)>> \in Seq(Event)
  BY DEF SayOf, Event

LEMMA SaysTyped ==
    ASSUME events \in Seq(Event), NEW said \in Seq(Event), Says(said)
    PROVE  events' \in Seq(Event)
  BY DEF Says

LEMMA ForkDropped ==
    ASSUME events \in Seq(Event), DropFork
    PROVE  events' \in Seq(Event) /\ fork' \in BOOLEAN
<1>1. <<Say("nofork")>> \in Seq(Event)
  BY SayTyped DEF EventKinds, ChildEvents, Askers
<1>2. (IF fork THEN <<Say("nofork")>> ELSE <<>>) \in Seq(Event)
  BY <1>1
<1> QED
  BY <1>2, SaysTyped DEF DropFork

LEMMA ControlTaken ==
    ASSUME rxControl \in Seq(Control), rxControl # <<>>
    PROVE  /\ Head(rxControl) \in Control
           /\ Tail(rxControl) \in Seq(Control)
  OBVIOUS

LEMMA ControlCarries ==
    ASSUME NEW control \in Control
    PROVE  /\ control.op = "model" => control.arg \in Models
           /\ control.op = "forked" => control.arg \in Prompts
  BY DEF Control, PlainControls, GoalCommands, TurnControls

LEMMA PlainTyped ==
    ASSUME NEW op \in PlainControls
    PROVE  Plain(op) \in Control
  BY DEF Plain, Control

LEMMA ToTopTyped ==
    ASSUME NEW goalNow, ToTop(goalNow)
    PROVE  pc' \in Phases /\ wake' \in BOOLEAN
  BY DEF ToTop, Phases

LEMMA OpenTyped ==
    ASSUME NEW by \in {"prompt", "report", "goal", "retry"}, NEW second \in BOOLEAN,
           Open(by, second)
    PROVE  /\ pc' \in Phases
           /\ opened' \in {"prompt", "report", "goal", "retry"}
           /\ outcome' \in {"ok", "failed", "auth", "overflow"}
           /\ adoptable' \in BOOLEAN /\ acted' \in BOOLEAN /\ retried' \in BOOLEAN
  BY DEF Open, Phases, InTurn

LEMMA UnopenedTyped ==
    ASSUME LoopTypeOK, Unopened
    PROVE  /\ opened' \in {"prompt", "report", "goal", "retry"}
           /\ outcome' \in {"ok", "failed", "auth", "overflow"}
           /\ adoptable' \in BOOLEAN /\ acted' \in BOOLEAN /\ retried' \in BOOLEAN
  BY DEF LoopTypeOK, Unopened

LEMMA TakesControlTyped ==
    ASSUME WireTypeOK, NEW op, TakesControl(op)
    PROVE  /\ rxControl' \in Seq(Control)
           /\ Head(rxControl) \in Control
           /\ Head(rxControl).op = op
           /\ UNCHANGED <<rxUser, stop, childStop, childState, replies, alive,
                          compactNext, behind>>
  BY DEF WireTypeOK, TakesControl, flagVars, childVars

LEMMA GoalTyped ==
    ASSUME LoopTypeOK, NEW command \in GoalCommands
    PROVE  Applied(command) \in GoalStates /\ Counted(command) \in 0 .. 3
  BY DEF LoopTypeOK, GoalStates, GoalCommands, Applied, Counted

-----------------------------------------------------------------------------
(* The loop between turns. *)

LEMMA TakeCompactTyped ==
    ASSUME WireTypeOK, LoopTypeOK, TakeCompact
    PROVE  WireTypeOK' /\ LoopTypeOK'
<1>1. WireTypeOK'
  BY ForkDropped, TakesControlTyped DEF WireTypeOK, TakeCompact
<1>2. LoopTypeOK'
  BY ForkDropped, TakesControlTyped
     DEF WireTypeOK, LoopTypeOK, TakeCompact, Unopened, Phases
<1> QED
  BY <1>1, <1>2

LEMMA TakeRetryTyped ==
    ASSUME WireTypeOK, LoopTypeOK, TakeRetry
    PROVE  WireTypeOK' /\ LoopTypeOK'
<1>1. WireTypeOK'
  BY ForkDropped, TakesControlTyped DEF WireTypeOK, TakeRetry
<1>2. /\ pc' \in Phases
      /\ opened' \in {"prompt", "report", "goal", "retry"}
      /\ outcome' \in {"ok", "failed", "auth", "overflow"}
      /\ adoptable' \in BOOLEAN /\ acted' \in BOOLEAN /\ retried' \in BOOLEAN
  BY OpenTyped DEF TakeRetry
<1>3. LoopTypeOK'
  BY <1>2, ForkDropped, TakesControlTyped DEF WireTypeOK, LoopTypeOK, TakeRetry
<1> QED
  BY <1>1, <1>3

LEMMA TakeAsideTyped ==
    ASSUME WireTypeOK, LoopTypeOK, TakeAside
    PROVE  WireTypeOK' /\ LoopTypeOK'
<1>1. WireTypeOK'
  BY TakesControlTyped DEF WireTypeOK, TakeAside
<1>2. LoopTypeOK'
  BY TakesControlTyped DEF LoopTypeOK, TakeAside, Unopened, Phases
<1> QED
  BY <1>1, <1>2

LEMMA TakeForkedTyped ==
    ASSUME WireTypeOK, LoopTypeOK, TakeForked
    PROVE  WireTypeOK' /\ LoopTypeOK'
<1>1. events' \in Seq(Event) /\ fork' \in BOOLEAN
  <2>1. <<Say("turnend")>> \in Seq(Event)
    BY SayTyped DEF EventKinds, ChildEvents, Askers
  <2> QED
    BY <2>1, ForkDropped, SaysTyped DEF WireTypeOK, LoopTypeOK, TakeForked
<1>2. landed' \in Seq(Prompts)
  <2>1. Head(rxControl).arg \in Prompts
    BY TakesControlTyped, ControlCarries DEF TakeForked
  <2>2. landed' = landed \/ landed' = Append(landed, Head(rxControl).arg)
    BY DEF TakeForked
  <2> QED
    BY <2>1, <2>2 DEF LoopTypeOK
<1>3. WireTypeOK'
  BY <1>1, TakesControlTyped DEF WireTypeOK, TakeForked
<1>4. pc' \in Phases /\ wake' \in BOOLEAN
  BY OpenTyped, ToTopTyped DEF LoopTypeOK, TakeForked
<1>5. /\ opened' \in {"prompt", "report", "goal", "retry"}
      /\ outcome' \in {"ok", "failed", "auth", "overflow"}
      /\ adoptable' \in BOOLEAN /\ acted' \in BOOLEAN /\ retried' \in BOOLEAN
  BY OpenTyped, UnopenedTyped DEF TakeForked
<1>6. LoopTypeOK'
  BY <1>1, <1>2, <1>4, <1>5, TakesControlTyped DEF LoopTypeOK, TakeForked
<1> QED
  BY <1>3, <1>6

LEMMA TakeModelTyped ==
    ASSUME WireTypeOK, LoopTypeOK, TakeModel
    PROVE  WireTypeOK' /\ LoopTypeOK'
<1>1. WireTypeOK'
  BY ForkDropped, TakesControlTyped DEF WireTypeOK, TakeModel
<1>2. model' \in Models
  BY TakesControlTyped, ControlCarries DEF TakeModel
<1>3. LoopTypeOK'
  BY <1>2, ForkDropped, TakesControlTyped, ToTopTyped, UnopenedTyped
     DEF WireTypeOK, LoopTypeOK, TakeModel
<1> QED
  BY <1>1, <1>3

LEMMA TakeClearTyped ==
    ASSUME WireTypeOK, LoopTypeOK, TakeClear
    PROVE  WireTypeOK' /\ LoopTypeOK'
<1>1. WireTypeOK'
  BY ForkDropped, TakesControlTyped DEF WireTypeOK, TakeClear
<1>2. LoopTypeOK'
  BY ForkDropped, TakesControlTyped, ToTopTyped, UnopenedTyped
     DEF WireTypeOK, LoopTypeOK, TakeClear, GoalStates
<1> QED
  BY <1>1, <1>2

LEMMA TakeGoalCommandTyped ==
    ASSUME WireTypeOK, LoopTypeOK, NEW command \in GoalCommands,
           TakeGoalCommand(command)
    PROVE  WireTypeOK' /\ LoopTypeOK'
<1>1. WireTypeOK'
  BY TakesControlTyped DEF WireTypeOK, TakeGoalCommand
<1>2. LoopTypeOK'
  BY TakesControlTyped, ToTopTyped, UnopenedTyped, GoalTyped
     DEF LoopTypeOK, TakeGoalCommand
<1> QED
  BY <1>1, <1>2

LEMMA TakePromptTyped ==
    ASSUME WireTypeOK, LoopTypeOK, TakePrompt
    PROVE  WireTypeOK' /\ LoopTypeOK'
<1>1. Head(rxUser) \in Prompts /\ Tail(rxUser) \in Seq(Prompts)
  BY DEF WireTypeOK, TakePrompt
<1>2. WireTypeOK'
  BY <1>1, ForkDropped DEF WireTypeOK, TakePrompt, flagVars, childVars
<1>3. landed' \in Seq(Prompts)
  BY <1>1 DEF LoopTypeOK, TakePrompt
<1>4. LoopTypeOK'
  BY <1>3, ForkDropped, OpenTyped DEF WireTypeOK, LoopTypeOK, TakePrompt
<1> QED
  BY <1>2, <1>4

LEMMA ResumedTyped ==
    /\ (IF fork THEN <<Say("nofork")>> ELSE <<>>) \o <<Say("resumed")>> \in Seq(Event)
    /\ (IF fork THEN <<Say("nofork")>> ELSE <<>>) \in Seq(Event)
<1>1. <<Say("nofork")>> \in Seq(Event) /\ <<Say("resumed")>> \in Seq(Event)
  BY SayTyped DEF EventKinds, ChildEvents, Askers
<1> QED
  BY <1>1

LEMMA TakeReportTyped ==
    ASSUME WireTypeOK, LoopTypeOK, TakeReport
    PROVE  WireTypeOK' /\ LoopTypeOK'
<1>1. events' \in Seq(Event)
  BY ResumedTyped, SaysTyped DEF WireTypeOK, TakeReport
<1>2. WireTypeOK'
  BY <1>1 DEF WireTypeOK, TakeReport, flagVars, childVars
<1>3. reported' \in Seq(Children)
  BY DEF WireTypeOK, LoopTypeOK, TakeReport
<1>4. pc' \in Phases /\ wake' \in BOOLEAN
  BY OpenTyped, ToTopTyped DEF LoopTypeOK, TakeReport
<1>5. /\ opened' \in {"prompt", "report", "goal", "retry"}
      /\ outcome' \in {"ok", "failed", "auth", "overflow"}
      /\ adoptable' \in BOOLEAN /\ acted' \in BOOLEAN /\ retried' \in BOOLEAN
  BY OpenTyped, UnopenedTyped DEF TakeReport
<1>6. LoopTypeOK'
  BY <1>3, <1>4, <1>5 DEF LoopTypeOK, TakeReport
<1> QED
  BY <1>2, <1>6

LEMMA TakeGoalTyped ==
    ASSUME WireTypeOK, LoopTypeOK, TakeGoal
    PROVE  WireTypeOK' /\ LoopTypeOK'
<1>1. WireTypeOK'
  BY ResumedTyped, SaysTyped DEF WireTypeOK, TakeGoal, flagVars, childVars
<1>2. LoopTypeOK'
  BY OpenTyped DEF LoopTypeOK, TakeGoal
<1> QED
  BY <1>1, <1>2

LEMMA StartForkTyped ==
    ASSUME WireTypeOK, LoopTypeOK, StartFork
    PROVE  WireTypeOK' /\ LoopTypeOK'
<1>1. WireTypeOK'
  BY DEF WireTypeOK, StartFork, wireVars
<1>2. LoopTypeOK'
  BY UnopenedTyped DEF LoopTypeOK, StartFork, Phases
<1> QED
  BY <1>1, <1>2

LEMMA EndForkTyped ==
    ASSUME WireTypeOK, LoopTypeOK, EndFork
    PROVE  WireTypeOK' /\ LoopTypeOK'
<1>1. <<Say("fork")>> \in Seq(Event)
  BY SayTyped DEF EventKinds, ChildEvents, Askers
<1>2. events' \in Seq(Event)
  BY <1>1, SaysTyped DEF WireTypeOK, EndFork
<1>3. WireTypeOK'
  BY <1>2 DEF WireTypeOK, EndFork, flagVars, childVars
<1>4. LoopTypeOK'
  BY UnopenedTyped, ToTopTyped DEF LoopTypeOK, EndFork
<1> QED
  BY <1>3, <1>4

-----------------------------------------------------------------------------
(* One turn. *)

LEMMA StepTyped ==
    ASSUME WireTypeOK, LoopTypeOK, NEW taken \in Seq(Prompts), Step(taken)
    PROVE  WireTypeOK' /\ LoopTypeOK'
<1>1. WireTypeOK'
  <2>1. results' = results \/ results' = <<>>
    BY DEF Step
  <2>2. results \in Seq(Children)
    BY DEF WireTypeOK
  <2>3. results' \in Seq(Children)
    BY <2>1, <2>2, EmptySeq
  <2> QED
    BY <2>3 DEF WireTypeOK, Step, OffWire, flagVars, childVars
<1>2. landed' \in Seq(Prompts)
  BY DEF LoopTypeOK, Step
<1>3. reported' \in Seq(Children)
  <2>1. reported' = reported \/ reported' = reported \o results
    BY DEF Step
  <2>2. reported \in Seq(Children) /\ reported \o results \in Seq(Children)
    BY DEF WireTypeOK, LoopTypeOK
  <2> QED
    BY <2>1, <2>2
<1>4. pc' \in Phases /\ outcome' \in {"ok", "failed", "auth", "overflow"}
  BY DEF LoopTypeOK, Step, Phases, InTurn, Wrapping
<1>5. LoopTypeOK'
  BY <1>2, <1>3, <1>4 DEF LoopTypeOK, Step, Carried
<1> QED
  BY <1>1, <1>5

LEMMA CallEndsTyped ==
    ASSUME WireTypeOK, LoopTypeOK, CallEnds
    PROVE  WireTypeOK' /\ LoopTypeOK'
<1>1. WireTypeOK'
  BY DEF WireTypeOK, CallEnds, OffWire, Returned, flagVars, childVars
<1>2. pc' \in Phases
  BY DEF CallEnds, Phases, InTurn, Wrapping
<1>3. outcome' \in {"ok", "failed", "auth", "overflow"} /\ acted' \in BOOLEAN
  BY DEF LoopTypeOK, CallEnds
<1>4. LoopTypeOK'
  BY <1>2, <1>3 DEF LoopTypeOK, CallEnds, Carried, Returned
<1> QED
  BY <1>1, <1>4

LEMMA AnswersTyped ==
    ASSUME WireTypeOK, LoopTypeOK, NEW taken \in Seq(Prompts), Answers(taken)
    PROVE  WireTypeOK' /\ LoopTypeOK'
<1>1. WireTypeOK'
  BY DEF WireTypeOK, Answers, OffWire, flagVars, childVars
<1>2. pc' \in Phases /\ landed' \in Seq(Prompts)
  BY DEF LoopTypeOK, Answers, Phases, InTurn, Wrapping
<1>3. LoopTypeOK'
  BY <1>2 DEF LoopTypeOK, Answers, Carried
<1> QED
  BY <1>1, <1>3

LEMMA SpawnTyped ==
    ASSUME WireTypeOK, LoopTypeOK, NEW c \in Children, Spawn(c) \/ Joins(c)
    PROVE  WireTypeOK' /\ LoopTypeOK'
<1>1. childState' \in [Children -> ChildStates]
  BY DEF WireTypeOK, Spawn, Born, Joins, ChildStates
<1>2. childStop' \in [Children -> BOOLEAN]
  BY DEF WireTypeOK, Spawn, Joins, OffWire, flagVars
<1>3. WireTypeOK'
  BY <1>1, <1>2 DEF WireTypeOK, Spawn, Born, Joins, OffWire, flagVars
<1>4. pc' \in Phases
  BY DEF Spawn, Born, Joins, Phases, InTurn
<1>5. LoopTypeOK'
  BY <1>4 DEF LoopTypeOK, Spawn, Born, Joins, Carried
<1> QED
  BY <1>3, <1>5

LEMMA GoalToolTyped ==
    ASSUME WireTypeOK, LoopTypeOK, GoalTool
    PROVE  WireTypeOK' /\ LoopTypeOK'
<1>1. WireTypeOK'
  BY DEF WireTypeOK, GoalTool, wireVars
<1>2. goal' \in GoalStates
  BY DEF GoalTool, GoalStates
<1>4. idleTurns' \in 0 .. 3
  BY DEF LoopTypeOK, GoalTool
<1>5. adoptable' \in BOOLEAN
  BY DEF LoopTypeOK, GoalTool
<1>3. LoopTypeOK'
  BY <1>2, <1>4, <1>5 DEF LoopTypeOK, GoalTool
<1> QED
  BY <1>1, <1>3

LEMMA AskTyped ==
    ASSUME WireTypeOK, LoopTypeOK, Ask
    PROVE  WireTypeOK' /\ LoopTypeOK'
<1>1. events' \in Seq(Event)
  BY SayTyped, SaysTyped DEF WireTypeOK, Ask, EventKinds, ChildEvents, Askers
<1>2. WireTypeOK'
  BY <1>1 DEF WireTypeOK, Ask, OffWire, flagVars, Askers
<1>3. behind' \in 0 .. Batch
  BY LoopAssumption DEF Ask
<1>4. LoopTypeOK'
  BY <1>3 DEF LoopTypeOK, Ask, Carried, Phases, InTurn
<1> QED
  BY <1>2, <1>4

LEMMA AnsweredTyped ==
    ASSUME WireTypeOK, LoopTypeOK, Answered
    PROVE  WireTypeOK' /\ LoopTypeOK'
<1>1. events' \in Seq(Event)
  <2>1. <<SayOf("approval", Main)>> \in Seq(Event)
    BY SayTyped DEF EventKinds, ChildEvents, Askers
  <2> QED
    BY <2>1, SaysTyped DEF WireTypeOK, Answered
<1>2. replies' \in [Askers -> {"none", "waiting", "accept", "reject"}]
  BY DEF WireTypeOK, Answered
<1>3. WireTypeOK'
  BY <1>1, <1>2 DEF WireTypeOK, Answered, OffWire, flagVars
<1>4. pc' \in Phases /\ behind' \in 0 .. Batch
  BY LoopAssumption DEF LoopTypeOK, Answered, Phases, InTurn
<1>5. LoopTypeOK'
  BY <1>4 DEF LoopTypeOK, Answered, Carried
<1> QED
  BY <1>3, <1>5

LEMMA ToolsDoneTyped ==
    ASSUME WireTypeOK, LoopTypeOK, ToolsDone
    PROVE  WireTypeOK' /\ LoopTypeOK'
<1>1. WireTypeOK'
  BY DEF WireTypeOK, ToolsDone, OffWire, Returned, flagVars, childVars
<1>2. LoopTypeOK'
  BY DEF LoopTypeOK, ToolsDone, Carried, Returned, Phases, InTurn
<1> QED
  BY <1>1, <1>2

LEMMA AfterTyped ==
    ASSUME WireTypeOK, LoopTypeOK, After
    PROVE  WireTypeOK' /\ LoopTypeOK'
<1>1. WireTypeOK'
  BY DEF WireTypeOK, After, OffWire, flagVars, childVars
<1>2. pc' \in Phases /\ goal' \in GoalStates
  BY DEF LoopTypeOK, After, Phases, InTurn, Wrapping, GoalStates
<1>3. LoopTypeOK'
  BY <1>2 DEF LoopTypeOK, After, Carried
<1> QED
  BY <1>1, <1>3

LEMMA ControlMidTurnTyped ==
    ASSUME WireTypeOK, LoopTypeOK, ControlMidTurn
    PROVE  WireTypeOK' /\ LoopTypeOK'
<1>1. Head(rxControl) \in Control /\ rxControl' \in Seq(Control)
  BY ControlTaken DEF WireTypeOK, ControlMidTurn
<1>2. events' \in Seq(Event)
  <2>1. <<Say("refused")>> \in Seq(Event)
    BY SayTyped DEF EventKinds, ChildEvents, Askers
  <2> QED
    BY <2>1, SaysTyped DEF WireTypeOK, ControlMidTurn
<1>3. WireTypeOK'
  BY <1>1, <1>2 DEF WireTypeOK, ControlMidTurn, flagVars, childVars
<1>4. goal' \in GoalStates /\ idleTurns' \in 0 .. 3 /\ compactNext' \in BOOLEAN
  BY GoalTyped DEF LoopTypeOK, ControlMidTurn
<1>5. LoopTypeOK'
  BY <1>4 DEF LoopTypeOK, ControlMidTurn
<1> QED
  BY <1>3, <1>5

-----------------------------------------------------------------------------
(* Past the turn. *)

LEMMA CloseTyped ==
    ASSUME WireTypeOK, LoopTypeOK, Close
    PROVE  WireTypeOK' /\ LoopTypeOK'
<1>1. WireTypeOK'
  BY DEF WireTypeOK, Close, Ended, flagVars, childVars
<1>2. goal' \in GoalStates /\ idleTurns' \in 0 .. 3
  BY DEF LoopTypeOK, Close, Progress, Paused, GoalStates
<1>3. LoopTypeOK'
  BY <1>2 DEF LoopTypeOK, Close, Ended, Phases, Wrapping
<1> QED
  BY <1>1, <1>3

LEMMA MarkTyped ==
    ASSUME WireTypeOK, LoopTypeOK, Mark
    PROVE  WireTypeOK' /\ LoopTypeOK'
<1>1. events' \in Seq(Event)
  <2>1. <<Say("authfailed")>> \in Seq(Event)
    BY SayTyped DEF EventKinds, ChildEvents, Askers
  <2>2. (IF outcome = "auth" THEN <<Say("authfailed")>> ELSE <<>>) \in Seq(Event)
    BY <2>1
  <2> QED
    BY <2>1, <2>2, SaysTyped DEF WireTypeOK, Mark
<1>2. WireTypeOK'
  BY <1>1 DEF WireTypeOK, Mark, Ended, flagVars, childVars
<1>3. pc' \in Phases /\ goal' \in GoalStates
  BY DEF LoopTypeOK, Mark, Paused, GoalStates, Phases, Wrapping
<1>4. LoopTypeOK'
  BY <1>3 DEF LoopTypeOK, Mark, Ended
<1> QED
  BY <1>2, <1>4

LEMMA EndCompactionTyped ==
    ASSUME WireTypeOK, LoopTypeOK, EndCompaction
    PROVE  WireTypeOK' /\ LoopTypeOK'
<1>1. WireTypeOK'
  BY DEF WireTypeOK, EndCompaction, flagVars, childVars
<1>2. pc' \in Phases /\ goal' \in GoalStates
  BY OpenTyped DEF LoopTypeOK, EndCompaction, Paused, GoalStates, Phases, Wrapping
<1>3. /\ opened' \in {"prompt", "report", "goal", "retry"}
      /\ outcome' \in {"ok", "failed", "auth", "overflow"}
      /\ adoptable' \in BOOLEAN /\ acted' \in BOOLEAN /\ retried' \in BOOLEAN
  BY OpenTyped, UnopenedTyped DEF EndCompaction
<1>4. LoopTypeOK'
  BY <1>2, <1>3 DEF LoopTypeOK, EndCompaction
<1> QED
  BY <1>1, <1>4

LEMMA EndTurnTyped ==
    ASSUME WireTypeOK, LoopTypeOK, EndTurn
    PROVE  WireTypeOK' /\ LoopTypeOK'
<1>1. events' \in Seq(Event)
  BY SayTyped, SaysTyped DEF WireTypeOK, EndTurn, EventKinds, ChildEvents, Askers
<1>2. WireTypeOK'
  BY <1>1 DEF WireTypeOK, EndTurn, flagVars, childVars
<1>3. LoopTypeOK'
  BY ToTopTyped DEF LoopTypeOK, EndTurn
<1> QED
  BY <1>2, <1>3

LEMMA PanicTyped ==
    ASSUME WireTypeOK, LoopTypeOK, Panic
    PROVE  WireTypeOK' /\ LoopTypeOK'
<1>1. WireTypeOK'
  <2>1. /\ rxUser' \in Seq(Prompts) /\ rxControl' \in Seq(Control)
        /\ results' \in Seq(Children)
    BY DEF Panic
  <2> QED
    BY <2>1 DEF WireTypeOK, Panic, flagVars, Askers
<1>2. LoopTypeOK'
  BY UnopenedTyped, LoopAssumption DEF LoopTypeOK, Panic, Phases
<1> QED
  BY <1>1, <1>2

LEMMA WatchTyped ==
    ASSUME WireTypeOK, LoopTypeOK, Watch
    PROVE  WireTypeOK' /\ LoopTypeOK'
<1>1. events' \in Seq(Event)
  BY SayTyped, SaysTyped DEF WireTypeOK, Watch, EventKinds, ChildEvents, Askers
<1>2. WireTypeOK'
  BY <1>1 DEF WireTypeOK, Watch, Ended, flagVars, childVars
<1>3. LoopTypeOK'
  BY DEF LoopTypeOK, Watch, Ended, Phases
<1> QED
  BY <1>2, <1>3

LEMMA ChildStepTyped ==
    ASSUME WireTypeOK, LoopTypeOK, NEW c \in Children, ChildStep(c)
    PROVE  WireTypeOK' /\ LoopTypeOK'
<1>1. events' \in Seq(Event)
  <2>1. /\ <<SayOf("started", c)>> \in Seq(Event)
        /\ <<SayOf("approval", c)>> \in Seq(Event)
        /\ <<SayOf("ended", c)>> \in Seq(Event)
    BY SayTyped, ChildSaysTyped DEF EventKinds, ChildEvents, Askers
  <2> QED
    BY <2>1, SaysTyped
       DEF WireTypeOK, ChildStep, ChildStart, ChildAsk, ChildAnswered, ChildEnd, ChildReport
<1>2. childState' \in [Children -> ChildStates]
  BY DEF WireTypeOK, ChildStep, ChildStart, ChildAsk, ChildAnswered, ChildEnd,
         ChildReport, Becomes, ChildStates
<1>3. replies' \in [Askers -> {"none", "waiting", "accept", "reject"}]
  BY DEF WireTypeOK, ChildStep, ChildStart, ChildAsk, ChildAnswered, ChildEnd,
         ChildReport
<1>4. results' \in Seq(Children)
  <2>1. results' = results \/ results' = Append(results, c)
    BY DEF ChildStep, ChildStart, ChildAsk, ChildAnswered, ChildEnd, ChildReport
  <2>2. results \in Seq(Children)
    BY DEF WireTypeOK
  <2>3. Append(results, c) \in Seq(Children)
    BY <2>2, AppendProperties
  <2> QED
    BY <2>1, <2>2, <2>3
<1>5. ChildOnly
  BY DEF ChildStep, ChildStart, ChildAsk, ChildAnswered, ChildEnd, ChildReport
<1>6. WireTypeOK'
  BY <1>1, <1>2, <1>3, <1>4, <1>5 DEF WireTypeOK, ChildOnly, flagVars
<1>7. LoopTypeOK'
  BY <1>5 DEF LoopTypeOK, ChildOnly, loopVars
<1> QED
  BY <1>6, <1>7

-----------------------------------------------------------------------------
(* The hub. *)

LEMMA SendTyped ==
    ASSUME WireTypeOK, HubTypeOK, NEW p \in Prompts, Send(p)
    PROVE  /\ held' \in BOOLEAN /\ working' \in BOOLEAN /\ stop' \in BOOLEAN
           /\ accepted' \in Seq(Prompts)
           /\ queue' \in Seq(Prompts \cup {Compact})
           /\ rxUser' \in Seq(Prompts)
<1>1. /\ accepted' = accepted \/ accepted' = Append(accepted, p)
      /\ queue' = queue \/ queue' = Append(queue, p)
      /\ rxUser' = rxUser \/ rxUser' = Append(rxUser, p)
  BY DEF Send, Enqueue
<1>2. /\ accepted' \in Seq(Prompts)
      /\ queue' \in Seq(Prompts \cup {Compact})
      /\ rxUser' \in Seq(Prompts)
  <2>1. /\ accepted \in Seq(Prompts) /\ Append(accepted, p) \in Seq(Prompts)
        /\ rxUser \in Seq(Prompts) /\ Append(rxUser, p) \in Seq(Prompts)
    BY DEF WireTypeOK, HubTypeOK
  <2>2. /\ queue \in Seq(Prompts \cup {Compact})
        /\ Append(queue, p) \in Seq(Prompts \cup {Compact})
    BY DEF HubTypeOK
  <2> QED
    BY <1>1, <2>1, <2>2
<1>3. UserRoom \in BOOLEAN
  BY DEF UserRoom, WireTypeOK
<1> QED
  BY <1>2, <1>3 DEF Send, WireTypeOK, HubTypeOK

LEMMA SubmitTyped ==
    ASSUME WireTypeOK, HubTypeOK, NEW p \in Prompts, Submit(p)
    PROVE  WireTypeOK' /\ HubTypeOK'
<1>1. WireTypeOK'
  BY SendTyped DEF WireTypeOK, Submit, childVars
<1>2. HubTypeOK'
  BY SendTyped DEF HubTypeOK, Submit, Kept
<1> QED
  BY <1>1, <1>2

LEMMA SubmitAutomaticTyped ==
    ASSUME WireTypeOK, HubTypeOK, NEW p \in Prompts, SubmitAutomatic(p)
    PROVE  WireTypeOK' /\ HubTypeOK'
<1>1. WireTypeOK'
  BY DEF WireTypeOK, SubmitAutomatic, wireVars
<1>2. /\ accepted' = accepted \/ accepted' = Append(accepted, p)
      /\ queue' = queue \/ queue' = Append(queue, p)
      /\ autoGo' = autoGo \/ (p \in Autos /\ autoGo' = p)
  BY DEF SubmitAutomatic, Enqueue
<1>3. accepted' \in Seq(Prompts) /\ queue' \in Seq(Prompts \cup {Compact})
  <2>1. accepted \in Seq(Prompts) /\ Append(accepted, p) \in Seq(Prompts)
    BY DEF HubTypeOK
  <2>2. /\ queue \in Seq(Prompts \cup {Compact})
        /\ Append(queue, p) \in Seq(Prompts \cup {Compact})
    BY DEF HubTypeOK
  <2> QED
    BY <1>2, <2>1, <2>2
<1>4. autoGo' \in Autos \cup {None}
  BY <1>2 DEF HubTypeOK
<1>5. HubTypeOK'
  BY <1>3, <1>4 DEF HubTypeOK, SubmitAutomatic, Kept
<1> QED
  BY <1>1, <1>5

LEMMA SubmitReleasedTyped ==
    ASSUME WireTypeOK, HubTypeOK, SubmitReleased
    PROVE  WireTypeOK' /\ HubTypeOK'
<1>1. autoGo \in Prompts /\ Send(autoGo)
  BY WireAssumption DEF HubTypeOK, SubmitReleased
<1>2. WireTypeOK'
  BY <1>1, SendTyped DEF WireTypeOK, SubmitReleased, childVars
<1>3. HubTypeOK'
  BY <1>1, SendTyped DEF HubTypeOK, SubmitReleased, Kept
<1> QED
  BY <1>2, <1>3

LEMMA DropQueueTyped ==
    ASSUME WireTypeOK, HubTypeOK, DropQueue
    PROVE  WireTypeOK' /\ HubTypeOK'
<1>1. WireTypeOK'
  BY DEF WireTypeOK, DropQueue, wireVars
<1>2. Range(queue) \subseteq Prompts \cup {Compact}
  BY DEF HubTypeOK, Range
<1>3. queue' \in Seq(Prompts \cup {Compact}) /\ withdrawn' \in SUBSET Prompts
  BY <1>2 DEF HubTypeOK, DropQueue
<1>4. HubTypeOK'
  BY <1>3 DEF HubTypeOK, DropQueue
<1> QED
  BY <1>1, <1>4

LEMMA StartTurnTyped ==
    ASSUME WireTypeOK, HubTypeOK, NEW control \in Control, StartTurn(control)
    PROVE  /\ WireTypeOK' /\ working' \in BOOLEAN /\ held' \in BOOLEAN
           /\ pending' \in Seq(Askers) /\ panes' \in SUBSET Children
           /\ hubFork' \in BOOLEAN /\ autoGo' \in Autos \cup {None}
           /\ interrupting' \in {"no", "found", "stopping", "rejecting"}
           /\ withdrawn' \in SUBSET Prompts
           /\ wasHeld' \in BOOLEAN
<1>1. rxControl' = rxControl \/ rxControl' = Append(rxControl, control)
  BY DEF StartTurn
<1>2. rxControl' \in Seq(Control)
  <2>1. rxControl \in Seq(Control) /\ Append(rxControl, control) \in Seq(Control)
    BY DEF WireTypeOK
  <2> QED
    BY <1>1, <2>1
<1>3. WireTypeOK'
  BY <1>2 DEF WireTypeOK, StartTurn, childVars
<1>4. working' \in BOOLEAN
  BY DEF StartTurn, ControlRoom, WireTypeOK
<1> QED
  BY <1>3, <1>4 DEF HubTypeOK, StartTurn, HubRest

LEMMA StartControlTyped ==
    ASSUME WireTypeOK, HubTypeOK, NEW op \in TurnControls, StartControl(op)
    PROVE  WireTypeOK' /\ HubTypeOK'
<1>1. Plain(op) \in Control
  BY PlainTyped DEF PlainControls
<1> QED
  BY <1>1, StartTurnTyped DEF StartControl, HubTypeOK

LEMMA SubmitForkedTyped ==
    ASSUME WireTypeOK, HubTypeOK, NEW p \in Prompts, SubmitForked(p)
    PROVE  WireTypeOK' /\ HubTypeOK'
<1>1. [op |-> "forked", arg |-> p] \in Control
  BY DEF Control
<1>2. accepted' = accepted \/ accepted' = Append(accepted, p)
  BY DEF SubmitForked
<1>3. accepted' \in Seq(Prompts)
  <2>1. accepted \in Seq(Prompts)
    BY DEF HubTypeOK
  <2>2. Append(accepted, p) \in Seq(Prompts)
    BY <2>1
  <2> QED
    BY <1>2, <2>1, <2>2
<1>4. WireTypeOK'
  BY <1>1, StartTurnTyped DEF SubmitForked
<1>5. HubTypeOK'
  BY <1>1, <1>3, StartTurnTyped DEF SubmitForked, HubTypeOK
<1> QED
  BY <1>4, <1>5

LEMMA AskCompactTyped ==
    ASSUME WireTypeOK, HubTypeOK, AskCompact
    PROVE  WireTypeOK' /\ HubTypeOK'
<1>1. CASE working
  <2>1. Enqueue(Compact) /\ HubRest /\ UNCHANGED <<working, shownModel, accepted, wireVars>>
    BY <1>1 DEF AskCompact, StartTurn
  <2>2. WireTypeOK'
    BY <2>1 DEF WireTypeOK, wireVars
  <2>3. HubTypeOK'
    BY <2>1 DEF HubTypeOK, Enqueue, HubRest
  <2> QED
    BY <2>2, <2>3
<1>2. CASE ~working
  <2>1. StartTurn(Plain("compact")) /\ UNCHANGED <<queue, accepted, shownModel>>
    BY <1>2 DEF AskCompact
  <2>2. Plain("compact") \in Control
    BY PlainTyped DEF PlainControls
  <2> QED
    BY <2>1, <2>2, StartTurnTyped DEF HubTypeOK
<1> QED
  BY <1>1, <1>2 DEF HubTypeOK

LEMMA PostTyped ==
    ASSUME WireTypeOK, NEW control \in Control, Post(control)
    PROVE  WireTypeOK'
  BY DEF WireTypeOK, Post, flagVars, childVars

LEMMA SetModelTyped ==
    ASSUME WireTypeOK, HubTypeOK, NEW m \in Models, SetModel(m)
    PROVE  WireTypeOK' /\ HubTypeOK'
<1>1. [op |-> "model", arg |-> m] \in Control
  BY DEF Control
<1>2. WireTypeOK'
  BY <1>1, PostTyped DEF SetModel
<1>3. HubTypeOK'
  BY DEF HubTypeOK, SetModel, HubRest
<1> QED
  BY <1>2, <1>3

LEMMA ClearTyped ==
    ASSUME WireTypeOK, HubTypeOK, Clear
    PROVE  WireTypeOK' /\ HubTypeOK'
<1>1. WireTypeOK'
  BY PlainTyped, PostTyped DEF Clear, PlainControls
<1>2. HubTypeOK'
  BY DEF HubTypeOK, Clear, HubRest
<1> QED
  BY <1>1, <1>2

LEMMA SetGoalTyped ==
    ASSUME WireTypeOK, HubTypeOK, NEW command \in GoalCommands, SetGoal(command)
    PROVE  WireTypeOK' /\ HubTypeOK'
<1>1. WireTypeOK'
  BY PlainTyped, PostTyped DEF SetGoal, PlainControls
<1>2. HubTypeOK'
  BY DEF HubTypeOK, SetGoal, HubRest
<1> QED
  BY <1>1, <1>2

LEMMA AnswerTyped ==
    ASSUME WireTypeOK, HubTypeOK, NEW answer \in {"accept", "reject"}, Answer(answer)
    PROVE  WireTypeOK' /\ HubTypeOK'
<1>1. WireTypeOK'
  BY DEF WireTypeOK, Answer, Reply, chanVars, flagVars
<1>2. HubTypeOK'
  BY DEF HubTypeOK, Answer, HubBut
<1> QED
  BY <1>1, <1>2

LEMMA InterruptTyped ==
    ASSUME WireTypeOK, HubTypeOK, Interrupt \/ StopTurn \/ StopChildren
    PROVE  WireTypeOK' /\ HubTypeOK'
<1>1. childStop' \in [Children -> BOOLEAN] /\ stop' \in BOOLEAN
  BY DEF WireTypeOK, Interrupt, StopTurn, StopChildren, Live, wireVars
<1>2. WireTypeOK'
  BY <1>1 DEF WireTypeOK, Interrupt, StopTurn, StopChildren, wireVars, chanVars, childVars
<1>3. HubTypeOK'
  BY DEF HubTypeOK, Interrupt, StopTurn, StopChildren, HubBut
<1> QED
  BY <1>2, <1>3

LEMMA RejectPendingTyped ==
    ASSUME WireTypeOK, HubTypeOK, RejectPending
    PROVE  WireTypeOK' /\ HubTypeOK'
<1>1. WireTypeOK'
  <2>1. replies' \in [Askers -> {"none", "waiting", "accept", "reject"}]
    BY DEF WireTypeOK, RejectPending, Reply
  <2> QED
    BY <2>1 DEF WireTypeOK, RejectPending, chanVars, flagVars
<1>2. pending' \in Seq(Askers)
  <2>1. pending \in Seq(Askers)
    BY DEF HubTypeOK
  <2>2. pending # <<>> => Tail(pending) \in Seq(Askers)
    BY <2>1
  <2> QED
    BY <2>1, <2>2 DEF RejectPending
<1>3. HubTypeOK'
  BY <1>2 DEF HubTypeOK, RejectPending, HubBut
<1> QED
  BY <1>1, <1>3

LEMMA InterruptChildTyped ==
    ASSUME WireTypeOK, HubTypeOK, NEW c \in Children, InterruptChild(c)
    PROVE  WireTypeOK' /\ HubTypeOK'
<1>1. WireTypeOK'
  BY DEF WireTypeOK, InterruptChild, chanVars, childVars
<1>2. HubTypeOK'
  BY DEF HubTypeOK, InterruptChild, hubVars
<1> QED
  BY <1>1, <1>2

LEMMA TakeQueuedTyped ==
    ASSUME HubTypeOK, NEW n \in 0 .. Len(queue), TakeQueued(n)
    PROVE  HubTypeOK' /\ SubSeq(queue, 1, n) \in Seq(Prompts)
<1>1. \A j \in 1 .. n : queue[j] # Compact
  BY DEF TakeQueued, Takes
<1>2. SubSeq(queue, 1, n) \in Seq(Prompts)
  BY <1>1 DEF HubTypeOK
<1>3. queue' \in Seq(Prompts \cup {Compact})
  BY DEF HubTypeOK, TakeQueued
<1>4. HubTypeOK'
  BY <1>3 DEF HubTypeOK, TakeQueued
<1> QED
  BY <1>2, <1>4

-----------------------------------------------------------------------------
(* What the hub makes of the agent's events. *)

LEMMA PumpedTyped ==
    ASSUME WireTypeOK, events # <<>>, Pumped
    PROVE  /\ events' \in Seq(Event) /\ results' \in Seq(Children)
           /\ Head(events) \in Event /\ Head(events).who \in Askers
           /\ childStop' \in [Children -> BOOLEAN]
           /\ childState' \in [Children -> ChildStates]
           /\ replies' \in [Askers -> {"none", "waiting", "accept", "reject"}]
           /\ alive' \in BOOLEAN
<1>1. events' \in Seq(Event) /\ Head(events) \in Event
  BY DEF WireTypeOK, Pumped
<1>2. Head(events).who \in Askers
  BY <1>1 DEF Event, Askers
<1> QED
  BY <1>1, <1>2 DEF WireTypeOK, Pumped, childVars

LEMMA OnApprovalTyped ==
    ASSUME WireTypeOK, HubTypeOK, OnApproval
    PROVE  WireTypeOK' /\ HubTypeOK'
<1>1. WireTypeOK'
  BY PumpedTyped DEF WireTypeOK, OnApproval, Heard, Quiet
<1>2. Head(events).who \in Askers
  BY PumpedTyped DEF OnApproval, Heard
<1>3. HubTypeOK'
  BY <1>2 DEF HubTypeOK, OnApproval, HubBut
<1> QED
  BY <1>1, <1>3

LEMMA OnResumedTyped ==
    ASSUME WireTypeOK, HubTypeOK, OnResumed
    PROVE  WireTypeOK' /\ HubTypeOK'
<1>1. WireTypeOK'
  BY PumpedTyped DEF WireTypeOK, OnResumed, Heard, Quiet
<1>2. HubTypeOK'
  BY DEF HubTypeOK, OnResumed
<1> QED
  BY <1>1, <1>2

LEMMA OnAuthFailedTyped ==
    ASSUME WireTypeOK, HubTypeOK, OnAuthFailed
    PROVE  WireTypeOK' /\ HubTypeOK'
<1>1. WireTypeOK'
  BY PumpedTyped DEF WireTypeOK, OnAuthFailed, Heard, Quiet
<1>2. HubTypeOK'
  BY DEF HubTypeOK, OnAuthFailed
<1> QED
  BY <1>1, <1>2

LEMMA OnTurnEndTyped ==
    ASSUME WireTypeOK, HubTypeOK, OnTurnEnd
    PROVE  WireTypeOK' /\ HubTypeOK'
<1>1. /\ rxUser' = rxUser
         \/ (rxUser' = Append(rxUser, Head(queue)) /\ queue # <<>> /\ Head(queue) # Compact)
      /\ rxControl' = rxControl \/ rxControl' = Append(rxControl, Plain("compact"))
      /\ queue' = queue \/ (queue # <<>> /\ queue' = Tail(queue))
      /\ stop' = stop \/ stop' = FALSE
      /\ working' \in BOOLEAN
  BY DEF OnTurnEnd, Quiet
<1>2. Plain("compact") \in Control
  BY PlainTyped DEF PlainControls
<1>3. rxUser' \in Seq(Prompts)
  <2>1. queue # <<>> => Head(queue) \in Prompts \cup {Compact}
    BY DEF HubTypeOK
  <2>2. rxUser \in Seq(Prompts)
    BY DEF WireTypeOK
  <2>3. queue # <<>> /\ Head(queue) # Compact => Append(rxUser, Head(queue)) \in Seq(Prompts)
    BY <2>1, <2>2
  <2> QED
    BY <1>1, <2>2, <2>3
<1>4. rxControl' \in Seq(Control) /\ stop' \in BOOLEAN
  <2>1. /\ rxControl \in Seq(Control) /\ stop \in BOOLEAN
        /\ Append(rxControl, Plain("compact")) \in Seq(Control)
    BY <1>2 DEF WireTypeOK
  <2> QED
    BY <1>1, <2>1
<1>5. queue' \in Seq(Prompts \cup {Compact})
  <2>1. /\ queue \in Seq(Prompts \cup {Compact})
        /\ queue # <<>> => Tail(queue) \in Seq(Prompts \cup {Compact})
    BY DEF HubTypeOK
  <2> QED
    BY <1>1, <2>1
<1>6. WireTypeOK'
  BY <1>3, <1>4, PumpedTyped DEF WireTypeOK, OnTurnEnd, Heard
<1>7. HubTypeOK'
  BY <1>1, <1>5 DEF HubTypeOK, OnTurnEnd
<1> QED
  BY <1>6, <1>7

LEMMA OnOtherTyped ==
    ASSUME WireTypeOK, HubTypeOK, OnOther
    PROVE  WireTypeOK' /\ HubTypeOK'
<1>1. WireTypeOK'
  BY PumpedTyped DEF WireTypeOK, OnOther, Quiet
<1>2. panes' \in SUBSET Children
  <2>1. Head(events).kind = "started" => Head(events).who \in Children
    BY PumpedTyped DEF OnOther, Event, EventKinds, ChildEvents
  <2> QED
    BY <2>1 DEF HubTypeOK, OnOther
<1>3. hubFork' \in BOOLEAN
  BY DEF HubTypeOK, OnOther
<1>4. HubTypeOK'
  BY <1>2, <1>3 DEF HubTypeOK, OnOther
<1> QED
  BY <1>1, <1>4

LEMMA PumpTyped ==
    ASSUME WireTypeOK, HubTypeOK, Pump
    PROVE  WireTypeOK' /\ HubTypeOK'
  BY OnApprovalTyped, OnResumedTyped, OnAuthFailedTyped, OnTurnEndTyped, OnOtherTyped
     DEF Pump

-----------------------------------------------------------------------------
(* The steps of the composition, one lemma for each disjunct of Next. *)

LEMMA HubKept == ASSUME HubTypeOK, UNCHANGED hubVars PROVE HubTypeOK'
  BY DEF HubTypeOK, hubVars

LEMMA LoopKept == ASSUME LoopTypeOK, UNCHANGED loopVars PROVE LoopTypeOK'
  BY DEF LoopTypeOK, loopVars

GhostTypeOK ==
    /\ ops \in 0 .. MaxOps
    /\ cut \in SUBSET (Prompts \cup {Main})
    /\ slipped \in SUBSET Children

LEMMA GhostKept == ASSUME GhostTypeOK, UNCHANGED ghostVars PROVE GhostTypeOK'
  BY DEF GhostTypeOK, ghostVars

LEMMA Parts == TypeOK <=> WireTypeOK /\ HubTypeOK /\ LoopTypeOK /\ GhostTypeOK
  BY DEF TypeOK, GhostTypeOK

LEMMA DoesTyped == ASSUME GhostTypeOK, NEW op, Does(op) PROVE ops' \in 0 .. MaxOps
  BY CoreAssumption DEF GhostTypeOK, Does

LEMMA UserSendsTyped == ASSUME TypeOK, UserSends PROVE TypeOK'
<1>1. LoopTypeOK' /\ GhostTypeOK'
  BY Parts, LoopKept, GhostKept DEF UserSends
<1>2. WireTypeOK' /\ HubTypeOK'
  BY Parts, SubmitTyped, SubmitAutomaticTyped, SubmitReleasedTyped, AnswerTyped,
     RejectPendingTyped DEF UserSends
<1> QED
  BY <1>1, <1>2 DEF TypeOK, GhostTypeOK

LEMMA UserDoesTyped == ASSUME TypeOK, UserDoes PROVE TypeOK'
<1>1. LoopTypeOK'
  BY Parts, LoopKept DEF UserDoes
<1>2. GhostTypeOK'
  <2>1. PICK op : Does(op)
    BY DEF UserDoes
  <2> QED
    BY <2>1, Parts, DoesTyped DEF UserDoes, Uncut, GhostTypeOK
<1>3. WireTypeOK' /\ HubTypeOK'
  BY Parts, DropQueueTyped, StartControlTyped, SubmitForkedTyped, AskCompactTyped,
     SetModelTyped, ClearTyped, SetGoalTyped, InterruptChildTyped, InterruptTyped DEF UserDoes
<1> QED
  BY <1>1, <1>2, <1>3 DEF TypeOK, GhostTypeOK

LEMMA UserInterruptsTyped == ASSUME TypeOK, UserInterrupts PROVE TypeOK'
<1>1. WireTypeOK' /\ HubTypeOK' /\ LoopTypeOK'
  BY Parts, InterruptTyped, LoopKept DEF UserInterrupts
<1>2. cut' \in SUBSET (Prompts \cup {Main})
  <2>1. Range(rxUser) \subseteq Prompts
    BY Parts DEF WireTypeOK, Range
  <2> QED
    BY <2>1 DEF UserInterrupts, TypeOK
<1>3. ops' \in 0 .. MaxOps /\ slipped' \in SUBSET Children
  BY DEF UserInterrupts, Unlisted, TypeOK
<1> QED
  BY <1>1, <1>2, <1>3 DEF TypeOK

LEMMA PumpsTyped == ASSUME TypeOK, Pumps PROVE TypeOK'
<1>1. WireTypeOK' /\ HubTypeOK'
  BY Parts, PumpTyped DEF Pumps
<1>2. LoopTypeOK' /\ GhostTypeOK'
  BY Parts, LoopKept, GhostKept DEF Pumps
<1> QED
  BY <1>1, <1>2 DEF TypeOK, GhostTypeOK

LEMMA OpensTyped == ASSUME TypeOK, Opens PROVE TypeOK'
<1>1. WireTypeOK' /\ LoopTypeOK'
  BY Parts, TakePromptTyped, TakeRetryTyped, TakeForkedTyped, TakeReportTyped,
     TakeGoalTyped DEF Opens
<1>2. HubTypeOK'
  BY Parts, HubKept DEF Opens
<1>3. cut' \in SUBSET (Prompts \cup {Main})
  BY DEF Opens, TypeOK
<1> QED
  BY <1>1, <1>2, <1>3 DEF Opens, TypeOK

LEMMA EndsTyped == ASSUME TypeOK, Ends PROVE TypeOK'
<1>1. WireTypeOK' /\ LoopTypeOK'
  BY Parts, EndTurnTyped, PanicTyped DEF Ends
<1>2. HubTypeOK'
  BY Parts, HubKept DEF Ends
<1> QED
  BY <1>1, <1>2 DEF Ends, TypeOK

LEMMA SteersTyped == ASSUME TypeOK, Steers PROVE TypeOK'
<1>1. WireTypeOK' /\ LoopTypeOK'
  BY Parts, TakeGoalCommandTyped, TakeClearTyped, GoalToolTyped, ControlMidTurnTyped
     DEF Steers
<1>2. HubTypeOK' /\ GhostTypeOK'
  BY Parts, HubKept, GhostKept DEF Steers
<1> QED
  BY <1>1, <1>2 DEF TypeOK, GhostTypeOK

LEMMA ReadsTyped == ASSUME TypeOK, Reads PROVE TypeOK'
<1>1. PICK n \in 0 .. Len(queue) :
        TakeQueued(n) /\ (Step(SubSeq(queue, 1, n)) \/ Answers(SubSeq(queue, 1, n)))
  BY DEF Reads
<1>2. HubTypeOK' /\ SubSeq(queue, 1, n) \in Seq(Prompts)
  BY <1>1, Parts, TakeQueuedTyped
<1>3. WireTypeOK' /\ LoopTypeOK'
  BY <1>1, <1>2, Parts, StepTyped, AnswersTyped
<1>4. GhostTypeOK'
  BY Parts, GhostKept DEF Reads
<1> QED
  BY <1>2, <1>3, <1>4 DEF TypeOK, GhostTypeOK

LEMMA WorksTyped == ASSUME TypeOK, Works PROVE TypeOK'
<1>1. WireTypeOK' /\ LoopTypeOK'
  BY Parts, TakeCompactTyped, TakeAsideTyped, TakeModelTyped, StartForkTyped,
     EndForkTyped, CallEndsTyped, AskTyped, AnsweredTyped, ToolsDoneTyped, AfterTyped,
     CloseTyped, MarkTyped, EndCompactionTyped, WatchTyped, ControlMidTurnTyped,
     SpawnTyped DEF Works
<1>2. HubTypeOK' /\ GhostTypeOK'
  BY Parts, HubKept, GhostKept DEF Works
<1> QED
  BY <1>1, <1>2 DEF TypeOK, GhostTypeOK

LEMMA ChildWorksTyped ==
    ASSUME TypeOK, NEW c \in Children, ChildWorks(c) PROVE TypeOK'
<1>1. WireTypeOK' /\ LoopTypeOK'
  BY Parts, ChildStepTyped DEF ChildWorks
<1>2. HubTypeOK' /\ GhostTypeOK'
  BY Parts, HubKept, GhostKept DEF ChildWorks
<1> QED
  BY <1>1, <1>2 DEF TypeOK, GhostTypeOK

LEMMA NextTyped == ASSUME TypeOK, [Next]_vars PROVE TypeOK'
<1>1. CASE Next
  BY <1>1, UserSendsTyped, UserDoesTyped, UserInterruptsTyped, PumpsTyped, OpensTyped,
     EndsTyped, SteersTyped, ReadsTyped, WorksTyped, ChildWorksTyped DEF Next, Loop
<1>2. CASE UNCHANGED vars
  <2>1. UNCHANGED hubVars /\ UNCHANGED loopVars /\ UNCHANGED ghostVars /\ UNCHANGED wireVars
    BY <1>2 DEF vars
  <2>2. WireTypeOK'
    BY <2>1, Parts DEF WireTypeOK, wireVars
  <2>3. HubTypeOK' /\ LoopTypeOK' /\ GhostTypeOK'
    BY <2>1, Parts, HubKept, LoopKept, GhostKept
  <2> QED
    BY <2>2, <2>3 DEF TypeOK, GhostTypeOK
<1> QED
  BY <1>1, <1>2

LEMMA InitTyped == Init => TypeOK
<1> SUFFICES ASSUME Init PROVE TypeOK
  OBVIOUS
<1>1. WireTypeOK
  <2>1. /\ rxUser \in Seq(Prompts) /\ rxControl \in Seq(Control)
        /\ events \in Seq(Event) /\ results \in Seq(Children)
    BY DEF Init, WireInit
  <2>2. /\ childStop \in [Children -> BOOLEAN]
        /\ childState \in [Children -> ChildStates]
        /\ replies \in [Askers -> {"none", "waiting", "accept", "reject"}]
    BY DEF Init, WireInit, ChildStates
  <2>3. stop \in BOOLEAN /\ alive \in BOOLEAN
    BY DEF Init, WireInit
  <2> QED
    BY <2>1, <2>2, <2>3 DEF WireTypeOK
<1>2. HubTypeOK
  <2>1. /\ queue \in Seq(Prompts \cup {Compact}) /\ pending \in Seq(Askers)
        /\ accepted \in Seq(Prompts)
    BY DEF Init, HubInit
  <2>2. /\ shownModel \in Models /\ panes \in SUBSET Children
        /\ autoGo \in Autos \cup {None} /\ withdrawn \in SUBSET Prompts
    BY DEF Init, HubInit
  <2>3. /\ working \in BOOLEAN /\ held \in BOOLEAN /\ hubFork \in BOOLEAN
        /\ interrupting \in {"no", "found", "stopping", "rejecting"} /\ wasHeld \in BOOLEAN
    BY DEF Init, HubInit
  <2> QED
    BY <2>1, <2>2, <2>3 DEF HubTypeOK
<1>3. LoopTypeOK
  <2>1. pc \in Phases /\ goal \in GoalStates
    BY DEF Init, LoopInit, Phases, GoalStates
  <2>2. /\ opened \in {"prompt", "report", "goal", "retry"}
        /\ outcome \in {"ok", "failed", "auth", "overflow"}
    BY DEF Init, LoopInit
  <2>3. behind \in 0 .. Batch /\ idleTurns \in 0 .. 3
    BY LoopAssumption DEF Init, LoopInit
  <2>4. /\ acted \in BOOLEAN /\ adoptable \in BOOLEAN /\ fork \in BOOLEAN
        /\ compactNext \in BOOLEAN /\ retried \in BOOLEAN /\ wake \in BOOLEAN
    BY DEF Init, LoopInit
  <2>5. model \in Models /\ landed \in Seq(Prompts) /\ reported \in Seq(Children)
    BY DEF Init, LoopInit
  <2> QED
    BY <2>1, <2>2, <2>3, <2>4, <2>5 DEF LoopTypeOK
<1>4. ops \in 0 .. MaxOps
  BY CoreAssumption DEF Init
<1>5. cut \in SUBSET (Prompts \cup {Main}) /\ slipped \in SUBSET Children
  BY DEF Init
<1> QED
  BY <1>1, <1>2, <1>3, <1>4, <1>5 DEF TypeOK

\* Whatever the user, the model and the scheduler do, every variable keeps its type:
\* the queue holds only messages and /compacts, a control carries what it names, and
\* the hub's panes are only ever children's (session.rs Inner, agent.rs run_configured).
THEOREM TypeCorrect == Spec => []TypeOK
<1>1. Init => TypeOK
  BY InitTyped
<1>2. TypeOK /\ [Next]_vars => TypeOK'
  BY NextTyped
<1> QED
  BY <1>1, <1>2, PTL DEF Spec

-----------------------------------------------------------------------------
(* What is said, as it grows at one end and is pumped at the other. *)

LEMMA TellsConcat ==
    ASSUME NEW S, NEW s \in Seq(S), NEW t \in Seq(S), NEW kind
    PROVE  Tells(s \o t, kind) <=> Tells(s, kind) \/ Tells(t, kind)
<1>1. Len(s \o t) = Len(s) + Len(t) /\ Len(s) \in Nat /\ Len(t) \in Nat
  OBVIOUS
<1>2. ASSUME NEW i \in 1 .. Len(s) PROVE (s \o t)[i] = s[i] /\ i \in 1 .. Len(s \o t)
  BY <1>1
<1>3. ASSUME NEW i \in 1 .. Len(t)
      PROVE  (s \o t)[Len(s) + i] = t[i] /\ Len(s) + i \in 1 .. Len(s \o t)
  BY <1>1
<1>4. ASSUME Tells(s \o t, kind) PROVE Tells(s, kind) \/ Tells(t, kind)
  <2>1. PICK i \in 1 .. Len(s \o t) : (s \o t)[i].kind = kind
    BY <1>4 DEF Tells
  <2>2. CASE i <= Len(s)
    BY <1>1, <1>2, <2>1, <2>2 DEF Tells
  <2>3. CASE i > Len(s)
    <3>1. i - Len(s) \in 1 .. Len(t) /\ Len(s) + (i - Len(s)) = i
      BY <1>1, <2>1, <2>3
    <3>2. t[i - Len(s)].kind = kind
      BY <1>3, <2>1, <3>1
    <3> QED
      BY <3>1, <3>2 DEF Tells
  <2> QED
    BY <1>1, <2>1, <2>2, <2>3
<1>5. ASSUME Tells(s, kind) PROVE Tells(s \o t, kind)
  BY <1>2, <1>5 DEF Tells
<1>6. ASSUME Tells(t, kind) PROVE Tells(s \o t, kind)
  BY <1>3, <1>6 DEF Tells
<1> QED
  BY <1>4, <1>5, <1>6

LEMMA ClosedConcat ==
    ASSUME NEW S, NEW s \in Seq(S), NEW t \in Seq(S), Closed(s), ~Tells(t, "resumed")
    PROVE  Closed(s \o t)
<1>1. Len(s \o t) = Len(s) + Len(t) /\ Len(s) \in Nat /\ Len(t) \in Nat
  OBVIOUS
<1>2. SUFFICES ASSUME NEW i \in 1 .. Len(s \o t), (s \o t)[i].kind = "resumed"
               PROVE  \E j \in i + 1 .. Len(s \o t) : (s \o t)[j].kind = "turnend"
  BY DEF Closed
<1>3. CASE i <= Len(s)
  <2>1. s[i].kind = "resumed" /\ i \in 1 .. Len(s)
    BY <1>1, <1>2, <1>3
  <2>2. PICK j \in i + 1 .. Len(s) : s[j].kind = "turnend"
    BY <2>1 DEF Closed
  <2>3. (s \o t)[j] = s[j] /\ j \in i + 1 .. Len(s \o t)
    BY <1>1, <2>2
  <2> QED
    BY <2>2, <2>3
<1>4. CASE i > Len(s)
  <2>1. i - Len(s) \in 1 .. Len(t) /\ t[i - Len(s)] = (s \o t)[i]
    BY <1>1, <1>4
  <2> QED
    BY <1>2, <2>1 DEF Tells
<1> QED
  BY <1>1, <1>3, <1>4

LEMMA ClosedByEnd ==
    ASSUME NEW s \in Seq(Event), NEW e \in Event, e.kind = "turnend"
    PROVE  Closed(s \o <<e>>) /\ Tells(s \o <<e>>, "turnend")
<1>1. Len(s \o <<e>>) = Len(s) + 1 /\ Len(s) \in Nat /\ (s \o <<e>>)[Len(s) + 1] = e
  OBVIOUS
<1>2. Tells(s \o <<e>>, "turnend")
  BY <1>1 DEF Tells
<1>3. ASSUME NEW i \in 1 .. Len(s \o <<e>>), (s \o <<e>>)[i].kind = "resumed"
      PROVE  \E j \in i + 1 .. Len(s \o <<e>>) : (s \o <<e>>)[j].kind = "turnend"
  <2>1. i # Len(s) + 1
    BY <1>1, <1>3
  <2>2. Len(s) + 1 \in i + 1 .. Len(s \o <<e>>)
    BY <1>1, <2>1
  <2> QED
    BY <1>1, <2>2
<1> QED
  BY <1>2, <1>3 DEF Closed

LEMMA TailTells ==
    ASSUME NEW S, NEW s \in Seq(S), s # <<>>, NEW kind, Tells(s, kind), Head(s).kind # kind
    PROVE  Tells(Tail(s), kind)
<1>1. PICK i \in 1 .. Len(s) : s[i].kind = kind
  BY DEF Tells
<1>2. i # 1 /\ Len(s) \in Nat /\ Len(Tail(s)) = Len(s) - 1
  BY <1>1
<1>3. i - 1 \in 1 .. Len(Tail(s)) /\ Tail(s)[i - 1] = s[i]
  BY <1>1, <1>2
<1> QED
  BY <1>1, <1>3 DEF Tells

LEMMA TailClosed ==
    ASSUME NEW S, NEW s \in Seq(S), s # <<>>, Closed(s)
    PROVE  /\ Closed(Tail(s))
           /\ Head(s).kind = "resumed" => Tells(Tail(s), "turnend")
<1>1. Len(s) \in Nat \ {0} /\ Len(Tail(s)) = Len(s) - 1 /\ Head(s) = s[1]
  OBVIOUS
<1>2. ASSUME NEW i \in 1 .. Len(Tail(s)) PROVE Tail(s)[i] = s[i + 1] /\ i + 1 \in 1 .. Len(s)
  BY <1>1
<1>3. ASSUME NEW i \in 1 .. Len(Tail(s)), Tail(s)[i].kind = "resumed"
      PROVE  \E j \in i + 1 .. Len(Tail(s)) : Tail(s)[j].kind = "turnend"
  <2>1. PICK j \in (i + 1) + 1 .. Len(s) : s[j].kind = "turnend"
    BY <1>2, <1>3 DEF Closed
  <2>2. j - 1 \in i + 1 .. Len(Tail(s)) /\ j - 1 \in 1 .. Len(Tail(s)) /\ (j - 1) + 1 = j
    BY <1>1, <1>3, <2>1
  <2>3. Tail(s)[j - 1] = s[j]
    BY <1>2, <2>2
  <2> QED
    BY <2>1, <2>2, <2>3
<1>4. ASSUME Head(s).kind = "resumed" PROVE Tells(Tail(s), "turnend")
  <2>1. PICK j \in 1 + 1 .. Len(s) : s[j].kind = "turnend"
    BY <1>1, <1>4 DEF Closed
  <2>2. j - 1 \in 1 .. Len(Tail(s)) /\ Tail(s)[j - 1] = s[j]
    BY <1>1, <2>1
  <2> QED
    BY <2>1, <2>2 DEF Tells
<1> QED
  BY <1>3, <1>4 DEF Closed

LEMMA AsksTurnAppend ==
    ASSUME NEW s \in Seq(Control), NEW control \in Control
    PROVE  AsksTurn(Append(s, control))
             <=> AsksTurn(s) \/ control.op \in TurnControls \cup {"compact", "forked"}
<1>1. /\ Len(s) \in Nat /\ Len(Append(s, control)) = Len(s) + 1
      /\ Append(s, control)[Len(s) + 1] = control
      /\ \A i \in 1 .. Len(s) : Append(s, control)[i] = s[i]
  OBVIOUS
<1> QED
  BY <1>1 DEF AsksTurn

LEMMA AsksTurnTail ==
    ASSUME NEW s \in Seq(Control), s # <<>>, AsksTurn(s),
           Head(s).op \notin TurnControls \cup {"compact", "forked"}
    PROVE  AsksTurn(Tail(s))
<1>1. PICK i \in 1 .. Len(s) : s[i].op \in TurnControls \cup {"compact", "forked"}
  BY DEF AsksTurn
<1>2. i # 1 /\ Len(s) \in Nat /\ Len(Tail(s)) = Len(s) - 1
  BY <1>1
<1>3. i - 1 \in 1 .. Len(Tail(s)) /\ Tail(s)[i - 1] = s[i]
  BY <1>1, <1>2
<1> QED
  BY <1>1, <1>3 DEF AsksTurn

-----------------------------------------------------------------------------
(* The three ways a step keeps the invariant: the loop is busy after it, it tells *)
(* the end, or it takes nothing away from what is owed.                       *)

LEMMA BusyAfter ==
    ASSUME LoopBusy', alive' = (pc' \notin {"panicked", "dead"})
    PROVE  MarkInv'
  BY DEF MarkInv, WorkingEnds, TurnEndOwed, LoopBusy

LEMMA EndTold ==
    ASSUME events \in Seq(Event), Says(<<Say("turnend")>>),
           alive' = (pc' \notin {"panicked", "dead"})
    PROVE  MarkInv'
<1>1. Say("turnend") \in Event /\ Say("turnend").kind = "turnend"
  BY DEF Say, Event, EventKinds, ChildEvents, Askers
<1>2. Closed(events') /\ Tells(events', "turnend")
  BY <1>1, ClosedByEnd DEF Says
<1> QED
  BY <1>2 DEF MarkInv, WorkingEnds, TurnEndOwed

LEMMA NothingTaken ==
    ASSUME MarkInv, events \in Seq(Event), NEW said \in Seq(Event),
           events' = events \o said, ~Tells(said, "resumed"),
           LoopBusy => LoopBusy', alive' = alive, alive = (pc' \notin {"panicked", "dead"}),
           working' => working \/ (alive /\ (rxUser' # <<>> \/ AsksTurn(rxControl'))),
           rxUser # <<>> => rxUser' # <<>>,
           AsksTurn(rxControl) => AsksTurn(rxControl')
    PROVE  MarkInv'
<1>1. Tells(events, "turnend") => Tells(events', "turnend")
  BY TellsConcat
<1>2. Closed(events) => Closed(events')
  BY ClosedConcat
<1>3. WorkingEnds'
  BY <1>1 DEF MarkInv, WorkingEnds, TurnEndOwed
<1> QED
  BY <1>2, <1>3 DEF MarkInv

\* The common case: nothing is said.
LEMMA NothingSaid ==
    ASSUME MarkInv, events \in Seq(Event), UNCHANGED <<pc, events, alive>>,
           working' => working \/ (alive /\ (rxUser' # <<>> \/ AsksTurn(rxControl'))),
           rxUser # <<>> => rxUser' # <<>>,
           AsksTurn(rxControl) => AsksTurn(rxControl')
    PROVE  MarkInv'
  BY DEF MarkInv, WorkingEnds, TurnEndOwed, LoopBusy

-----------------------------------------------------------------------------
(* The user's steps. *)

LEMMA SendMarks ==
    ASSUME WireTypeOK, NEW p \in Prompts, Send(p)
    PROVE  /\ working' => working \/ (alive /\ rxUser' # <<>>)
           /\ rxUser # <<>> => rxUser' # <<>>
<1>1. Append(rxUser, p) # <<>>
  <2>1. rxUser \in Seq(Prompts)
    BY DEF WireTypeOK
  <2> QED
    BY <2>1, AppendProperties
<1>2. CASE working
  BY <1>2 DEF Send
<1>3. CASE ~working
  <2>1. /\ rxUser' = IF UserRoom THEN Append(rxUser, p) ELSE rxUser
        /\ working' = UserRoom
    BY <1>3 DEF Send
  <2>2. UserRoom => alive
    BY DEF UserRoom
  <2> QED
    BY <1>1, <2>1, <2>2
<1> QED
  BY <1>2, <1>3

LEMMA StartTurnMarks ==
    ASSUME WireTypeOK, NEW control \in Control, StartTurn(control),
           control.op \in TurnControls \cup {"compact", "forked"}
    PROVE  /\ working' => alive /\ AsksTurn(rxControl')
           /\ AsksTurn(rxControl) => AsksTurn(rxControl')
           /\ UNCHANGED <<rxUser, events, alive>>
<1>1. ControlRoom => AsksTurn(rxControl')
  BY AsksTurnAppend DEF StartTurn, WireTypeOK
<1> QED
  BY <1>1 DEF StartTurn, ControlRoom

LEMMA PostMarks ==
    ASSUME WireTypeOK, NEW control \in Control, Post(control)
    PROVE  /\ AsksTurn(rxControl) => AsksTurn(rxControl')
           /\ UNCHANGED <<rxUser, events, alive>>
  BY AsksTurnAppend DEF WireTypeOK, Post

LEMMA UserSendsMarks == ASSUME TypeOK, MarkInv, UserSends PROVE MarkInv'
<1>1. WireTypeOK /\ events \in Seq(Event) /\ UNCHANGED pc
  BY DEF TypeOK, WireTypeOK, UserSends, loopVars
<1>2. CASE \E p \in Prompts : Submit(p) \/ SubmitAutomatic(p)
  <2>1. PICK p \in Prompts : Submit(p) \/ SubmitAutomatic(p)
    BY <1>2
  <2>2. CASE Submit(p)
    BY <1>1, <2>2, SendMarks, NothingSaid DEF Submit
  <2>3. CASE SubmitAutomatic(p)
    BY <1>1, <2>3, NothingSaid DEF SubmitAutomatic, wireVars
  <2> QED
    BY <2>1, <2>2, <2>3
<1>3. CASE SubmitReleased
  <2>1. autoGo \in Prompts /\ Send(autoGo) /\ UNCHANGED <<rxControl, events, alive>>
    BY <1>3, WireAssumption DEF TypeOK, HubTypeOK, SubmitReleased
  <2> QED
    BY <1>1, <2>1, SendMarks, NothingSaid
<1>4. CASE \E answer \in {"accept", "reject"} : Answer(answer)
  BY <1>1, <1>4, NothingSaid DEF Answer, HubBut, chanVars
<1>5. CASE RejectPending
  BY <1>1, <1>5, NothingSaid DEF RejectPending, HubBut, chanVars
<1> QED
  BY <1>2, <1>3, <1>4, <1>5 DEF UserSends

LEMMA UserDoesMarks == ASSUME TypeOK, MarkInv, UserDoes PROVE MarkInv'
<1>1. WireTypeOK /\ events \in Seq(Event) /\ UNCHANGED pc
  BY DEF TypeOK, WireTypeOK, UserDoes, loopVars
<1>2. CASE DropQueue
  BY <1>1, <1>2, NothingSaid DEF DropQueue, wireVars
<1>3. CASE \E op \in TurnControls : StartControl(op)
  <2>1. PICK op \in TurnControls : StartTurn(Plain(op))
    BY <1>3 DEF StartControl
  <2>2. Plain(op) \in Control /\ Plain(op).op = op
    BY PlainTyped DEF Plain, PlainControls
  <2> QED
    BY <1>1, <2>1, <2>2, StartTurnMarks, NothingSaid
<1>4. CASE \E p \in Prompts : SubmitForked(p)
  <2>1. PICK p \in Prompts : StartTurn([op |-> "forked", arg |-> p])
    BY <1>4 DEF SubmitForked
  <2>2. [op |-> "forked", arg |-> p] \in Control
    BY DEF Control
  <2> QED
    BY <1>1, <2>1, <2>2, StartTurnMarks, NothingSaid
<1>5. CASE AskCompact
  <2>1. CASE UNCHANGED <<working, wireVars>>
    BY <1>1, <2>1, NothingSaid DEF wireVars
  <2>2. CASE StartTurn(Plain("compact"))
    <3>1. Plain("compact") \in Control /\ Plain("compact").op = "compact"
      BY PlainTyped DEF Plain, PlainControls
    <3> QED
      BY <1>1, <2>2, <3>1, StartTurnMarks, NothingSaid
  <2> QED
    BY <1>5, <2>1, <2>2 DEF AskCompact
<1>6. CASE \E m \in Models : SetModel(m)
  <2>1. PICK m \in Models : Post([op |-> "model", arg |-> m]) /\ UNCHANGED working
    BY <1>6 DEF SetModel
  <2>2. [op |-> "model", arg |-> m] \in Control
    BY DEF Control
  <2> QED
    BY <1>1, <2>1, <2>2, PostMarks, NothingSaid
<1>7. CASE Clear
  BY <1>1, <1>7, PlainTyped, PostMarks, NothingSaid DEF Clear, PlainControls
<1>8. CASE \E command \in GoalCommands : SetGoal(command)
  BY <1>1, <1>8, PlainTyped, PostMarks, NothingSaid DEF SetGoal, PlainControls
<1>9. CASE \E c \in Children : InterruptChild(c)
  BY <1>1, <1>9, NothingSaid DEF InterruptChild, hubVars, chanVars
<1>10. CASE Interrupt
  BY <1>1, <1>10, NothingSaid DEF Interrupt, HubBut, wireVars
<1> QED
  BY <1>2, <1>3, <1>4, <1>5, <1>6, <1>7, <1>8, <1>9, <1>10 DEF UserDoes

LEMMA UserInterruptsMarks == ASSUME TypeOK, MarkInv, UserInterrupts PROVE MarkInv'
  BY NothingSaid DEF TypeOK, WireTypeOK, UserInterrupts, StopTurn, StopChildren, HubBut,
                     chanVars, loopVars

-----------------------------------------------------------------------------
(* The pump. *)

LEMMA PumpedMarks ==
    ASSUME MarkInv, events \in Seq(Event), events # <<>>, events' = Tail(events),
           UNCHANGED <<pc, alive, rxUser, rxControl>>,
           Head(events).kind # "turnend",
           working' => working \/ Head(events).kind = "resumed"
    PROVE  MarkInv'
<1>1. Tells(events, "turnend") => Tells(events', "turnend")
  BY TailTells
<1>2. Closed(events) => Closed(events') /\ (Head(events).kind = "resumed" => Tells(events', "turnend"))
  BY TailClosed
<1>3. WorkingEnds'
  BY <1>1, <1>2 DEF MarkInv, WorkingEnds, TurnEndOwed, LoopBusy
<1> QED
  BY <1>2, <1>3 DEF MarkInv, LoopBusy

LEMMA OnTurnEndMarks ==
    ASSUME TypeOK, MarkInv, OnTurnEnd, UNCHANGED pc PROVE MarkInv'
<1>1. /\ events \in Seq(Event) /\ events # <<>> /\ events' = Tail(events)
      /\ UNCHANGED alive
  BY DEF TypeOK, WireTypeOK, OnTurnEnd, Heard, Pumped
<1>2. Closed(events) => Closed(events')
  BY <1>1, TailClosed
<1>3. working' => alive /\ (rxUser' # <<>> \/ AsksTurn(rxControl'))
  <2>1. rxUser \in Seq(Prompts) /\ rxControl \in Seq(Control)
    BY DEF TypeOK, WireTypeOK
  <2>2. Plain("compact") \in Control /\ Plain("compact").op = "compact"
    BY PlainTyped DEF Plain, PlainControls
  <2>3. AsksTurn(Append(rxControl, Plain("compact")))
    BY <2>1, <2>2, AsksTurnAppend
  <2>4. Append(rxUser, Head(queue)) # <<>>
    BY <2>1
  <2> QED
    BY <2>3, <2>4 DEF OnTurnEnd, UserRoom, ControlRoom
<1> QED
  BY <1>1, <1>2, <1>3 DEF MarkInv, WorkingEnds, TurnEndOwed, LoopBusy

LEMMA PumpsMarks == ASSUME TypeOK, MarkInv, Pumps PROVE MarkInv'
<1>1. events \in Seq(Event) /\ UNCHANGED pc
  BY DEF TypeOK, WireTypeOK, Pumps, loopVars
<1>2. CASE OnApproval
  BY <1>1, <1>2, PumpedMarks DEF OnApproval, Heard, Pumped, Quiet, HubBut
<1>3. CASE OnResumed
  BY <1>1, <1>3, PumpedMarks DEF OnResumed, Heard, Pumped, Quiet
<1>4. CASE OnAuthFailed
  BY <1>1, <1>4, PumpedMarks DEF OnAuthFailed, Heard, Pumped, Quiet
<1>5. CASE OnTurnEnd
  BY <1>1, <1>5, OnTurnEndMarks
<1>6. CASE OnOther
  BY <1>1, <1>6, PumpedMarks DEF OnOther, Pumped, Quiet
<1> QED
  BY <1>2, <1>3, <1>4, <1>5, <1>6 DEF Pumps, Pump
-----------------------------------------------------------------------------
(* The loop opens a turn, or works on one: it is busy after the step. *)

LEMMA OpensBusy ==
    ASSUME MarkInv, alive, UNCHANGED alive, NEW by, NEW second, Open(by, second)
    PROVE  MarkInv'
  BY BusyAfter DEF MarkInv, Open, LoopBusy

LEMMA TakeMarks ==
    ASSUME TypeOK, MarkInv, TakeCompact \/ TakeRetry \/ TakeAside \/ TakePrompt \/ TakeGoal
    PROVE  MarkInv'
<1>1. pc = "idle" /\ alive' = alive
  BY DEF TakeCompact, TakeRetry, TakeAside, TakePrompt, TakeGoal, TakesControl, Idle
<1>2. pc' \in {"summary", "step", "aside"}
  BY DEF TakeCompact, TakeRetry, TakeAside, TakePrompt, TakeGoal, Open
<1> QED
  BY <1>1, <1>2, BusyAfter DEF MarkInv, LoopBusy

\* Every step inside a turn or its wrapping, up to the one that ends it.
LEMMA WorkMarks ==
    ASSUME MarkInv, pc \in InTurn \cup Wrapping, pc' \in InTurn \cup Wrapping,
           alive' = alive
    PROVE  MarkInv'
  BY BusyAfter DEF MarkInv, LoopBusy, InTurn, Wrapping

LEMMA InTurnMarks ==
    ASSUME MarkInv,
           \/ \E taken : Step(taken) \/ Answers(taken)
           \/ CallEnds \/ GoalTool \/ Ask \/ Answered \/ ToolsDone \/ After
           \/ ControlMidTurn \/ Close \/ Mark \/ EndCompaction
           \/ \E c \in Children : Spawn(c) \/ Joins(c)
    PROVE  MarkInv'
<1>1. CASE (\E taken : Step(taken) \/ Answers(taken)) \/ CallEnds
  BY <1>1, WorkMarks DEF Step, Answers, CallEnds, OffWire, InTurn, Wrapping
<1>2. CASE GoalTool
  BY <1>2, WorkMarks DEF GoalTool, wireVars, InTurn
<1>3. CASE Ask \/ Answered \/ ToolsDone \/ After
  BY <1>3, WorkMarks DEF Ask, Answered, ToolsDone, After, OffWire, InTurn, Wrapping
<1>4. CASE ControlMidTurn
  BY <1>4, WorkMarks DEF ControlMidTurn
<1>5. CASE Close \/ Mark \/ EndCompaction
  BY <1>5, WorkMarks DEF Close, Mark, EndCompaction, Ended, Open, InTurn, Wrapping
<1>6. CASE \E c \in Children : Spawn(c) \/ Joins(c)
  BY <1>6, WorkMarks DEF Spawn, Born, Joins, OffWire, InTurn
<1> QED
  BY <1>1, <1>2, <1>3, <1>4, <1>5, <1>6

-----------------------------------------------------------------------------
(* The loop tells the end of a turn. *)

LEMMA EndsMark == ASSUME TypeOK, MarkInv, EndTurn \/ Watch PROVE MarkInv'
<1>1. events \in Seq(Event) /\ Says(<<Say("turnend")>>) /\ alive' = alive
  BY DEF TypeOK, WireTypeOK, EndTurn, Watch, Ended
<1>2. (pc \in {"panicked", "dead"}) <=> (pc' \in {"panicked", "dead"})
  BY DEF EndTurn, Watch, ToTop
<1> QED
  BY <1>1, <1>2, EndTold DEF MarkInv

LEMMA PanicMarks == ASSUME Panic PROVE MarkInv'
  BY BusyAfter DEF Panic, LoopBusy

\* A message on the copy opens a turn, or tells its end at once.
LEMMA TakeForkedMarks == ASSUME TypeOK, MarkInv, TakeForked PROVE MarkInv'
<1>1. events \in Seq(Event) /\ pc = "idle" /\ alive' = alive
  BY DEF TypeOK, WireTypeOK, TakeForked, TakesControl
<1>2. CASE pc' = "step"
  BY <1>1, <1>2, BusyAfter DEF MarkInv, LoopBusy
<1>3. CASE Says(<<Say("turnend")>>) /\ pc' = "idle"
  BY <1>1, <1>3, EndTold DEF MarkInv
<1> QED
  BY <1>2, <1>3 DEF TakeForked, Open, ToTop

-----------------------------------------------------------------------------
(* The loop stays idle: nothing owed is taken away. *)

\* Dropping the copy says so, and says nothing of a turn.
LEMMA ForkSaid ==
    /\ (IF fork THEN <<Say("nofork")>> ELSE <<>>) \in Seq(Event)
    /\ ~Tells(IF fork THEN <<Say("nofork")>> ELSE <<>>, "resumed")
<1>1. Len(<<Say("nofork")>>) = 1 /\ <<Say("nofork")>>[1].kind = "nofork"
  BY DEF Say
<1>2. Len(<<>>) = 0
  OBVIOUS
<1>3. ~Tells(<<Say("nofork")>>, "resumed") /\ ~Tells(<<>>, "resumed")
  BY <1>1, <1>2 DEF Tells
<1> QED
  BY <1>3, ResumedTyped

\* A control that is no turn is taken off the channel.
LEMMA IdleControlMarks ==
    ASSUME TypeOK, MarkInv, NEW op \in {"model", "clear"} \cup GoalCommands,
           TakesControl(op), pc' = "idle", NEW said \in Seq(Event), Says(said),
           ~Tells(said, "resumed"), UNCHANGED working
    PROVE  MarkInv'
<1>1. events \in Seq(Event) /\ rxControl \in Seq(Control)
  BY DEF TypeOK, WireTypeOK
<1>2. AsksTurn(rxControl) => AsksTurn(rxControl')
  <2>1. op \notin TurnControls \cup {"compact", "forked"}
    BY DEF GoalCommands, TurnControls
  <2> QED
    BY <1>1, <2>1, AsksTurnTail DEF TakesControl
<1>3. pc = "idle" /\ UNCHANGED <<rxUser, alive>>
  BY DEF TakesControl
<1>4. alive = (pc' \notin {"panicked", "dead"})
  BY <1>3 DEF MarkInv
<1> QED
  BY <1>1, <1>2, <1>3, <1>4, NothingTaken DEF Says, LoopBusy

LEMMA IdleMarks ==
    ASSUME TypeOK, MarkInv, UNCHANGED working,
           \/ TakeModel \/ TakeClear \/ \E command \in GoalCommands : TakeGoalCommand(command)
    PROVE  MarkInv'
<1>1. CASE TakeModel
  BY <1>1, ForkSaid, IdleControlMarks DEF TakeModel, DropFork, ToTop
<1>2. CASE TakeClear
  BY <1>2, ForkSaid, IdleControlMarks DEF TakeClear, DropFork, ToTop
<1>3. CASE \E command \in GoalCommands : TakeGoalCommand(command)
  <2>1. PICK command \in GoalCommands : TakeGoalCommand(command)
    BY <1>3
  <2>2. UNCHANGED events /\ TakesControl(command) /\ pc' = "idle"
    BY <2>1 DEF TakeGoalCommand, ToTop
  <2>3. events \in Seq(Event) /\ <<>> \in Seq(Event) /\ events = events \o <<>>
    BY DEF TypeOK, WireTypeOK
  <2>4. ~Tells(<<>>, "resumed")
    BY DEF Tells
  <2> QED
    BY <2>2, <2>3, <2>4, IdleControlMarks DEF Says
<1> QED
  BY <1>1, <1>2, <1>3

LEMMA TakeReportMarks == ASSUME TypeOK, MarkInv, TakeReport, UNCHANGED working PROVE MarkInv'
<1>1. events \in Seq(Event) /\ pc = "idle" /\ UNCHANGED <<rxUser, rxControl, alive>>
  BY DEF TypeOK, WireTypeOK, TakeReport, Idle
<1>2. CASE pc' = "step"
  BY <1>1, <1>2, BusyAfter DEF MarkInv, LoopBusy
<1>3. CASE Says(IF fork THEN <<Say("nofork")>> ELSE <<>>) /\ pc' = "idle"
  <2>1. alive = (pc' \notin {"panicked", "dead"})
    BY <1>1, <1>3 DEF MarkInv
  <2> QED
    BY <1>1, <1>3, <2>1, ForkSaid, NothingTaken DEF Says, LoopBusy
<1> QED
  BY <1>2, <1>3 DEF TakeReport, Open, ToTop

LEMMA ForkMarks ==
    ASSUME TypeOK, MarkInv, StartFork \/ EndFork, UNCHANGED working PROVE MarkInv'
<1>1. events \in Seq(Event) /\ UNCHANGED <<rxUser, rxControl, alive>>
  BY DEF TypeOK, WireTypeOK, StartFork, EndFork, wireVars
<1>2. pc \in {"idle", "forking"} /\ pc' \in {"idle", "forking"}
  BY DEF StartFork, EndFork, Idle, ToTop
<1>3. PICK said \in Seq(Event) : events' = events \o said /\ ~Tells(said, "resumed")
  <2>1. ~Tells(<<>>, "resumed") /\ <<>> \in Seq(Event) /\ events \o <<>> = events
    BY <1>1 DEF Tells
  <2>2. <<Say("fork")>> \in Seq(Event)
    BY SayTyped DEF EventKinds, ChildEvents, Askers
  <2>3. ~Tells(<<Say("fork")>>, "resumed")
    <3>1. Len(<<Say("fork")>>) = 1 /\ <<Say("fork")>>[1].kind = "fork"
      BY DEF Say
    <3> QED
      BY <3>1 DEF Tells
  <2> QED
    BY <2>1, <2>2, <2>3 DEF StartFork, EndFork, Says, wireVars
<1>4. alive = (pc' \notin {"panicked", "dead"})
  BY <1>2 DEF MarkInv
<1> QED
  BY <1>1, <1>2, <1>3, <1>4, NothingTaken DEF LoopBusy

-----------------------------------------------------------------------------
(* A child says nothing of the session's turn. *)

LEMMA ChildMarks ==
    ASSUME TypeOK, MarkInv, NEW c \in Children, ChildWorks(c) PROVE MarkInv'
<1>1. /\ events \in Seq(Event)
      /\ UNCHANGED <<pc, working, rxUser, rxControl, alive>>
  BY DEF TypeOK, WireTypeOK, ChildWorks, ChildStep, ChildStart, ChildAsk, ChildAnswered,
         ChildEnd, ChildReport, ChildOnly, loopVars, hubVars
<1>2. PICK said \in Seq(Event) : events' = events \o said /\ ~Tells(said, "resumed")
  <2>1. ~Tells(<<>>, "resumed") /\ <<>> \in Seq(Event) /\ events \o <<>> = events
    BY <1>1 DEF Tells
  <2>2. ASSUME NEW kind \in {"started", "ended", "approval"}
        PROVE  <<SayOf(kind, c)>> \in Seq(Event) /\ ~Tells(<<SayOf(kind, c)>>, "resumed")
    <3>1. <<SayOf(kind, c)>> \in Seq(Event)
      BY SayTyped, ChildSaysTyped DEF EventKinds, ChildEvents, Askers
    <3>2. Len(<<SayOf(kind, c)>>) = 1 /\ <<SayOf(kind, c)>>[1].kind = kind
      BY DEF SayOf
    <3> QED
      BY <3>1, <3>2 DEF Tells
  <2>3. events' = events \/ \E kind \in {"started", "ended", "approval"} : Says(<<SayOf(kind, c)>>)
    BY DEF ChildWorks, ChildStep, ChildStart, ChildAsk, ChildAnswered, ChildEnd, ChildReport
  <2> QED
    BY <2>1, <2>2, <2>3 DEF Says
<1> QED
  BY <1>1, <1>2, NothingTaken DEF MarkInv, LoopBusy

-----------------------------------------------------------------------------
LEMMA InitMarks == Init => MarkInv
<1>1. Len(<<>>) = 0
  OBVIOUS
<1> SUFFICES ASSUME Init PROVE MarkInv
  OBVIOUS
<1>2. events = <<>> /\ working = FALSE /\ alive = TRUE /\ pc = "idle"
  BY DEF Init, WireInit, HubInit, LoopInit
<1>3. Closed(events)
  BY <1>1, <1>2 DEF Closed
<1> QED
  BY <1>2, <1>3 DEF MarkInv, WorkingEnds

LEMMA LoopMarks == ASSUME TypeOK, MarkInv, Loop PROVE MarkInv'
<1>1. CASE Opens
  <2>1. UNCHANGED working
    BY <1>1 DEF Opens, hubVars
  <2> QED
    BY <1>1, <2>1, TakeMarks, TakeForkedMarks, TakeReportMarks DEF Opens
<1>2. CASE Ends
  BY <1>2, EndsMark, PanicMarks DEF Ends
<1>3. CASE Steers
  <2>1. UNCHANGED working
    BY <1>3 DEF Steers, hubVars
  <2> QED
    BY <1>3, <2>1, IdleMarks, InTurnMarks DEF Steers
<1>4. CASE Reads
  BY <1>4, InTurnMarks DEF Reads
<1>5. CASE Works
  <2>1. UNCHANGED working
    BY <1>5 DEF Works, hubVars
  <2> QED
    BY <1>5, <2>1, TakeMarks, IdleMarks, ForkMarks, InTurnMarks, EndsMark DEF Works
<1> QED
  BY <1>1, <1>2, <1>3, <1>4, <1>5 DEF Loop

LEMMA NextMarks == ASSUME TypeOK, MarkInv, [Next]_vars PROVE MarkInv'
<1>1. CASE UNCHANGED vars
  BY <1>1 DEF vars, wireVars, hubVars, loopVars, MarkInv, WorkingEnds, TurnEndOwed,
              LoopBusy, Closed, Tells, AsksTurn
<1>2. CASE Next
  BY <1>2, UserSendsMarks, UserDoesMarks, UserInterruptsMarks, PumpsMarks, LoopMarks,
     ChildMarks DEF Next
<1> QED
  BY <1>1, <1>2

\* A session marked as working is always owed the end of a turn, so it is never left
\* busy with nothing to unmark it: for every number of messages, children, models,
\* and every channel capacity, with crashes (session.rs working, agent.rs TurnEnd).
THEOREM Marked == Spec => []MarkInv
<1>1. Init => MarkInv
  BY InitMarks
<1>2. TypeOK /\ MarkInv /\ [Next]_vars => MarkInv'
  BY NextMarks
<1>3. Spec => []TypeOK
  BY TypeCorrect
<1> QED
  BY <1>1, <1>2, <1>3, PTL DEF Spec

COROLLARY MarkedEnds == Spec => []WorkingEnds
<1>1. MarkInv => WorkingEnds
  BY DEF MarkInv
<1> QED
  BY <1>1, Marked, PTL
-----------------------------------------------------------------------------
(* An interrupt reaches every child: what it goes through it raises, what is born    *)
(* under the flag is born with it, and what it could not see is noted as missed.      *)

Reached(c) == Live(c) \/ childState[c] = "born" => childStop[c] \/ c \in slipped

LEMMA ReachedAll ==
    InterruptReachesChildren <=>
        (stop /\ interrupting # "stopping" => \A c \in Children : Reached(c))
  BY DEF InterruptReachesChildren, Reached

LEMMA ChildrenKept ==
    ASSUME InterruptReachesChildren,
           stop' /\ interrupting' # "stopping" => stop /\ interrupting # "stopping",
           UNCHANGED <<childStop, childState, slipped>>
    PROVE  InterruptReachesChildren'
  BY DEF InterruptReachesChildren, Live

LEMMA StartReaches ==
    ASSUME InterruptReachesChildren, NEW control, StartTurn(control)
    PROVE  InterruptReachesChildren'
  BY DEF StartTurn, InterruptReachesChildren

LEMMA SendReaches ==
    ASSUME InterruptReachesChildren, NEW p, Send(p),
           UNCHANGED <<childStop, childVars, interrupting, slipped>>
    PROVE  InterruptReachesChildren'
  BY ChildrenKept DEF Send, childVars

LEMMA HubReaches ==
    ASSUME InterruptReachesChildren, TypeOK, UserSends \/ UserDoes \/ Pumps
    PROVE  InterruptReachesChildren'
<1>0. UNCHANGED slipped
  BY DEF UserSends, UserDoes, Pumps, Uncut, ghostVars
<1>1. CASE UserSends
  <2>1. CASE \E p \in Prompts : Submit(p) \/ SubmitAutomatic(p)
    BY <1>0, <2>1, SendReaches, ChildrenKept DEF Submit, SubmitAutomatic, Kept, wireVars
  <2>2. CASE SubmitReleased
    BY <1>0, <2>2, SendReaches DEF SubmitReleased, Kept
  <2>3. CASE RejectPending \/ \E answer \in {"accept", "reject"} : Answer(answer)
    BY <1>0, <2>3, ChildrenKept DEF RejectPending, Answer, flagVars
  <2> QED
    BY <1>1, <2>1, <2>2, <2>3 DEF UserSends
<1>2. CASE UserDoes
  <2>1. CASE \/ \E op \in TurnControls : StartControl(op)
             \/ \E p \in Prompts : SubmitForked(p)
             \/ AskCompact
    <3>1. CASE \E control : StartTurn(control)
      BY <3>1, StartReaches
    <3>2. CASE UNCHANGED wireVars /\ HubRest
      BY <1>0, <3>2, ChildrenKept DEF HubRest, wireVars
    <3> QED
      BY <2>1, <3>1, <3>2 DEF StartControl, SubmitForked, AskCompact
  <2>2. CASE \/ DropQueue \/ \E m \in Models : SetModel(m)
             \/ Clear \/ \E command \in GoalCommands : SetGoal(command)
    <3>1. UNCHANGED <<stop, childStop, childState, interrupting>>
      BY <2>2 DEF DropQueue, SetModel, Clear, SetGoal, Post, HubRest, wireVars, flagVars,
                  childVars
    <3> QED
      BY <1>0, <3>1, ChildrenKept
  <2>3. CASE \E c \in Children : InterruptChild(c)
    <3>1. PICK c \in Children : childStop' = [childStop EXCEPT ![c] = TRUE]
      BY <2>3 DEF InterruptChild
    <3>2. UNCHANGED <<stop, childState, interrupting>>
      BY <2>3 DEF InterruptChild, childVars, hubVars
    <3>3. childStop \in [Children -> BOOLEAN]
      BY DEF TypeOK, WireTypeOK
    <3> QED
      BY <1>0, <3>1, <3>2, <3>3 DEF InterruptReachesChildren, Live
  <2>4. CASE Interrupt
    BY <1>0, <2>4, ChildrenKept DEF Interrupt, wireVars
  <2> QED
    BY <1>2, <2>1, <2>2, <2>3, <2>4 DEF UserDoes
<1>3. CASE Pumps
  <2>1. UNCHANGED <<childStop, childState>>
    BY <1>3 DEF Pumps, Pump, OnApproval, OnResumed, OnAuthFailed, OnTurnEnd, OnOther,
                Pumped, childVars
  <2>2. stop' => stop
    BY <1>3 DEF Pumps, Pump, OnApproval, OnResumed, OnAuthFailed, OnTurnEnd, OnOther, Quiet
  <2>3. UNCHANGED interrupting
    BY <1>3 DEF Pumps, Pump, OnApproval, OnResumed, OnAuthFailed, OnTurnEnd, OnOther
  <2> QED
    BY <1>0, <2>1, <2>2, <2>3, ChildrenKept
<1> QED
  BY <1>1, <1>2, <1>3

\* Until the list is gone through nothing is said; and what is not on it is noted.
LEMMA InterruptReaches ==
    ASSUME InterruptReachesChildren, UserInterrupts
    PROVE  InterruptReachesChildren'
<1>1. CASE StopTurn
  BY <1>1 DEF StopTurn, InterruptReachesChildren
<1>2. CASE StopChildren /\ slipped' = slipped \cup Unlisted
  <2>1. /\ childStop' = [c \in Children |-> childStop[c] \/ Live(c)]
        /\ UNCHANGED childState
    BY <1>2 DEF StopChildren, childVars
  <2> QED
    BY <1>2, <2>1 DEF InterruptReachesChildren, Unlisted, Live
<1> QED
  BY <1>1, <1>2 DEF UserInterrupts

LEMMA SpawnReaches ==
    ASSUME TypeOK, InterruptReachesChildren, NEW c \in Children, Spawn(c) \/ Joins(c),
           UNCHANGED <<interrupting, slipped>>
    PROVE  InterruptReachesChildren'
<1>1. childStop \in [Children -> BOOLEAN] /\ childState \in [Children -> ChildStates]
  BY DEF TypeOK, WireTypeOK
<1>2. stop' = stop
  BY DEF Spawn, Joins, OffWire, flagVars
<1>3. ASSUME stop, interrupting # "stopping", NEW d \in Children
      PROVE  Reached(d)'
  <2>1. Reached(d)
    BY <1>3, ReachedAll
  <2>2. CASE d = c /\ Spawn(c)
    BY <1>1, <1>3, <2>2 DEF Spawn, Reached
  <2>3. CASE d = c /\ Joins(c)
    <3>1. childState[d] = "born" /\ UNCHANGED childStop
      BY <2>3 DEF Joins, OffWire, flagVars
    <3> QED
      BY <2>1, <3>1 DEF Reached
  <2>4. CASE d # c
    <3>1. childState'[d] = childState[d] /\ childStop'[d] = childStop[d]
      BY <1>1, <2>4 DEF Spawn, Born, Joins, OffWire, flagVars
    <3> QED
      BY <2>1, <3>1 DEF Reached, Live
  <2> QED
    BY <2>2, <2>3, <2>4
<1> QED
  BY <1>2, <1>3 DEF InterruptReachesChildren, Reached

LEMMA LoopReaches ==
    ASSUME TypeOK, InterruptReachesChildren, Loop
    PROVE  InterruptReachesChildren'
<1>0. UNCHANGED <<interrupting, slipped>>
  BY DEF Loop, Opens, Ends, Steers, Reads, Works, TakeQueued, hubVars, ghostVars
<1>1. CASE \E c \in Children : Spawn(c) \/ Joins(c)
  BY <1>0, <1>1, SpawnReaches
<1>2. CASE ~\E c \in Children : Spawn(c) \/ Joins(c)
  <2>1. UNCHANGED <<stop, childStop, childState>>
    <3>1. CASE Opens
      BY <3>1 DEF Opens, TakePrompt, TakeRetry, TakeForked, TakeReport, TakeGoal,
                  TakesControl, flagVars, childVars
    <3>2. CASE Ends
      BY <3>2 DEF Ends, EndTurn, Panic, flagVars, childVars
    <3>3. CASE Steers
      BY <3>3 DEF Steers, TakeGoalCommand, TakeClear, GoalTool, ControlMidTurn,
                  TakesControl, wireVars, flagVars, childVars
    <3>4. CASE Reads
      BY <3>4 DEF Reads, Step, Answers, OffWire, flagVars, childVars
    <3>5. CASE Works
      <4>1. CASE TakeCompact \/ TakeAside \/ TakeModel \/ StartFork \/ EndFork
        BY <4>1 DEF TakeCompact, TakeAside, TakeModel, StartFork, EndFork, TakesControl,
                    wireVars, flagVars, childVars
      <4>2. CASE CallEnds \/ Ask \/ Answered \/ ToolsDone \/ After
        BY <4>2 DEF CallEnds, Ask, Answered, ToolsDone, After, OffWire, Returned,
                    flagVars, childVars
      <4>3. CASE Close \/ Mark \/ EndCompaction \/ Watch \/ ControlMidTurn
        BY <4>3 DEF Close, Mark, EndCompaction, Watch, ControlMidTurn, Ended,
                    flagVars, childVars
      <4> QED
        BY <1>2, <3>5, <4>1, <4>2, <4>3 DEF Works
    <3> QED
      BY <3>1, <3>2, <3>3, <3>4, <3>5 DEF Loop
  <2> QED
    BY <1>0, <2>1, ChildrenKept
<1> QED
  BY <1>1, <1>2

LEMMA ChildReaches ==
    ASSUME TypeOK, InterruptReachesChildren, NEW c \in Children, ChildWorks(c)
    PROVE  InterruptReachesChildren'
<1>1. UNCHANGED <<stop, childStop, interrupting, slipped>>
  BY DEF ChildWorks, ChildStep, ChildStart, ChildAsk, ChildAnswered, ChildEnd, ChildReport,
         ChildOnly, flagVars, hubVars, ghostVars
<1>2. /\ Live(c)
      /\ \E state \in ChildStates \ {"new", "born"} :
             childState' = [childState EXCEPT ![c] = state]
  BY DEF ChildWorks, ChildStep, ChildStart, ChildAsk, ChildAnswered, ChildEnd, ChildReport,
         Becomes, Live, ChildStates
<1>3. \A d \in Children : childState'[d] = childState[d] \/ (Live(d) /\ childState'[d] # "born")
  BY <1>2 DEF TypeOK, WireTypeOK
<1> QED
  BY <1>1, <1>3 DEF InterruptReachesChildren, Live

\* Once an interrupt has gone through the children every live child carries the flag while
\* the turn stays interrupted, one spawned after it included, for any number of children
\* and interrupts; the one child it can miss is the one between reading the turn's flag and
\* joining the list at that moment (agent.rs 624-629, 668-674, session.rs interrupt).
THEOREM InterruptKnown == Spec => []InterruptReachesChildren
<1>1. Init => InterruptReachesChildren
  BY DEF Init, WireInit, InterruptReachesChildren
<1>2. TypeOK /\ InterruptReachesChildren /\ [Next]_vars => InterruptReachesChildren'
  <2> SUFFICES ASSUME TypeOK, InterruptReachesChildren, [Next]_vars
               PROVE  InterruptReachesChildren'
    OBVIOUS
  <2>1. CASE UserInterrupts
    BY <2>1, InterruptReaches
  <2>2. CASE UNCHANGED vars
    BY <2>2, ChildrenKept DEF vars, wireVars, hubVars, ghostVars
  <2> QED
    BY <2>1, <2>2, HubReaches, LoopReaches, ChildReaches DEF Next
<1>3. Spec => []TypeOK
  BY TypeCorrect
<1> QED
  BY <1>1, <1>2, <1>3, PTL DEF Spec
=============================================================================
