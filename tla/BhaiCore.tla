------------------------------ MODULE BhaiCore ------------------------------
(***************************************************************************)
(* A session at work: the hub, the agent loop and the children composed.   *)
(* A step is one of the hub's operations, one event pumped, one step of the*)
(* loop or one of a child; the loop reads the queue through take_queued.   *)
(***************************************************************************)
EXTENDS SessionHub, AgentLoop

CONSTANTS
    Ops,        \* the user's operations of an instance, besides messages and answers
    MaxOps      \* bound: how many of them the user performs

ASSUME CoreAssumption == MaxOps \in Nat

VARIABLES
    ops,        \* how many the user performed
    \* History variables: what an interrupt the session accepted was to stop.
    cut,        \* messages in hand, and Main for the running turn
    slipped     \* children that read the flag before it and joined the list after

ghostVars == <<ops, cut, slipped>>
vars == <<wireVars, hubVars, loopVars, ghostVars>>

Busy == pc \in InTurn \cup Wrapping

TypeOK ==
    /\ WireTypeOK
    /\ HubTypeOK
    /\ LoopTypeOK
    /\ ops \in 0 .. MaxOps
    /\ cut \in SUBSET (Prompts \cup {Main})
    /\ slipped \in SUBSET Children

Init ==
    /\ WireInit
    /\ HubInit
    /\ LoopInit
    /\ model = shownModel
    /\ ops = 0
    /\ cut = {}
    /\ slipped = {}

-----------------------------------------------------------------------------
\* An operation of the user, within the bound.
Does(op) == op \in Ops /\ ops < MaxOps /\ ops' = ops + 1

Uncut == UNCHANGED <<cut, slipped>>

UserSends ==
    /\ \/ \E p \in Prompts : Submit(p) \/ SubmitAutomatic(p)
       \/ SubmitReleased
       \/ \E answer \in {"accept", "reject"} : Answer(answer)
       \/ RejectPending
    /\ UNCHANGED <<loopVars, ghostVars>>

UserDoes ==
    /\ \/ Does("drop") /\ DropQueue
       \/ \E op \in TurnControls : Does(op) /\ StartControl(op)
       \/ Does("forked") /\ \E p \in Prompts : SubmitForked(p)
       \/ Does("compact") /\ AskCompact
       \/ Does("model") /\ \E m \in Models : SetModel(m)
       \/ Does("clear") /\ Clear
       \/ \E command \in GoalCommands : Does(command) /\ SetGoal(command)
       \/ Does("stopchild") /\ \E c \in Children : InterruptChild(c)
       \/ Does("interrupt") /\ Interrupt
    /\ Uncut
    /\ UNCHANGED loopVars

Unlisted == {c \in Children : childState[c] = "born" /\ ~childStop[c]}
UserInterrupts ==
    /\ \/ /\ StopTurn
          /\ cut' = cut \cup Range(rxUser) \cup (IF Busy THEN {Main} ELSE {})
          /\ UNCHANGED slipped
       \/ /\ StopChildren
          /\ slipped' = slipped \cup Unlisted
          /\ UNCHANGED cut
    /\ UNCHANGED <<loopVars, ops>>

Pumps == Pump /\ UNCHANGED <<loopVars, ghostVars>>

\* What opens a turn, or ends one, settles what the interrupt was to stop.
Opens ==
    /\ \/ TakePrompt /\ cut' = (cut \ {Head(rxUser), Main})
                                 \cup (IF Head(rxUser) \in cut THEN {Main} ELSE {})
       \/ (TakeRetry \/ TakeForked \/ TakeReport \/ TakeGoal) /\ cut' = cut \ {Main}
    /\ UNCHANGED <<hubVars, ops, slipped>>

Ends ==
    /\ EndTurn \/ Panic
    /\ cut' = cut \ {Main}
    /\ UNCHANGED <<hubVars, ops, slipped>>

\* The goal is set, resumed or given up, by the user or by the model.
Steers ==
    /\ \/ \E command \in GoalCommands : TakeGoalCommand(command)
       \/ TakeClear
       \/ GoalTool
       \/ ControlMidTurn /\ Head(rxControl).op \in GoalCommands
    /\ UNCHANGED <<hubVars, ghostVars>>

Reads ==
    /\ \E n \in 0 .. Len(queue) :
         TakeQueued(n) /\ (Step(SubSeq(queue, 1, n)) \/ Answers(SubSeq(queue, 1, n)))
    /\ UNCHANGED ghostVars

Works ==
    /\ \/ TakeCompact \/ TakeAside \/ TakeModel \/ StartFork \/ EndFork
       \/ CallEnds \/ Ask \/ Answered \/ ToolsDone \/ After
       \/ Close \/ Mark \/ EndCompaction \/ Watch
       \/ ControlMidTurn /\ Head(rxControl).op \notin GoalCommands
       \/ \E c \in Children : Spawn(c) \/ Joins(c)
    /\ UNCHANGED <<hubVars, ghostVars>>

ChildWorks(c) == ChildStep(c) /\ UNCHANGED <<hubVars, ghostVars>>

Loop == Opens \/ Ends \/ Steers \/ Reads \/ Works
Next ==
    UserSends \/ UserDoes \/ UserInterrupts \/ Pumps \/ Loop
        \/ \E c \in Children : ChildWorks(c)

Spec == Init /\ [][Next]_vars
=============================================================================
