----------------------------- MODULE WorkflowRun -----------------------------
(***************************************************************************)
(* workflow.rs run: the steps of a workflow in waves, each wave in chunks  *)
(* of child agents that run at once, under one budget, an interrupt and a  *)
(* cache of results that outlives the run.                                 *)
(***************************************************************************)
EXTENDS Naturals, Sequences, FiniteSets, SequencesExt, FiniteSetsExt

CONSTANTS
    Files,        \* the files there are, accepted or not
    MaxItems,     \* bound: items a step lists
    MaxCost,      \* bound: tokens one child spends
    MaxRuns       \* bound: runs one after another

-----------------------------------------------------------------------------
(* A workflow file as it is accepted: steps that need each other, fan out  *)
(* over each other's lists and gate themselves on each other's fields.     *)
(* Prompts, identities and contracts are one version number.               *)

\* over: for_each.  when: what its gate reads, the input, all that a step answered or a field
\* of it, and of which step; equal: == or !=.  0 is none.
Steps(n) == [needs : SUBSET (0 .. n), over : 0 .. n, reads : {"none", "input", "whole", "field"},
             when : 0 .. n, equal : BOOLEAN,
             json : BOOLEAN, stop : BOOLEAN, version : Nat]
ASSUME FilesAssumption ==
    \A file \in Files :
        /\ file.steps \in Seq(Steps(Len(file.steps) + 1))
        /\ file.parallel \in Nat \ {0} /\ file.fanout \in Nat \ {0}
        /\ file.budget \in Nat /\ file.cache \in BOOLEAN
\* One prompt, identity and contract ask for one kind of answer: the request for an object
\* is in the prompt.
ASSUME VersionsAssumption ==
    \A f, g \in Files : f.cache /\ g.cache =>
        \A i \in (DOMAIN f.steps) \cap (DOMAIN g.steps) :
            f.steps[i].version = g.steps[i].version => f.steps[i].json = g.steps[i].json
ASSUME BoundsAssumption == MaxItems \in Nat /\ MaxCost \in Nat

Ids(file) == 1 .. Len(file.steps)
\* Fanning out over a step is needing it.
Needs(file, i) == file.steps[i].needs \cup ({file.steps[i].over} \ {0})

\* order: which steps have all they need after n waves.
After(file) ==
    LET done[n \in 0 .. Len(file.steps)] ==
            IF n = 0 THEN {}
            ELSE done[n - 1] \cup {i \in Ids(file) : Needs(file, i) \subseteq done[n - 1]}
    IN  done
Ordered(file) == After(file)[Len(file.steps)] = Ids(file)

FansOut(file, i) ==
    LET over == file.steps[i].over
    IN  over # 0 => over # i /\ over \in Ids(file) /\ file.steps[over].over = 0
\* A step whose answer is read is needed, and one whose field is has one object to answer with.
Gated(file, i) ==
    LET step == file.steps[i]
    IN  /\ step.reads \in {"whole", "field"} => step.when \in Needs(file, i)
        /\ step.reads = "field" => file.steps[step.when].json /\ file.steps[step.when].over = 0

Accepted(file) ==
    /\ file.steps # <<>>
    /\ \A i \in Ids(file) :
          Needs(file, i) \subseteq Ids(file) /\ FansOut(file, i) /\ Gated(file, i)
    /\ Ordered(file)

\* Everything a step stands on.
Below(file, i) ==
    LET down[n \in 0 .. Len(file.steps)] ==
            IF n = 0 THEN Needs(file, i)
            ELSE down[n - 1] \cup UNION {Needs(file, j) : j \in down[n - 1]}
    IN  down[Len(file.steps)]

-----------------------------------------------------------------------------
(* Answers.  A list is the number of its items.  Of a step that is to      *)
(* answer with an object: 0 is none, 1 has the field as the gates compare  *)
(* it, 2 has it otherwise, 3 has no such field.  Of one that is read       *)
(* whole, and of the input, 1 is what the gates compare it with.           *)

Values == 0 .. (IF MaxItems > 3 THEN MaxItems ELSE 3)
\* What a step may say that anything after it can tell apart.
Says(file, i) ==
    IF file.steps[i].json THEN 0 .. 3
    ELSE IF \E j \in Ids(file) : file.steps[j].over = i THEN 0 .. MaxItems
    ELSE IF \E j \in Ids(file) : file.steps[j].reads = "whole" /\ file.steps[j].when = i THEN {1, 2}
    ELSE {1}
\* answered
Fits(step, value) == step.json => value # 0
\* holds: with no field to read, neither == nor != does.
Holds(step, value) == (step.reads = "field" => value \in {1, 2}) /\ (value = 1) = step.equal

-----------------------------------------------------------------------------
VARIABLES
    file,         \* the workflow of this run
    phase,        \* where run is
    status,       \* per step: None, or how it ended
    text,         \* Done: what each finished step left, <<item, value>> per instance
    tasks,        \* the launches of this wave: step and item (0: the whole step)
    pos,          \* how many of them the chunks have come to
    outcome,      \* per task
    launched,     \* the tasks of this chunk whose child runs
    answer,       \* what those children came back with
    spent, worst,
    stopped, cold, missed,
    cancel,       \* the turn's interrupt flag
    store,        \* the cache: what was kept under which key
    runs,
    ran           \* history: the steps that ran a child in this run

vars == <<file, phase, status, text, tasks, pos, outcome, launched, answer,
          spent, worst, stopped, cold, missed, cancel, store, runs, ran>>

Step(i) == file.steps[i]
Task == [step : Nat, item : Nat]
Outcome == [tag : {"none", "ok", "failed", "skipped"}, value : Values, cached : BOOLEAN]
Unknown == [tag |-> "none", value |-> 0, cached |-> FALSE]
Answer == [tag : {"none", "ok", "failed"}, value : Values, cost : 0 .. MaxCost, cut : BOOLEAN]
Running == [tag |-> "none", value |-> 0, cost |-> 0, cut |-> FALSE]

TypeOK ==
    /\ file \in Files
    /\ phase \in {"confirm", "wave", "chunk", "children", "over", "refused"}
    /\ status \in [Ids(file) -> {"none", "ok", "failed", "skipped"}]
    /\ text \in [Ids(file) -> SUBSET (Nat \X Values)]
    /\ tasks \in Seq(Task)
    /\ pos \in 0 .. Len(tasks)
    /\ outcome \in [1 .. Len(tasks) -> Outcome]
    /\ launched \subseteq 1 .. Len(tasks)
    /\ answer \in [launched -> Answer]
    /\ spent \in Nat /\ worst \in 0 .. MaxCost
    /\ stopped \in BOOLEAN /\ cold \in BOOLEAN /\ missed \in BOOLEAN /\ cancel \in BOOLEAN
    /\ runs \in 1 .. MaxRuns
    /\ ran \subseteq Ids(file)

\* The files that parse are the ones a run is started on.
Fresh(w) ==
    /\ file = w
    /\ status = [i \in Ids(w) |-> "none"]
    /\ text = [i \in Ids(w) |-> {}]

Init ==
    /\ \E w \in Files : Accepted(w) /\ Fresh(w)
    /\ phase = "confirm"
    /\ tasks = <<>> /\ pos = 0 /\ outcome = <<>> /\ launched = {} /\ answer = <<>>
    /\ spent = 0 /\ worst = 0
    /\ stopped = FALSE /\ cold = FALSE /\ missed = FALSE /\ cancel = FALSE
    /\ store = <<>> /\ runs = 1 /\ ran = {}

WaveVars == <<tasks, pos, outcome, launched, answer, missed>>
RunVars == <<status, text, spent, worst, stopped, cold, ran>>

-----------------------------------------------------------------------------
(* Before the first wave. *)

\* An identity or a model that is not there, a denial, or the user's no.
Refuse ==
    /\ phase = "confirm"
    /\ phase' = "refused"
    /\ UNCHANGED <<file, WaveVars, RunVars, cancel, store, runs>>

Confirm ==
    /\ phase = "confirm"
    /\ phase' = "wave"
    /\ UNCHANGED <<file, WaveVars, RunVars, cancel, store, runs>>

Interrupt ==
    /\ phase \notin {"over", "refused"}
    /\ ~cancel /\ cancel' = TRUE
    /\ UNCHANGED <<file, phase, WaveVars, RunVars, store, runs>>

-----------------------------------------------------------------------------
(* A wave. *)

Unsettled == {i \in Ids(file) : status[i] = "none"}
Blocked == {i \in Unsettled : \E n \in Needs(file, i) : status[n] \in {"failed", "skipped"}}
\* Mutant: a step waits for nothing that has not failed.
ReadyEager == {i \in Unsettled : \A n \in Needs(file, i) : status[n] \notin {"failed", "skipped"}}
Ready == {i \in Unsettled : \A n \in Needs(file, i) : status[n] = "ok"}
\* The one value of a step that answered once.
Said(i) == IF text[i] = {} THEN 0 ELSE (CHOOSE one \in text[i] : TRUE)[2]
\* A step that fanned out is read as the list of what its items answered.
Read(i) ==
    LET when == Step(i).when
    IN  CASE Step(i).reads = "input" -> 1
          [] Step(i).reads = "whole" -> IF \A one \in text[when] : one[2] = 1 THEN 1 ELSE 2
          [] OTHER -> Said(when)
Opens(i) == Step(i).reads = "none" \/ Holds(Step(i), Read(i))
\* One task, or one per item up to the file's cap.
TasksOf(i) ==
    IF Step(i).over = 0 THEN <<[step |-> i, item |-> 0]>>
    ELSE LET listed == Said(Step(i).over)
         IN  [k \in 1 .. (IF listed < file.fanout THEN listed ELSE file.fanout)
                |-> [step |-> i, item |-> k]]

Wave ==
    /\ phase = "wave"
    /\ Blocked \cup Ready # {}
    /\ LET run == {i \in Ready : Opens(i)}
           next == FlattenSeq([i \in Ids(file) |-> IF i \in run THEN TasksOf(i) ELSE <<>>])
       IN  /\ status' = [i \in Ids(file) |->
                            IF i \in Blocked \cup (Ready \ run) THEN "skipped" ELSE status[i]]
           /\ tasks' = next
           /\ outcome' = [t \in 1 .. Len(next) |-> Unknown]
    /\ phase' = "chunk"
    /\ pos' = 0 /\ launched' = {} /\ answer' = <<>> /\ missed' = FALSE
    /\ UNCHANGED <<file, text, spent, worst, stopped, cold, cancel, store, runs, ran>>

-----------------------------------------------------------------------------
(* A chunk. *)

Chunk ==
    (pos + 1) .. (IF pos + file.parallel < Len(tasks) THEN pos + file.parallel ELSE Len(tasks))

\* The prompt as it is sent, and what it is sent to.
Key(t) ==
    LET i == tasks[t].step
    IN  [step |-> i, version |-> Step(i).version, item |-> tasks[t].item,
         inputs |-> [n \in Needs(file, i) \ {Step(i).over} |-> text[n]]]

\* Mutant: only the next launch is weighed, whatever the chunk holds.
WeighedOne(chunk) ==
    \/ stopped \/ cancel
    \/ spent >= file.budget
    \/ spent + worst >= file.budget
\* Mutant: an interrupt is looked for where the wave starts.
WeighedOnce(chunk) ==
    \/ pos = 0 /\ (stopped \/ cancel)
    \/ spent >= file.budget
    \/ spent + worst * Cardinality(chunk) >= file.budget
\* Nothing is launched any more: stopped before, interrupted, spent, or about to be.
Weighed(chunk) ==
    \/ stopped \/ cancel
    \/ spent >= file.budget
    \/ spent + worst * Cardinality(chunk) >= file.budget

Answered(step, value, cached) ==
    [tag |-> IF Fits(step, value) THEN "ok" ELSE "failed",
     value |-> value, cached |-> cached]

Launch ==
    /\ phase = "chunk" /\ pos < Len(tasks)
    /\ LET no == Weighed(Chunk)
           hits == IF no \/ ~file.cache \/ cold THEN {}
                   ELSE {t \in Chunk : Key(t) \in DOMAIN store}
           gone == IF no THEN {} ELSE Chunk \ hits
       IN  /\ stopped' = no
           /\ outcome' = [t \in DOMAIN outcome |->
                 IF t \notin Chunk THEN outcome[t]
                 ELSE IF no THEN [Unknown EXCEPT !.tag = "skipped"]
                 ELSE IF t \in hits
                      THEN Answered(Step(tasks[t].step), store[Key(t)].value, TRUE)
                 ELSE Unknown]
           /\ launched' = gone
           /\ answer' = [t \in gone |-> Running]
           /\ missed' = (missed \/ (file.cache /\ gone # {}))
           /\ ran' = ran \cup {tasks[t].step : t \in gone}
           /\ pos' = IF no THEN pos + Cardinality(Chunk) ELSE pos
           /\ phase' = IF no THEN "chunk" ELSE "children"
    /\ UNCHANGED <<file, status, text, tasks, spent, worst, cold, cancel, store, runs>>

\* A child comes back; cut when it spent its own budget.
ChildEnds(t) ==
    /\ phase = "children" /\ t \in launched /\ answer[t].tag = "none"
    /\ \E cost \in 1 .. MaxCost, cut \in BOOLEAN :
          /\ cut => cost = MaxCost
          /\ \/ answer' = [answer EXCEPT ![t] =
                    [tag |-> "failed", value |-> 0, cost |-> cost, cut |-> FALSE]]
             \/ \E value \in Says(file, tasks[t].step) : answer' = [answer EXCEPT ![t] =
                    [tag |-> "ok", value |-> value, cost |-> cost, cut |-> cut]]
    /\ UNCHANGED <<file, phase, RunVars, tasks, pos, outcome, launched, missed,
                   cancel, store, runs>>

Came(t) ==
    IF answer[t].tag = "failed" THEN [Unknown EXCEPT !.tag = "failed"]
    ELSE Answered(Step(tasks[t].step), answer[t].value, FALSE)
\* Only a whole answer of the right shape.
Keeps(t) == file.cache /\ Came(t).tag = "ok" /\ ~answer[t].cut

\* What the most expensive launch so far cost.
Dearest == Max({worst} \cup {answer[t].cost : t \in launched})

\* join_all: every child of the chunk is back.
Gather ==
    /\ phase = "children"
    /\ \A t \in launched : answer[t].tag # "none"
    /\ outcome' = [t \in DOMAIN outcome |-> IF t \in launched THEN Came(t) ELSE outcome[t]]
    /\ spent' = spent + MapThenSumSet(LAMBDA t : answer[t].cost, launched)
    /\ worst' = Dearest
    /\ stopped' = \E t \in launched : Came(t).tag = "failed" /\ Step(tasks[t].step).stop
    /\ LET kept == {t \in launched : Keeps(t)}
       IN  store' = [k \in DOMAIN store \cup {Key(t) : t \in kept} |->
                        IF \E t \in kept : Key(t) = k
                        THEN LET t == CHOOSE u \in kept : Key(u) = k
                             IN  [value |-> answer[t].value, cut |-> answer[t].cut]
                        ELSE store[k]]
    /\ pos' = pos + Cardinality(Chunk)
    /\ phase' = "chunk"
    /\ launched' = {} /\ answer' = <<>>
    /\ UNCHANGED <<file, status, text, tasks, cold, missed, cancel, runs, ran>>

-----------------------------------------------------------------------------
(* The end of a wave, and of a run. *)

TasksIn(i, tag) == {t \in 1 .. Len(tasks) : tasks[t].step = i /\ outcome[t].tag = tag}
\* Mutant: a step with nothing to run is left as it is.
FoldedStrict(i) ==
    IF TasksIn(i, "ok") # {} THEN "ok"
    ELSE IF TasksIn(i, "failed") # {} THEN "failed"
    ELSE IF TasksIn(i, "skipped") # {} THEN "skipped"
    ELSE "none"
\* One answer is enough; with none, a failure says more than a launch not made.
Folded(i) ==
    IF TasksIn(i, "ok") # {} THEN "ok"
    ELSE IF TasksIn(i, "failed") # {} THEN "failed"
    ELSE IF TasksIn(i, "skipped") # {} THEN "skipped"
    ELSE "ok"
\* In the order of the items: who answered for which tells the texts apart.
Left(i) == {<<tasks[t].item, outcome[t].value>> : t \in TasksIn(i, "ok")}

\* Mutant: a miss says nothing of the waves to come.
Forgets == cold
Misses == cold \/ missed

\* The steps of this wave are those that are still ready, the others were settled.
Fold ==
    /\ phase = "chunk" /\ pos = Len(tasks)
    /\ status' = [i \in Ids(file) |-> IF i \in Ready THEN Folded(i) ELSE status[i]]
    /\ text' = [i \in Ids(file) |-> IF i \in Ready THEN Left(i) ELSE text[i]]
    /\ cold' = Misses
    /\ phase' = "wave"
    /\ tasks' = <<>> /\ outcome' = <<>> /\ pos' = 0 /\ missed' = FALSE
    /\ UNCHANGED <<file, launched, answer, spent, worst, stopped, cancel, store, runs, ran>>

Finish ==
    /\ phase = "wave"
    /\ Blocked \cup Ready = {}
    /\ phase' = "over"
    /\ UNCHANGED <<file, WaveVars, RunVars, cancel, store, runs>>

\* Another run, of the file as it is by then.
Again ==
    /\ phase \in {"over", "refused"} /\ runs < MaxRuns
    /\ runs' = runs + 1
    /\ \E w \in Files :
          /\ Accepted(w)
          /\ file' = w
          /\ status' = [i \in Ids(w) |-> "none"]
          /\ text' = [i \in Ids(w) |-> {}]
    /\ phase' = "confirm"
    /\ spent' = 0 /\ worst' = 0 /\ stopped' = FALSE /\ cold' = FALSE /\ cancel' = FALSE
    /\ ran' = {}
    /\ UNCHANGED <<WaveVars, store>>

Next ==
    \/ Refuse \/ Confirm \/ Interrupt
    \/ Wave \/ Launch \/ Gather \/ Fold \/ Finish \/ Again
    \/ \E t \in 1 .. Len(tasks) : ChildEnds(t)

Spec == Init /\ [][Next]_vars

(***************************************************************************)
(* What a user may rely on of a workflow that runs.                        *)
(***************************************************************************)
Promise == INSTANCE StepPromise WITH needs <- [i \in Ids(file) |-> Needs(file, i)],
                                     status <- status
\* A step is settled once, and runs only when all it needs has answered, in waves and
\* chunks as much as one after another (workflow.rs next_wave, run).
KeepsPromise == Promise!Spec

\* Once a step of on_fail: stop has failed, or the turn is interrupted, no child is
\* started, in a later chunk of the same wave included (workflow.rs run, stopped).
FailedForGood ==
    \/ \E t \in 1 .. Len(tasks) : outcome[t].tag = "failed" /\ Step(tasks[t].step).stop
    \/ \E i \in Ids(file) : status[i] = "failed" /\ Step(i).stop
NoLaunchAfterStop == [][cancel \/ FailedForGood => launched' \subseteq launched]_vars

\* Children that cost no more than the dearest so far do not take the run to its budget,
\* however many run at once (workflow.rs run, ahead: "keeps the run under the number").
BudgetKept ==
    [][launched # {} /\ launched' = {} /\ (\A t \in launched : answer[t].cost <= worst)
         => spent' < file.budget]_vars

\* Nothing is answered from the cache behind a step that ran: a result is never read
\* next to others it was not made from (workflow.rs run, cold).
WarmBehindWarm ==
    \A t \in 1 .. Len(tasks) :
        outcome[t].cached => Below(file, tasks[t].step) \cap ran = {}

\* Children are started only while the run may go on, within its budget, and for what no
\* result kept from before can answer.
LaunchesSound == []WarmBehindWarm /\ NoLaunchAfterStop /\ BudgetKept

-----------------------------------------------------------------------------
(* Liveness: run is a task, and a child comes back. *)

Fairness ==
    /\ WF_vars(Wave) /\ WF_vars(Launch) /\ WF_vars(Gather) /\ WF_vars(Fold) /\ WF_vars(Finish)
    /\ \A t \in 1 .. 4 : WF_vars(ChildEnds(t))
FairSpec == Spec /\ Fairness

\* A run comes to its end with every step settled: none is left behind by a cycle, a
\* failure, a closed gate or an empty list (workflow.rs check, next_wave, run).
RunEnds == phase = "wave" ~> phase = "over" /\ Unsettled = {}
=============================================================================
