------------------------------ MODULE ChildRuns ------------------------------
(***************************************************************************)
(* Detached children over several runs (tools/agent.rs, agent.rs           *)
(* run_child, Mailbox, Cancel, abandoned; sessions.rs load_child): a child *)
(* is started, typed to, stopped, reports once, and is continued from its  *)
(* transcript, also after bhai ended under it.  An item of a history is    *)
(* <<kind, run, number>>; what the parent reads of children is             *)
(* <<"start" or "report", child, run>>.                                    *)
(***************************************************************************)
EXTENDS Naturals, Sequences, FiniteSets, SequencesExt

CONSTANTS
    Kids,           \* ids of children
    ChildSteps,     \* CHILD_STEPS
    ChildBudgets    \* a bound: runs started, texts typed into panes, interrupts, and
                    \* mishaps (panics, writes that fail, ends of bhai) in one behaviour

ASSUME ChildAssumption ==
    /\ ChildSteps \in Nat \ {0}
    /\ ChildBudgets \subseteq [runs : Nat, typed : Nat, stops : Nat, mishaps : Nat]

VARIABLES
    kid,        \* of each child: its last run
    postbox,    \* the map of mailboxes: the run a child's is of, 0 for none
    tapes,      \* child-<id>.jsonl of each, line by line
    parent,     \* the session: is it up, its turn's flag, calls not yet landed, its history
    reports,    \* the channel of reports
    tally,      \* what is left of the budget
    astray      \* history: runs that panicked, children a write failed for, and whether a
                \* child was continued with its report still to be read

childVars == <<kid, postbox, tapes, parent, reports, tally, astray>>

Blank == [pc |-> "none", run |-> 0, stop |-> FALSE, step |-> 0, talk |-> <<>>, box |-> <<>>,
          result |-> "none", mail |-> <<>>, after |-> 0]

ChildInit ==
    /\ kid = [c \in Kids |-> Blank] /\ postbox = [c \in Kids |-> 0]
    /\ tapes = [c \in Kids |-> <<>>]
    /\ parent = [up |-> TRUE, stop |-> FALSE, landing |-> <<>>, history |-> <<>>]
    /\ reports = <<>> /\ tally \in ChildBudgets
    /\ astray = [silent |-> {}, unwritten |-> {}, overtook |-> FALSE]

\* Cancel::running: the flag is in use until the task has dropped it, after its mailbox.
RunningChild(c) == kid[c].pc \notin {"none", "gone"}
AtLoop == {"top", "calling", "tools", "ended"}

\* The items of a sequence at the places that pass, in order.
Picked(items, Passes(_)) ==
    LET places == SelectSeq([i \in DOMAIN items |-> i], Passes)
    IN  [n \in DOMAIN places |-> items[places[n]]]

(***************************************************************************)
(* The transcript.                                                         *)
(***************************************************************************)
Scrap == <<"scrap", 0, 0>>     \* a line cut short
Spoilt == <<"spoilt", 0, 0>>   \* one that begins with another cut short

\* append_jsonl: straight after whatever the file ends with.
Joined(tape, items) ==
    IF tape # <<>> /\ Last(tape) = Scrap /\ items # <<>>
    THEN Front(tape) \o <<IF Head(items) = Scrap THEN Scrap ELSE Spoilt>> \o Tail(items)
    ELSE tape \o items
\* What is there when it is cut short.
Partly(tape, items) ==
    UNION {{Joined(tape, SubSeq(items, 1, k)), Joined(tape, Append(SubSeq(items, 1, k), Scrap))} :
               k \in 0 .. Len(items) - 1}

\* load_child: a last line that is none is skipped, any other refuses the file; calls that
\* were not answered go, with the reasoning before them.
Lines(tape) == IF tape # <<>> /\ Last(tape) \in {Scrap, Spoilt} THEN Front(tape) ELSE tape
Refuses(tape) == \E line \in ToSet(Lines(tape)) : line \in {Scrap, Spoilt}
Unmet(items, item) ==
    item[1] = "call" /\ <<"out", item[2], item[3]>> \notin ToSet(items)
\* A departure for the checks: only calls at the end go.
GoesAtEnd(items, i) ==
    Unmet(items, items[i]) /\ \A j \in i .. Len(items) : Unmet(items, items[j])
Goes(items, i) ==
    \/ Unmet(items, items[i])
    \/ /\ items[i][1] = "reasoning"
       /\ \E j \in i + 1 .. Len(items) :
             /\ Unmet(items, items[j])
             /\ \A k \in i + 1 .. j - 1 : items[k][1] = "reasoning" \/ Unmet(items, items[k])
LoadChild(tape) ==
    LET items == Lines(tape)
    IN  Picked(items, LAMBDA i : ~Goes(items, i))

(***************************************************************************)
(* Bhai ends: no task goes on, and what was not written is lost.           *)
(***************************************************************************)
AllGone ==
    /\ kid' = [c \in Kids |-> IF kid[c].run = 0 THEN Blank
                              ELSE [Blank EXCEPT !.pc = "gone", !.run = kid[c].run]]
    /\ postbox' = [c \in Kids |-> 0] /\ reports' = <<>>
    /\ parent' = [parent EXCEPT !.up = FALSE, !.stop = FALSE, !.landing = <<>>]
Mishap == tally.mishaps > 0 /\ tally' = [tally EXCEPT !.mishaps = @ - 1]

\* record: the child goes on whatever became of the write, unless bhai ends in it.
Records(c, items, run) ==
    \/ /\ tapes' = [tapes EXCEPT ![c] = Joined(@, items)]
       /\ kid' = [kid EXCEPT ![c] = run]
       /\ UNCHANGED <<parent, reports, tally, astray>>
    \/ /\ Mishap /\ \E tape \in Partly(tapes[c], items) : tapes' = [tapes EXCEPT ![c] = tape]
       /\ kid' = [kid EXCEPT ![c] = run]
       /\ astray' = [astray EXCEPT !.unwritten = @ \cup {c}]
       /\ UNCHANGED <<parent, reports>>
EndsWriting(c, items) ==
    /\ Mishap /\ \E tape \in Partly(tapes[c], items) : tapes' = [tapes EXCEPT ![c] = tape]
    /\ AllGone /\ UNCHANGED astray
SaysItems(c, items, run) ==
    \/ Records(c, items, [run EXCEPT !.talk = @ \o items]) /\ UNCHANGED postbox
    \/ EndsWriting(c, items)

EndsUp == parent.up /\ Mishap /\ AllGone /\ UNCHANGED <<tapes, astray>>

\* A departure for the checks: one whose earlier run was reported counts as told.
UntoldOnce(history) ==
    LET told == {history[j][2] : j \in {j \in DOMAIN history : history[j][1] = "report"}}
        left == SelectSeq(history, LAMBDA e : e[1] = "start" /\ e[2] \notin told)
    IN  [n \in DOMAIN left |-> <<"report", left[n][2], left[n][3]>>]
\* abandoned: the children that were started and of which no report was read since.
Untold(history) ==
    LET open(i) == /\ history[i][1] = "start"
                   /\ ~\E j \in i + 1 .. Len(history) :
                         history[j][1] = "report" /\ history[j][2] = history[i][2]
        left == Picked(history, open)
    IN  [n \in DOMAIN left |-> <<"report", left[n][2], left[n][3]>>]
ComesBack ==
    /\ ~parent.up
    /\ parent' = [parent EXCEPT !.up = TRUE, !.history = @ \o Untold(@)]
    /\ UNCHANGED <<kid, postbox, tapes, reports, tally, astray>>

(***************************************************************************)
(* The parent's loop and the front ends.                                   *)
(***************************************************************************)
StartsChild(c, talk) ==
    /\ parent.up /\ tally.runs > 0
    /\ kid' = [kid EXCEPT ![c] = [Blank EXCEPT !.pc = "spawned", !.run = kid[c].run + 1,
                                               !.stop = parent.stop, !.talk = talk]]
    /\ parent' = [parent EXCEPT !.landing = Append(@, <<"start", c, kid[c].run + 1>>)]
    /\ tally' = [tally EXCEPT !.runs = @ - 1]
    /\ UNCHANGED <<postbox, tapes, reports>>
SpawnsChild(c) == kid[c].run = 0 /\ StartsChild(c, <<>>) /\ UNCHANGED astray
\* reopen: a child that runs is refused, as is one that left nothing to carry on from.
Reopens(c) ==
    /\ \E i \in DOMAIN parent.history : parent.history[i][1] = "start" /\ parent.history[i][2] = c
    /\ ~RunningChild(c)
    /\ ~Refuses(tapes[c]) /\ LoadChild(tapes[c]) # <<>>
    /\ StartsChild(c, LoadChild(tapes[c]))
    /\ astray' = [astray EXCEPT !.overtook = @ \/ \E i \in DOMAIN reports : reports[i][2] = c]

\* A batch of calls has ended, and their outputs join the history.
LandsCalls ==
    /\ parent.landing # <<>>
    /\ parent' = [parent EXCEPT !.history = @ \o parent.landing, !.landing = <<>>]
    /\ UNCHANGED <<kid, postbox, tapes, reports, tally, astray>>
\* delivered: between steps every report there is; idle, the one that came.
ReadsReports ==
    /\ parent.up /\ parent.landing = <<>> /\ reports # <<>>
    /\ \E k \in {1, Len(reports)} :
          /\ parent' = [parent EXCEPT !.history = @ \o SubSeq(reports, 1, k)]
          /\ reports' = SubSeq(reports, k + 1, Len(reports))
    /\ UNCHANGED <<kid, postbox, tapes, tally, astray>>

\* Cancel::stop, clear and stop_child.
Stop == tally.stops > 0 /\ tally' = [tally EXCEPT !.stops = @ - 1]
StopsAll ==
    /\ parent.up /\ ~parent.stop /\ Stop
    /\ parent' = [parent EXCEPT !.stop = TRUE]
    /\ kid' = [c \in Kids |-> [kid[c] EXCEPT !.stop = @ \/ RunningChild(c)]]
    /\ UNCHANGED <<postbox, tapes, reports, astray>>
ClearsStop ==
    /\ parent.stop /\ parent' = [parent EXCEPT !.stop = FALSE]
    /\ UNCHANGED <<kid, postbox, tapes, reports, tally, astray>>
StopsChild(c) ==
    /\ RunningChild(c) /\ ~kid[c].stop /\ Stop
    /\ kid' = [kid EXCEPT ![c].stop = TRUE]
    /\ UNCHANGED <<postbox, tapes, parent, reports, astray>>
\* steer: taken while the mailbox is listed and its other end is there.
Types(c) ==
    /\ tally.typed > 0
    /\ kid[c].pc \in AtLoop /\ postbox[c] = kid[c].run
    /\ LET text == <<"text", kid[c].run, Len(kid[c].mail) + 1>>
       IN  kid' = [kid EXCEPT ![c].box = Append(@, text), ![c].mail = Append(@, text),
                              ![c].after = @ + (IF kid[c].pc = "ended" THEN 1 ELSE 0)]
    /\ tally' = [tally EXCEPT !.typed = @ - 1]
    /\ UNCHANGED <<postbox, tapes, parent, reports, astray>>

(***************************************************************************)
(* The child's task.                                                       *)
(***************************************************************************)
Report(c) == <<"report", c, kid[c].run>>
BeginsStopped(c) ==
    /\ kid[c].pc = "spawned" /\ kid[c].stop
    /\ reports' = Append(reports, Report(c))
    /\ kid' = [kid EXCEPT ![c].pc = "unlisted"]
    /\ UNCHANGED <<postbox, tapes, parent, tally, astray>>
BeginsRun(c) ==
    /\ kid[c].pc = "spawned" /\ ~kid[c].stop
    /\ LET task == <<<<"task", kid[c].run, 0>>>>
       IN  \/ /\ Records(c, task, [kid[c] EXCEPT !.pc = "top", !.talk = @ \o task])
              /\ postbox' = [postbox EXCEPT ![c] = kid[c].run]
           \/ EndsWriting(c, task)

\* The top of a step: the note of the last one, and what was typed since the last look.
LooksInBox(c) ==
    /\ kid[c].pc = "top" /\ kid[c].step < ChildSteps
    /\ LET note == IF kid[c].step + 1 = ChildSteps THEN <<<<"note", kid[c].run, 0>>>> ELSE <<>>
       IN  SaysItems(c, note \o kid[c].box,
                [kid[c] EXCEPT !.pc = "calling", !.step = @ + 1, !.box = <<>>])
SpendsSteps(c) ==
    /\ kid[c].pc = "top" /\ kid[c].step = ChildSteps
    /\ kid' = [kid EXCEPT ![c].pc = "ended", ![c].result = "failed"]
    /\ UNCHANGED <<postbox, tapes, parent, reports, tally, astray>>
FailsCall(c) ==
    /\ kid[c].pc = "calling"
    /\ kid' = [kid EXCEPT ![c].pc = "ended",
                          ![c].result = IF kid[c].stop THEN "over" ELSE "failed"]
    /\ UNCHANGED <<postbox, tapes, parent, reports, tally, astray>>
\* A departure for the checks: nothing is looked for after an answer.
AnswersBlindly(c) ==
    /\ kid[c].pc = "calling"
    /\ SaysItems(c, <<<<"answer", kid[c].run, kid[c].step>>>>,
            [kid[c] EXCEPT !.pc = "ended", !.result = "over"])
\* An answer ends the run, unless something was typed meanwhile or the model means to go on.
AnswersChild(c) ==
    /\ kid[c].pc = "calling"
    /\ LET answer == <<<<"answer", kid[c].run, kid[c].step>>>>
           next == [kid[c] EXCEPT !.box = <<>>]
       IN  \/ /\ kid[c].box # <<>>
              /\ SaysItems(c, answer \o kid[c].box, [next EXCEPT !.pc = "top"])
           \/ /\ kid[c].box = <<>>
              /\ \E pc \in {"top", "ended"} :
                    SaysItems(c, answer, [next EXCEPT !.pc = pc, !.result = "over"])
CallsForTools(c) ==
    /\ kid[c].pc = "calling"
    /\ kid' = [kid EXCEPT ![c].pc = "tools"]
    /\ UNCHANGED <<postbox, tapes, parent, reports, tally, astray>>
\* Items and results at once; an interrupt ends the run, as do rounds of failures.
EndsTools(c) ==
    /\ kid[c].pc = "tools"
    /\ LET n == 2 * kid[c].step  r == kid[c].run
       IN  \E pc \in IF kid[c].stop THEN {"ended"} ELSE {"top", "ended"} :
              SaysItems(c, <<<<"reasoning", r, n>>, <<"call", r, n>>, <<"call", r, n + 1>>,
                        <<"out", r, n>>, <<"out", r, n + 1>>>>,
                   [kid[c] EXCEPT !.pc = pc, !.result = "over"])

\* The loop has returned: the mailbox's other end goes, and the result is made, which is
\* the answer when nothing of the user follows it (final_text).
Settles(c) ==
    /\ kid[c].pc = "ended"
    /\ kid' = [kid EXCEPT
           ![c].pc = "settled",
           ![c].result = IF @ = "over" /\ ~kid[c].stop /\ Last(kid[c].talk)[1] = "answer"
                         THEN "finished" ELSE "failed"]
    /\ UNCHANGED <<postbox, tapes, parent, reports, tally, astray>>
PostsReport(c) ==
    /\ kid[c].pc = "settled"
    /\ reports' = Append(reports, Report(c))
    /\ kid' = [kid EXCEPT ![c].pc = "posted"]
    /\ UNCHANGED <<postbox, tapes, parent, tally, astray>>
\* The mailbox is dropped, whoever's it is by now, and then the flag.
DropsBox(c) ==
    /\ kid[c].pc = "posted"
    /\ postbox' = [postbox EXCEPT ![c] = 0]
    /\ kid' = [kid EXCEPT ![c].pc = "unlisted"]
    /\ UNCHANGED <<tapes, parent, reports, tally, astray>>
DropsFlag(c) ==
    /\ kid[c].pc = "unlisted"
    /\ kid' = [kid EXCEPT ![c].pc = "gone"]
    /\ UNCHANGED <<postbox, tapes, parent, reports, tally, astray>>
\* A panic drops both and posts nothing.
PanicsChild(c) ==
    /\ kid[c].pc \in AtLoop /\ Mishap
    /\ kid' = [kid EXCEPT ![c].pc = "gone"] /\ postbox' = [postbox EXCEPT ![c] = 0]
    /\ astray' = [astray EXCEPT !.silent = @ \cup {<<c, kid[c].run>>}]
    /\ UNCHANGED <<tapes, parent, reports>>

ChildStep(c) ==
    \/ BeginsStopped(c) \/ BeginsRun(c) \/ LooksInBox(c) \/ SpendsSteps(c) \/ FailsCall(c)
    \/ AnswersChild(c) \/ CallsForTools(c) \/ EndsTools(c) \/ Settles(c) \/ PostsReport(c)
    \/ DropsBox(c) \/ DropsFlag(c) \/ PanicsChild(c)
ChildNext ==
    \/ \E c \in Kids : \/ SpawnsChild(c) \/ Reopens(c) \/ StopsChild(c) \/ Types(c)
                       \/ ChildStep(c)
    \/ LandsCalls \/ ReadsReports \/ StopsAll \/ ClearsStop \/ EndsUp \/ ComesBack
ChildSpec == ChildInit /\ [][ChildNext]_childVars

(***************************************************************************)
(* What the model and the user may rely on of a child.                     *)
(***************************************************************************)
TextsOf(items, run) == SelectSeq(items, LAMBDA item : item[1] = "text" /\ item[2] = run)
\* What is typed into a pane is read once and in order, and a run that is told as finished
\* left nothing unread but what came after its last look (agent.rs steered, Mailbox).
MailRead ==
    \A c \in Kids :
        /\ kid[c].pc \in AtLoop =>
              /\ TextsOf(kid[c].talk, kid[c].run) \o kid[c].box = kid[c].mail
              /\ postbox[c] = kid[c].run
        /\ kid[c].result = "finished" => Len(kid[c].box) = kid[c].after

\* Every run that was started is running, or its report is on its way, or was read, and
\* only one of these: whoever was stopped, continued or ended with bhai.  A panic tells
\* nothing (tools/agent.rs spawn, reopen; agent.rs delivered, abandoned).
Told(c, run) ==
    Cardinality({i \in DOMAIN parent.history : parent.history[i] = <<"report", c, run>>})
    + Cardinality({i \in DOMAIN reports : reports[i] = <<"report", c, run>>})
Unreported(c, run) == kid[c].run = run /\ kid[c].pc \notin {"none", "posted", "unlisted", "gone"}
RunsAccounted ==
    parent.up =>
        \A start \in ToSet(parent.history \o parent.landing) :
            start[1] = "start" =>
                \/ <<start[2], start[3]>> \in astray.silent
                \/ astray.overtook
                \/ Told(start[2], start[3]) = (IF Unreported(start[2], start[3]) THEN 0 ELSE 1)

\* Unless a write failed or a line was cut short, a child's transcript reads back as its
\* history, over any number of runs that ended or were cut off; and whatever failed, what is
\* read back holds no call without its result (sessions.rs load_child).
Clean(c) == c \notin astray.unwritten /\ ToSet(tapes[c]) \cap {Scrap, Spoilt} = {}
TapeReadsBack ==
    \A c \in Kids :
        /\ Clean(c) /\ kid[c].pc \in AtLoop \cup {"settled", "posted"} =>
              LoadChild(tapes[c]) = kid[c].talk
        /\ LET back == LoadChild(tapes[c]) IN \A i \in DOMAIN back : ~Unmet(back, back[i])

ChildrenKept == MailRead /\ RunsAccounted /\ TapeReadsBack
=============================================================================
