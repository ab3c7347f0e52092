------------------------------- MODULE Commands -------------------------------
(***************************************************************************)
(* tools/bash.rs and tools/stdin.rs: commands that run past their call as  *)
(* sessions, the tasks that read their output, the polls that take it, and *)
(* what ends them: an interrupt, the user, room made for another, /clear,  *)
(* bhai's own end, by itself or by a signal.  A command is its process     *)
(* group: the shell that leads it, and a job the shell may leave behind.   *)
(***************************************************************************)
EXTENDS Integers, SequencesExt

CONSTANTS
    Commands,        \* the bash calls of a run
    MaxSessions,     \* commands kept running at once
    Yield,           \* ticks a call or a poll waits
    StopGrace,       \* ticks from the user's ctrl-c to the kill
    MaxChunks        \* of each command, a bound on the pieces it prints
ASSUME CommandsAssumption == MaxSessions \in Nat \ {0} /\ Yield \in Nat /\ StopGrace \in Nat

VARIABLES
    group,       \* of each command: its leader, its job, and the pieces it has printed
    pipe,        \* what the readers have moved and no result has taken
    given,       \* what the results have told the model
    work,        \* the call that starts or polls it, and when that yields
    table,       \* the sessions kept, the one used least recently first
    userStops,   \* the user's stop: asked for, or under way for so long
    bhai,        \* up; leaving or gone by itself; dying or dead of a signal
    misfired,    \* history: a signal was sent to a group whose leader was reaped
    ended,       \* history: a last result was told, and how
    keptLate,    \* history: kept after everything kept was killed
    bereft       \* history: no session yet, or no more, when a signal killed bhai

commandVars ==
    <<group, pipe, given, work, table, userStops, bhai, misfired, ended, keptLate, bereft>>

CommandInit ==
    /\ group = [c \in Commands |-> [leader |-> "none", job |-> FALSE, printed |-> 0, eof |-> FALSE]]
    /\ pipe = [c \in Commands |-> <<>>] /\ given = [c \in Commands |-> <<>>]
    /\ work = [c \in Commands |-> [pc |-> "none", left |-> 0]]
    /\ table = <<>> /\ userStops = [c \in Commands |-> [pc |-> "none", age |-> 0]]
    /\ bhai = "up" /\ misfired = FALSE
    /\ ended = [c \in Commands |-> "no"] /\ keptLate = {} /\ bereft = {}

KeptSession(c) == c \in Range(table)
Forget(c) ==
    IF KeptSession(c) THEN RemoveAt(table, CHOOSE i \in DOMAIN table : table[i] = c) ELSE table
Lives(c) == group[c].leader = "running" \/ group[c].job
CallOpen(c) == work[c].pc \in {"starting", "polling"}
Killed(g) == [g EXCEPT !.leader = IF @ = "running" THEN "zombie" ELSE @, !.job = FALSE]
Reaped(g) == [Killed(g) EXCEPT !.leader = "reaped"]
\* kill_group, on a group whose number another process may have by now or not.
Misfires(cs) == misfired' = (misfired \/ \E c \in cs : group[c].leader = "reaped" /\ ~group[c].job)

-----------------------------------------------------------------------------
(* The command and the tasks that read it. *)

Prints(c) ==
    /\ Lives(c) /\ group[c].printed < MaxChunks[c]
    /\ group' = [group EXCEPT ![c].printed = @ + 1]
    /\ UNCHANGED <<pipe, given, work, table, userStops, bhai, misfired, ended, keptLate, bereft>>
Exits(c) ==
    /\ group[c].leader = "running"
    /\ \E job \in BOOLEAN : group' = [group EXCEPT ![c].leader = "zombie", ![c].job = job]
    /\ UNCHANGED <<pipe, given, work, table, userStops, bhai, misfired, ended, keptLate, bereft>>
JobEnds(c) ==
    /\ group[c].leader # "running" /\ group[c].job
    /\ group' = [group EXCEPT ![c].job = FALSE]
    /\ UNCHANGED <<pipe, given, work, table, userStops, bhai, misfired, ended, keptLate, bereft>>
ReadSoFar(c) == Len(given[c]) + Len(pipe[c])
Reads(c) ==
    /\ ReadSoFar(c) < group[c].printed /\ ended[c] = "no" /\ bhai \notin {"gone", "dead"}
    /\ pipe' = [pipe EXCEPT ![c] = Append(@, ReadSoFar(c) + 1)]
    /\ UNCHANGED <<group, given, work, table, userStops, bhai, misfired, ended, keptLate, bereft>>
ReachesEnd(c) ==
    /\ group[c].leader \in {"zombie", "reaped"} /\ ~group[c].job /\ ~group[c].eof
    /\ ReadSoFar(c) = group[c].printed
    /\ group' = [group EXCEPT ![c].eof = TRUE]
    /\ UNCHANGED <<pipe, given, work, table, userStops, bhai, misfired, ended, keptLate, bereft>>

-----------------------------------------------------------------------------
(* The call that starts a command, and the polls that go on with it. *)

\* Mutant: what a result tells goes before what was told.
TakeBack(c) == given' = [given EXCEPT ![c] = pipe[c] \o @] /\ pipe' = [pipe EXCEPT ![c] = <<>>]
\* Mutant: a result leaves what it told to the next.
TakeCopy(c) == given' = [given EXCEPT ![c] = @ \o pipe[c]] /\ UNCHANGED pipe
Take(c) == given' = [given EXCEPT ![c] = @ \o pipe[c]] /\ pipe' = [pipe EXCEPT ![c] = <<>>]
Tells(c, how) == ended' = [ended EXCEPT ![c] = how]
Over(c) == work' = [work EXCEPT ![c] = [pc |-> "none", left |-> 0]]

\* While a signal kills it, bhai goes on as before.
Serving == bhai \in {"up", "dying"}
StartCommand(c) ==
    /\ Serving /\ group[c].leader = "none"
    /\ group' = [group EXCEPT ![c].leader = "running"]
    /\ work' = [work EXCEPT ![c] = [pc |-> "starting", left |-> Yield]]
    /\ UNCHANGED <<pipe, given, table, userStops, bhai, misfired, ended, keptLate, bereft>>
\* write: the session is looked up, and used last; then its proc is waited for.
PollCommand(c) ==
    /\ Serving /\ KeptSession(c) /\ work[c].pc = "none"
    /\ work' = [work EXCEPT ![c] = [pc |-> "waiting", left |-> 0]]
    /\ table' = Append(Forget(c), c)
    /\ UNCHANGED <<group, pipe, given, userStops, bhai, misfired, ended, keptLate, bereft>>
LocksProc(c) ==
    /\ work[c].pc = "waiting" /\ userStops[c].pc # "grace"
    /\ work' = [work EXCEPT ![c].pc = "polling", ![c].left = Yield]
    /\ UNCHANGED <<group, pipe, given, table, userStops, bhai, misfired, ended, keptLate, bereft>>
\* The shell has exited: it is reaped, and its output drained for a while.
SeesExit(c) ==
    /\ CallOpen(c) /\ group[c].leader = "zombie"
    /\ group' = [group EXCEPT ![c].leader = "reaped"]
    /\ work' = [work EXCEPT ![c].left = 1]
    /\ UNCHANGED <<pipe, given, table, userStops, bhai, misfired, ended, keptLate, bereft>>
\* Mutant: the user's stop waits for the poll to yield.
StopSeenLate(c) == FALSE
StopSeen(c) == userStops[c].pc # "none"
Drained(c) == group[c].eof \/ work[c].left = 0
Finishes(c) ==
    /\ CallOpen(c)
    /\ \/ StopSeen(c)
       \/ group[c].leader = "reaped" /\ Drained(c)
    /\ Take(c) /\ Over(c)
    /\ table' = Forget(c)
    /\ Tells(c, IF StopSeen(c) THEN "stopped" ELSE IF group[c].eof THEN "whole" ELSE "drained")
    /\ UNCHANGED <<group, userStops, bhai, misfired, keptLate, bereft>>
\* The time is up: what it printed so far is told.
Yields(c) ==
    /\ CallOpen(c) /\ group[c].leader \in {"running", "zombie"} /\ work[c].left = 0
    /\ ~StopSeen(c) /\ Take(c)
    /\ work' = [work EXCEPT ![c].pc = IF @ = "polling" THEN "none" ELSE "keeping"]
    /\ UNCHANGED <<group, table, userStops, bhai, misfired, ended, keptLate, bereft>>
\* keep: room is made by killing the sessions used least recently.
Oldest == SubSeq(table, 1, Len(table) - MaxSessions + 1)
Keep(c) ==
    /\ work[c].pc = "keeping"
    /\ LET evicted == Range(Oldest)
       IN  /\ group' = [d \in Commands |-> IF d \in evicted THEN Killed(group[d]) ELSE group[d]]
           /\ table' = Append(SubSeq(table, Len(Oldest) + 1, Len(table)), c)
           /\ Misfires({d \in evicted : ~(group[d].leader = "reaped" /\ CallOpen(d))})
    /\ Over(c)
    /\ keptLate' = IF bhai = "up" THEN keptLate ELSE keptLate \cup {c}
    /\ UNCHANGED <<pipe, given, userStops, bhai, ended, bereft>>
\* The turn is interrupted: the group is killed, and the result told.
InterruptCall(c) ==
    /\ CallOpen(c) /\ group[c].leader \in {"running", "zombie"}
    /\ group' = [group EXCEPT ![c] = Reaped(@)] /\ Misfires({c})
    /\ Take(c) /\ Over(c) /\ table' = Forget(c) /\ Tells(c, "cut")
    /\ UNCHANGED <<userStops, bhai, keptLate, bereft>>

-----------------------------------------------------------------------------
(* The user's stop: a ctrl-c, and the kill a little later. *)

Stop(c) ==
    /\ Serving /\ KeptSession(c)
    /\ table' = Forget(c)
    /\ userStops' = [userStops EXCEPT ![c].pc = "asked"]
    /\ UNCHANGED <<group, pipe, given, work, bhai, misfired, ended, keptLate, bereft>>
\* ctrl-c once the proc is let go of: a shell may take it, a job need not.  Once a poll
\* has seen the shell's exit the stop is over, and a job the shell left runs on.
InterruptsGroup(c) ==
    /\ userStops[c].pc = "asked" /\ ~CallOpen(c)
    /\ IF group[c].leader = "reaped"
       THEN userStops' = [userStops EXCEPT ![c].pc = "moot"] /\ UNCHANGED <<group, misfired>>
       ELSE /\ userStops' = [userStops EXCEPT ![c].pc = "grace"] /\ Misfires({c})
            /\ group' \in {group, [group EXCEPT ![c].leader = "zombie"]}
    /\ UNCHANGED <<pipe, given, work, table, bhai, ended, keptLate, bereft>>
\* Mutant: a leader that ctrl-c ended is left at that.
StopKillsLeader(c) ==
    /\ userStops[c].pc = "grace" /\ (group[c].leader # "running" \/ userStops[c].age >= StopGrace)
    /\ userStops' = [userStops EXCEPT ![c].pc = "over"]
    /\ group' = [group EXCEPT ![c].leader = "reaped"]
    /\ UNCHANGED <<pipe, given, work, table, bhai, misfired, ended, keptLate, bereft>>
StopKillsGroup(c) ==
    /\ userStops[c].pc = "grace" /\ (group[c].leader # "running" \/ userStops[c].age >= StopGrace)
    /\ userStops' = [userStops EXCEPT ![c].pc = "over"]
    /\ group' = [group EXCEPT ![c] = Reaped(@)] /\ Misfires({c})
    /\ UNCHANGED <<pipe, given, work, table, bhai, ended, keptLate, bereft>>

-----------------------------------------------------------------------------
(* /clear, and bhai's own end. *)

KillAll ==
    /\ group' = [c \in Commands |-> IF KeptSession(c) THEN Killed(group[c]) ELSE group[c]]
    /\ Misfires({c \in Range(table) : ~(group[c].leader = "reaped" /\ CallOpen(c))})
    /\ table' = <<>>
Clear ==
    /\ Serving /\ table # <<>> /\ KillAll
    /\ UNCHANGED <<pipe, given, work, userStops, bhai, ended, keptLate, bereft>>
Leaves ==
    /\ bhai = "up" /\ bhai' = "leaving" /\ KillAll
    /\ UNCHANGED <<pipe, given, work, userStops, ended, keptLate, bereft>>
\* The tasks are dropped, and with each a proc that nothing keeps.
\* Mutant: a proc that is dropped leaves its group running.
DroppedRuns == UNCHANGED group
Dropped ==
    group' = [c \in Commands |->
        IF ~KeptSession(c) /\ group[c].leader \in {"running", "zombie"} THEN Killed(group[c]) ELSE group[c]]
BhaiGone ==
    /\ bhai = "leaving" /\ bhai' = "gone"
    /\ Dropped
    /\ work' = [c \in Commands |-> [pc |-> "none", left |-> 0]]
    /\ userStops' = [c \in Commands |-> [pc |-> "none", age |-> 0]]
    /\ UNCHANGED <<pipe, given, table, misfired, ended, keptLate, bereft>>

\* kill_all_on_signal: a signal no session took, or a second one, kills what is kept; bhai
\* dies of it once its worktrees are settled, and drops nothing.
\* Mutant: the signal is left to kill bhai alone.
SignalSpares == bhai \in {"up", "leaving"} /\ UNCHANGED <<group, misfired, table>>
SignalKills == bhai \in {"up", "leaving"} /\ KillAll
Signalled ==
    /\ SignalKills /\ bhai' = "dying"
    /\ UNCHANGED <<pipe, given, work, userStops, ended, keptLate, bereft>>
DiesOfSignal ==
    /\ bhai = "dying" /\ bhai' = "dead"
    /\ bereft' = {c \in Commands : work[c].pc \in {"starting", "keeping"}
                                     \/ userStops[c].pc \in {"asked", "grace"}}
    /\ work' = [c \in Commands |-> [pc |-> "none", left |-> 0]]
    /\ userStops' = [c \in Commands |-> [pc |-> "none", age |-> 0]]
    /\ UNCHANGED <<group, pipe, given, table, misfired, ended, keptLate>>

\* A tick is long: nothing that is ready waits for one.
ReadyPiece(c) ==
    \/ work[c].pc = "waiting" /\ userStops[c].pc # "grace"
    \/ CallOpen(c) /\ (group[c].leader = "zombie" \/ work[c].left = 0 \/ StopSeen(c))
    \/ work[c].pc = "keeping" \/ (userStops[c].pc = "asked" /\ ~CallOpen(c))
    \/ userStops[c].pc = "grace" /\ (group[c].leader # "running" \/ userStops[c].age >= StopGrace)
Tick ==
    /\ \A c \in Commands : ~ReadyPiece(c)
    /\ \E c \in Commands : CallOpen(c) \/ userStops[c].pc \in {"asked", "grace"}
    /\ work' = [c \in Commands |-> [work[c] EXCEPT !.left = IF @ > 0 THEN @ - 1 ELSE 0]]
    /\ userStops' = [c \in Commands |->
           [userStops[c] EXCEPT !.age = IF userStops[c].pc \in {"asked", "grace"} /\ @ < StopGrace + 2
                                    THEN @ + 1 ELSE @]]
    /\ UNCHANGED <<group, pipe, given, table, bhai, misfired, ended, keptLate, bereft>>

CommandSteps(c) ==
    \/ Prints(c) \/ Exits(c) \/ JobEnds(c) \/ Reads(c) \/ ReachesEnd(c)
    \/ StartCommand(c) \/ PollCommand(c) \/ LocksProc(c) \/ SeesExit(c) \/ Finishes(c)
    \/ Yields(c) \/ Keep(c) \/ InterruptCall(c) \/ Stop(c) \/ InterruptsGroup(c) \/ StopKillsGroup(c)
CommandNext == (\E c \in Commands : CommandSteps(c)) \/ Clear \/ Leaves \/ BhaiGone
    \/ Signalled \/ DiesOfSignal \/ Tick
CommandSpec == CommandInit /\ [][CommandNext]_commandVars

-----------------------------------------------------------------------------
(* What holds of the commands and their output. *)

InOrder(s) == \A i \in DOMAIN s : s[i] = i
\* Each piece of a command's output is told once and in order, however calls, polls and
\* the readers fall (tools/bash.rs take), and all of it by a result that saw its end.
OutputTold ==
    \A c \in Commands :
        /\ InOrder(given[c] \o pipe[c])
        /\ ended[c] = "whole" => Len(given[c]) = group[c].printed

\* A group is signalled only while its number is its own: "unreaped, the leader keeps the
\* group id from reuse" (tools/bash.rs 1134).  Room made for another, /clear and the end
\* of bhai are excused while the last poll of a command drains its output.
KillsOwn == ~misfired
\* A command the user stops is dead, its jobs with it, StopGrace after, also when a poll
\* was waiting on it (tools/bash.rs 1096-1138).  A job outlives the stop only where a poll
\* had seen the shell's exit before the stop's task had the proc (1114), and told it.
StopsInTime ==
    \A c \in Commands :
        /\ userStops[c].pc = "over" => ~Lives(c)
        /\ userStops[c].age > StopGrace /\ Lives(c) => userStops[c].pc = "moot"
        /\ userStops[c].pc = "moot" => group[c].leader = "reaped" /\ ended[c] # "no"
\* No command runs on once bhai is gone, one that became a session after the sessions were
\* killed aside, and what a command that had ended left in the background.  A bhai killed by
\* a signal leaves running, besides those, only what was no session when it died: a call not
\* yet or never kept, and a session its user was stopping (tools/bash.rs 1170-1209).
NoneLeftRunning ==
    \A c \in Commands :
        Lives(c) /\ group[c].leader # "reaped" /\ c \notin keptLate =>
            bhai # "gone" /\ (bhai = "dead" => c \in bereft)
CommandsEnd == KillsOwn /\ StopsInTime /\ NoneLeftRunning

\* A command's output is told once, in order and whole, and the command is killed when it
\* must be and never after its group is another's.
CommandsKept == OutputTold /\ CommandsEnd
=============================================================================
