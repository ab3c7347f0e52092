------------------------------- MODULE Monitors -------------------------------
(***************************************************************************)
(* monitor.rs: observers that sample a command, and the hooks that wake    *)
(* the session when a condition comes true.  Each observer is a task; its  *)
(* controls and the other observers' wakes run on other threads.  A time   *)
(* is how long ago it was, as far as a limit makes a difference.           *)
(***************************************************************************)
EXTENDS Integers, FiniteSetsExt, SequencesExt

CONSTANTS
    Never,                     \* a time that has not been
    Observers,
    HooksOf(_),                \* the hooks of an observer: [sustained, cooldown, repeat]
    Interval, WakeGap,
    RowsMax,
    MaxControls                \* bound on what the user and the model do

VARIABLES
    watches,      \* what each observer shows: listed, paused, stopped, snapshot, failures
    edges,        \* of each hook: since when true, whether fired, when last
    runner,       \* where the task of each is, and what it holds
    changed,      \* its watch channel has a change it has not seen
    lastWake,     \* when the session was last woken
    queuedWake,   \* a wake waits in the session's queue
    controls,
    armed,        \* history: the hook has been seen false, or set back, since it last woke
    streak,       \* history: for how long each sample found it true
    quiet,        \* history: since the last wake, the list never cleared
    crossed       \* history: a resume came between a sample and what was made of it

monitorVars == <<watches, edges, runner, changed, lastWake, queuedWake, controls,
                 armed, streak, quiet, crossed>>
histories == <<armed, streak, quiet, crossed>>

HookIds(m) == DOMAIN HooksOf(m)
NoSample == [status |-> "none", active |-> {}]
Samples(m) ==
    [status : {"running", "done"}, active : SUBSET HookIds(m)] \cup {[status |-> "error", active |-> {}]}
FreshRow(m) == [since |-> Never, fired |-> FALSE, last |-> Never]

MonitorInit ==
    /\ watches = [m \in Observers |-> [listed |-> FALSE, paused |-> FALSE, stopped |-> FALSE,
                                       snapshot |-> NoSample, failed |-> FALSE]]
    /\ edges = [m \in Observers |-> [h \in HookIds(m) |-> FreshRow(m)]]
    /\ runner = [m \in Observers |-> [pc |-> "none", sample |-> NoSample, ready |-> <<>>,
                                      nap |-> 0]]
    /\ changed = [m \in Observers |-> FALSE]
    /\ lastWake = Never /\ queuedWake = FALSE /\ controls = 0
    /\ armed = [m \in Observers |-> [h \in HookIds(m) |-> TRUE]]
    /\ streak = [m \in Observers |-> [h \in HookIds(m) |-> Never]]
    /\ quiet = WakeGap /\ crossed = [m \in Observers |-> FALSE]

-----------------------------------------------------------------------------
(* Time, as ages that stop at the limit they are compared with. *)

Older(age, limit) == IF age = Never \/ age >= limit THEN age ELSE age + 1
Past(age, limit) == IF age = Never THEN TRUE ELSE age >= limit
\* What waits for a lock does not wait for long.
Prompt(m) == runner[m].pc \in {"sampled", "waking", "waked"}
TimePasses ==
    /\ \A m \in Observers : ~Prompt(m)
    /\ edges' = [m \in Observers |-> [h \in HookIds(m) |->
                    [edges[m][h] EXCEPT !.since = Older(@, HooksOf(m)[h].sustained),
                                        !.last = Older(@, HooksOf(m)[h].cooldown)]]]
    /\ streak' = [m \in Observers |-> [h \in HookIds(m) |->
                    Older(streak[m][h], HooksOf(m)[h].sustained)]]
    /\ runner' = [m \in Observers |->
                    [runner[m] EXCEPT !.nap = IF @ > 0 THEN @ - 1 ELSE 0]]
    /\ lastWake' = Older(lastWake, WakeGap) /\ quiet' = Older(quiet, WakeGap)
    /\ UNCHANGED <<watches, changed, queuedWake, controls, armed, crossed>>

\* Edge::ready: what the hook is once the condition has been seen.
Seen(edge, active) ==
    IF ~active THEN [edge EXCEPT !.since = Never, !.fired = FALSE]
    ELSE IF edge.since = Never THEN [edge EXCEPT !.since = 0] ELSE edge
HookReady(edge, active, hook) ==
    /\ active
    /\ ~edge.fired \/ hook.repeat
    /\ Seen(edge, active).since >= hook.sustained
    /\ Past(edge.last, hook.cooldown)

-----------------------------------------------------------------------------
(* What the user and the model do. *)

Changes(ms) == changed' = [m \in Observers |-> changed[m] \/ m \in ms]

AddMonitor(m) ==
    /\ runner[m].pc = "none"
    /\ Cardinality({n \in Observers : watches[n].listed}) < RowsMax
    /\ watches' = [watches EXCEPT ![m].listed = TRUE]
    /\ runner' = [runner EXCEPT ![m].pc = "top"]
    /\ UNCHANGED <<controls, edges, changed, lastWake, queuedWake, histories>>

Runs(m) == ~watches[m].stopped /\ watches[m].snapshot.status \in {"none", "running"}
Controls(m) ==
    /\ watches[m].listed /\ controls < MaxControls
    /\ controls' = controls + 1
    /\ Changes({m})

\* A pause sets the hooks back, to wake again when their condition is next seen.
PauseMonitor(m) ==
    /\ Controls(m) /\ Runs(m)
    /\ watches' = [watches EXCEPT ![m].paused = TRUE]
    /\ edges' = [edges EXCEPT ![m] = [h \in HookIds(m) |->
                    [@[h] EXCEPT !.since = Never, !.fired = FALSE]]]
    /\ armed' = [armed EXCEPT ![m] = [h \in HookIds(m) |-> TRUE]]
    /\ streak' = [streak EXCEPT ![m] = [h \in HookIds(m) |-> Never]]
    /\ UNCHANGED <<runner, lastWake, queuedWake, quiet, crossed>>
ResumeMonitor(m) ==
    /\ Controls(m) /\ Runs(m)
    /\ watches' = [watches EXCEPT ![m].paused = FALSE]
    /\ crossed' = [crossed EXCEPT ![m] = @ \/ runner[m].pc = "sampled"]
    /\ UNCHANGED <<edges, runner, lastWake, queuedWake, armed, streak, quiet>>
StopMonitor(m, dismiss) ==
    /\ Controls(m)
    /\ watches' = [watches EXCEPT ![m].stopped = TRUE, ![m].listed = ~dismiss]
    /\ UNCHANGED <<edges, runner, lastWake, queuedWake, histories>>

\* /clear: every observer is stopped and forgotten, and with them the last wake.
ClearMonitors ==
    /\ controls < MaxControls
    /\ controls' = controls + 1
    /\ LET listed == {m \in Observers : watches[m].listed}
       IN  /\ listed # {}
           /\ Changes(listed)
           /\ watches' = [m \in Observers |->
                  IF m \in listed THEN [watches[m] EXCEPT !.stopped = TRUE, !.listed = FALSE]
                  ELSE watches[m]]
    /\ lastWake' = Never /\ quiet' = WakeGap
    /\ UNCHANGED <<edges, runner, queuedWake, armed, streak, crossed>>

\* The session hands the queued wake to its agent.
TakesWake ==
    /\ queuedWake /\ queuedWake' = FALSE
    /\ UNCHANGED <<watches, edges, runner, changed, lastWake, controls, histories>>

-----------------------------------------------------------------------------
(* The task of an observer. *)

To(m, pc) == runner' = [runner EXCEPT ![m].pc = pc]
Sees(m) == changed' = [changed EXCEPT ![m] = FALSE]
KeepsRow == UNCHANGED <<lastWake, queuedWake, controls>>

Top(m) ==
    /\ runner[m].pc = "top"
    /\ To(m, IF watches[m].stopped THEN "over"
             ELSE IF watches[m].paused THEN "paused" ELSE "sampling")
    /\ UNCHANGED <<watches, edges, changed, histories>> /\ KeepsRow

\* Paused or napping, until a change or the time is up.
Wakes(m) ==
    /\ runner[m].pc = "paused" \/ (runner[m].pc = "nap" /\ (changed[m] \/ runner[m].nap = 0))
    /\ To(m, "top") /\ Sees(m)
    /\ UNCHANGED <<watches, edges, histories>> /\ KeepsRow

\* The command: a change cuts it short, otherwise it comes back with something.
CutShort(m) ==
    /\ runner[m].pc = "sampling" /\ changed[m]
    /\ To(m, "top") /\ Sees(m)
    /\ UNCHANGED <<watches, edges, histories>> /\ KeepsRow
Sampled(m) ==
    /\ runner[m].pc = "sampling" /\ ~changed[m]
    /\ \E s \in Samples(m) : runner' = [runner EXCEPT ![m].pc = "sampled", ![m].sample = s]
    /\ crossed' = [crossed EXCEPT ![m] = FALSE]
    /\ UNCHANGED <<watches, edges, changed, armed, streak, quiet>> /\ KeepsRow

\* Mutant: a failed sample lets the condition have held all along.
FailsKeeping(m) ==
    /\ watches' = [watches EXCEPT ![m].failed = TRUE]
    /\ streak' = [streak EXCEPT ![m] = [h \in HookIds(m) |-> Never]]
    /\ runner' = [runner EXCEPT ![m] = [pc |-> "waking", sample |-> NoSample, ready |-> <<>>,
                                       nap |-> 2 * Interval]]
    /\ UNCHANGED <<edges, armed>>
SampleFails(m) ==
    /\ watches' = [watches EXCEPT ![m].failed = TRUE]
    /\ edges' = [edges EXCEPT ![m] = [h \in HookIds(m) |-> [@[h] EXCEPT !.since = Never]]]
    /\ streak' = [streak EXCEPT ![m] = [h \in HookIds(m) |-> Never]]
    /\ runner' = [runner EXCEPT ![m] = [pc |-> "waking", sample |-> NoSample, ready |-> <<>>,
                                       nap |-> 2 * Interval]]
    /\ UNCHANGED armed
Shows(m) ==
    LET active(h) == h \in runner[m].sample.active
    IN  /\ watches' = [watches EXCEPT ![m].snapshot = runner[m].sample, ![m].failed = FALSE]
        /\ edges' = [edges EXCEPT ![m] = [h \in HookIds(m) |-> Seen(@[h], active(h))]]
        /\ streak' = [streak EXCEPT ![m] = [h \in HookIds(m) |->
                        IF ~active(h) THEN Never ELSE IF @[h] = Never THEN 0 ELSE @[h]]]
        /\ armed' = [armed EXCEPT ![m] = [h \in HookIds(m) |-> @[h] \/ ~active(h)]]
        /\ runner' = [runner EXCEPT ![m] =
               [pc |-> "waking", sample |-> NoSample, nap |-> Interval,
                ready |-> SetToSortSeq({h \in HookIds(m) : HookReady(edges[m][h], active(h), HooksOf(m)[h])},
                                       <)]]

\* The sample is looked at under the observer's lock.
Taken(m) ==
    /\ runner[m].pc = "sampled"
    /\ IF watches[m].stopped \/ watches[m].paused
       THEN /\ runner' = [runner EXCEPT ![m].pc = IF watches[m].stopped THEN "over" ELSE "top",
                                        ![m].sample = NoSample]
            /\ UNCHANGED <<watches, edges, armed, streak>>
       ELSE IF runner[m].sample.status = "error" THEN SampleFails(m) ELSE Shows(m)
    /\ UNCHANGED <<changed, quiet, crossed>> /\ KeepsRow

\* Mutant: the other observers' wakes are not looked at.
MayWakeAlone(m) == ~watches[m].stopped /\ ~watches[m].paused
MayWake(m) ==
    /\ ~watches[m].stopped /\ ~watches[m].paused
    /\ Past(lastWake, WakeGap)
    /\ ~queuedWake

\* wake: refused, or the prompt is taken by the session, waiting there or not.
Wake(m) ==
    /\ runner[m].pc = "waking" /\ runner[m].ready # <<>>
    /\ LET h == Head(runner[m].ready)
       IN  \/ /\ runner' = [runner EXCEPT ![m].ready = Tail(@)]
              /\ UNCHANGED <<lastWake, queuedWake, armed, quiet>>
           \/ /\ MayWake(m)
              /\ To(m, "waked")
              /\ lastWake' = 0 /\ quiet' = 0 /\ queuedWake' \in BOOLEAN
              /\ armed' = [armed EXCEPT ![m][h] = FALSE]
    /\ UNCHANGED <<watches, edges, changed, controls, streak, crossed>>
Marked(m) ==
    /\ runner[m].pc = "waked"
    /\ LET h == Head(runner[m].ready)
       IN  /\ edges' = [edges EXCEPT ![m][h].fired = TRUE, ![m][h].last = 0]
           /\ runner' = [runner EXCEPT ![m].pc = "waking", ![m].ready = Tail(@)]
    /\ UNCHANGED <<watches, changed, histories>> /\ KeepsRow

\* A last snapshot is kept, and the hooks it found true are tried again.
Ended(m) == watches[m].snapshot.status = "done" /\ ~watches[m].failed
Pending(m) ==
    {h \in HookIds(m) : h \in watches[m].snapshot.active /\ ~edges[m][h].fired}
Waked(m) ==
    /\ runner[m].pc = "waking" /\ runner[m].ready = <<>>
    /\ runner' = [runner EXCEPT
           ![m].pc = IF ~Ended(m) THEN "nap"
                     ELSE IF watches[m].stopped \/ Pending(m) = {} THEN "over" ELSE "ended",
           ![m].nap = IF Ended(m) THEN 1 ELSE @]
    /\ UNCHANGED <<watches, edges, changed, histories>> /\ KeepsRow

\* Mutant: what is left of a hook after the last sample is not tried again.
RetryNever(m) == /\ runner[m].pc = "ended" /\ To(m, "over")
                 /\ UNCHANGED <<watches, edges, changed, histories>> /\ KeepsRow
Retry(m) ==
    /\ runner[m].pc = "ended"
    /\ \/ /\ changed[m] /\ To(m, "over") /\ UNCHANGED edges
       \/ /\ ~watches[m].stopped /\ runner[m].nap = 0
          /\ edges' = [edges EXCEPT ![m] = [h \in HookIds(m) |->
                          IF h \in Pending(m) THEN Seen(@[h], TRUE) ELSE @[h]]]
          /\ runner' = [runner EXCEPT ![m].pc = "waking", ![m].ready =
                 SetToSortSeq({h \in Pending(m) : HookReady(edges[m][h], TRUE, HooksOf(m)[h])}, <)]
       \/ watches[m].stopped /\ runner[m].nap = 0 /\ To(m, "over") /\ UNCHANGED edges
    /\ UNCHANGED <<watches, changed, histories>> /\ KeepsRow

Observes(m) ==
    \/ Top(m) \/ Wakes(m) \/ CutShort(m) \/ Sampled(m) \/ Taken(m)
    \/ Wake(m) \/ Marked(m) \/ Waked(m) \/ Retry(m)

UserControls ==
    \/ \E m \in Observers :
          \/ AddMonitor(m) \/ PauseMonitor(m) \/ ResumeMonitor(m)
          \/ \E dismiss \in BOOLEAN : StopMonitor(m, dismiss)
    \/ ClearMonitors

MonitorNext ==
    \/ \E m \in Observers : Observes(m)
    \/ UserControls \/ TakesWake \/ TimePasses

(***************************************************************************)
(* When an observer may wake the session, and when it has to.              *)
(***************************************************************************)
Woke(m, h) ==
    runner[m].pc = "waking" /\ runner'[m].pc = "waked" /\ Head(runner[m].ready) = h

\* A hook that does not repeat wakes once for each time its condition comes true, however
\* samples, pauses and the marking of an earlier wake fall (monitor.rs Edge, wake).
WakesOnce(m, h) == Woke(m, h) => HooksOf(m)[h].repeat \/ armed[m][h]

\* A hook is ready only when every sample has found it true for as long as it asks, none
\* of them failed and no pause came between (monitor.rs Edge::ready).
HeldLong(m) ==
    runner[m].ready = <<>> =>
        \A h \in Range(runner'[m].ready) : streak'[m][h] >= HooksOf(m)[h].sustained

\* The observers of a session wake it no more often than one could (monitor.rs wake).
WakesApart(m) == (\E h \in HookIds(m) : Woke(m, h)) => quiet >= WakeGap /\ ~queuedWake

HookWakes ==
    [][\A m \in Observers :
          /\ HeldLong(m) /\ WakesApart(m)
          /\ \A h \in HookIds(m) : WakesOnce(m, h)]_monitorVars

\* Fairness: the tasks are scheduled, time passes, the session takes what is queued and
\* does not refuse for ever.
AcceptedAt(m) == Wake(m) /\ runner'[m].pc = "waked"
MonitorFairness ==
    /\ \A m \in Observers : WF_monitorVars(Observes(m)) /\ SF_monitorVars(AcceptedAt(m))
    /\ WF_monitorVars(TimePasses) /\ WF_monitorVars(TakesWake)

\* A hook found true by the last sample wakes the session, once the other observers leave
\* it alone, unless its user stops it: "pending hooks retry without sampling" (monitor.rs
\* 665).  A resume just between the sample and its being looked at is excused.
EndIsTold ==
    \A m \in Observers :
        (\A n \in Observers \ {m} : <>[](runner[n].pc # "waked"))
            => \A h \in HookIds(m) :
                  Ended(m) /\ h \in Pending(m) /\ ~crossed[m]
                      ~> edges[m][h].fired \/ watches[m].stopped
=============================================================================
