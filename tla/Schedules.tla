------------------------------ MODULE Schedules ------------------------------
(***************************************************************************)
(* schedules.rs: the prompts a session leaves itself, in a file that       *)
(* outlives it, and the runner that fires each as it falls due.  A change  *)
(* reads the clock first and takes the store's lock after; under the lock  *)
(* it is one step, as the file is written aside and renamed.               *)
(***************************************************************************)
EXTENDS Integers, FiniteSets, FiniteSetsExt, Sequences

CONSTANTS
    None,
    Horizon,      \* bound: the last instant looked at
    Day,          \* length of a day
    Ahead,        \* how far the wall clock is ahead of time, at each instant
    AskedFor,        \* what may be asked for: [spec, times, lasts, model]
    Nap,          \* NAP: the longest the runner sleeps
    MaxModel,     \* MODEL_ROWS_MAX
    Doers,        \* changes under way at once: the user's commands, the model's calls
    MaxNow, MaxRows, MaxOps, MaxStarts, MaxFails   \* bounds

-----------------------------------------------------------------------------
(* schedule.rs: the next fire of a spec after an instant, on a wall clock  *)
(* that is put forward and back.  An instant reads as one local time; a    *)
(* local time is read at one instant, at two, or at none.                  *)

Instants == 0 .. Horizon
Local(t) == t + Ahead[t]
Locals == 0 .. Local(Horizon)
ReadsAs(local) == {t \in Instants : Local(t) = local}

\* Mutant: of the two passes of a repeated time the later is taken, as chrono lists it first.
ResolveLater ==
    [local \in Locals |-> Max(ReadsAs(Min({l \in local .. Local(Horizon) : ReadsAs(l) # {}})))]
\* A repeated time is its first pass, a skipped one the next that exists.
Resolve ==
    [local \in Locals |-> Min(ReadsAs(Min({l \in local .. Local(Horizon) : ReadsAs(l) # {}})))]

\* The first of some local times, in their order, that names an instant after t.
FirstAfter(locals, t) ==
    LET later == {l \in locals : Resolve[l] > t}
    IN  IF later = {} THEN None ELSE Resolve[Min(later)]

Today(t) == Local(t) \div Day
CronAfter(times, t) == FirstAfter({l \in Locals : l > Local(t) /\ l % Day \in times}, t)
AtAfter(time, t) ==
    FirstAfter({l \in Locals : l % Day = time /\ l \div Day \in Today(t) .. Today(t) + 2}, t)

Recurs(spec) == spec.kind \in {"every", "cron"}
NextAfter(spec, t) ==
    IF spec.kind = "cron" THEN CronAfter(spec.times, t)
    ELSE IF spec.kind = "at" THEN AtAfter(spec.time, t)
    ELSE t + spec.step

-----------------------------------------------------------------------------
VARIABLES
    now,
    rows,         \* the store: the rows by id, which are drawn in order
    runner,       \* where the runner is
    doing,        \* the change each doer is about to make, with the time it read
    drawn, ops, starts, fails,
    fired,        \* history: what reached the session, in order
    began         \* history: when this start was, or None once a pass of it failed first

store == <<rows, drawn>>
history == <<fired, began>>
scheduleVars == <<now, rows, runner, doing, drawn, ops, starts, fails, fired, began>>

\* at: off, about to read the store, handing its claims to the session, asleep.
Off == [at |-> "off", startup |-> FALSE, fires |-> {}, wake |-> None, poked |-> FALSE]
Quiet == [op |-> "none", id |-> 0, ask |-> None, now |-> 0]

\* Some of what the bounds allow may be used up.
SchedulesInit ==
    /\ now = 0 /\ rows = <<>> /\ drawn = 0
    /\ runner = Off
    /\ doing = [d \in Doers |-> Quiet]
    /\ ops \in 0 .. MaxOps /\ starts \in 0 .. MaxStarts /\ fails \in 0 .. MaxFails
    /\ fired = <<>> /\ began = None

With(id, row) == [i \in DOMAIN rows \cup {id} |-> IF i = id THEN row ELSE rows[i]]
WithoutRows(f, ids) == [i \in DOMAIN f \ ids |-> f[i]]

\* A row is taken for one bhai wrote only if it was set by then.
Known(row, at) == row.created <= at

-----------------------------------------------------------------------------
(* Setting a schedule, and what is done with it. *)

\* prepare: whether what is asked for at t can be, and the row it is.
Ends(ask, t) == IF Recurs(ask.spec) THEN t + ask.lasts ELSE None
Prepares(ask, t) ==
    LET next == NextAfter(ask.spec, t)
    IN  next # None /\ (Ends(ask, t) = None \/ next <= Ends(ask, t))
Prepared(ask, t) ==
    [spec |-> ask.spec, model |-> ask.model, created |-> t, next |-> NextAfter(ask.spec, t),
     left |-> IF Recurs(ask.spec) THEN ask.times ELSE None, expires |-> Ends(ask, t),
     paused |-> FALSE]

Up == runner.at # "off"
DoesChange(d, op, id, ask) ==
    /\ Up /\ doing[d] = Quiet /\ ops < MaxOps
    /\ ops' = ops + 1
    /\ doing' = [doing EXCEPT ![d] = [op |-> op, id |-> id, ask |-> ask, now |-> now]]
    /\ UNCHANGED <<now, store, runner, starts, fails, history>>

Done(d) == doing' = [doing EXCEPT ![d] = Quiet]
\* edit: saved, and the runner is woken.
Edits(d, new) ==
    /\ rows' = new
    /\ runner' = [runner EXCEPT !.poked = TRUE]
    /\ Done(d)
Refused(d) == Done(d) /\ UNCHANGED <<rows, runner>>

Room(t) == Cardinality({i \in DOMAIN rows : Known(rows[i], t) /\ rows[i].model}) < MaxModel

Add(d) ==
    /\ doing[d].op = "add"
    /\ LET ask == doing[d].ask
           t == doing[d].now
       IN  IF ~Prepares(ask, t) \/ (ask.model /\ ~Room(t))
           THEN Refused(d) /\ UNCHANGED drawn
           ELSE drawn < MaxRows /\ drawn' = drawn + 1 /\ Edits(d, With(drawn', Prepared(ask, t)))
    /\ UNCHANGED <<now, ops, starts, fails, history>>

\* The row named is there, and one bhai could have written by the time that was read.
Names(d) == doing[d].id \in DOMAIN rows /\ Known(rows[doing[d].id], doing[d].now)

Cancel(d) ==
    /\ doing[d].op = "cancel"
    /\ IF Names(d) THEN Edits(d, WithoutRows(rows, {doing[d].id})) ELSE Refused(d)
    /\ UNCHANGED <<now, drawn, ops, starts, fails, history>>

\* The slot after t: an interval keeps its phase.
Following(row, t) ==
    IF row.spec.kind # "every" THEN NextAfter(row.spec, t)
    ELSE LET behind == IF t > row.next THEN t - row.next ELSE 0
         IN  row.next + row.spec.step * (behind \div row.spec.step + 1)

Pause(d) ==
    /\ doing[d].op = "pause"
    /\ IF Names(d) THEN Edits(d, [rows EXCEPT ![doing[d].id].paused = TRUE]) ELSE Refused(d)
    /\ UNCHANGED <<now, drawn, ops, starts, fails, history>>

\* A recurring row that comes back after its slot goes on to the next.
Resumed(row, t) ==
    IF Recurs(row.spec) /\ row.next <= t THEN Following(row, t) ELSE row.next
Resume(d) ==
    /\ doing[d].op = "resume"
    /\ IF Names(d) /\ Resumed(rows[doing[d].id], doing[d].now) # None
       THEN Edits(d, [rows EXCEPT ![doing[d].id].paused = FALSE,
                                  ![doing[d].id].next = Resumed(rows[doing[d].id], doing[d].now)])
       ELSE Refused(d)
    /\ UNCHANGED <<now, drawn, ops, starts, fails, history>>

-----------------------------------------------------------------------------
(* The runner. *)

Start ==
    /\ ~Up /\ starts < MaxStarts
    /\ starts' = starts + 1
    /\ runner' = [Off EXCEPT !.at = "pass", !.startup = TRUE]
    /\ began' = now
    /\ UNCHANGED <<now, store, doing, ops, fails, fired>>

Expired(row) == row.expires # None /\ row.expires <= now
Within(row, t) == t # None /\ (row.expires = None \/ t <= row.expires)
\* Rows the pass looks past, rows it drops, rows that are due.
Passed(row) == ~Known(row, now) \/ row.paused
Due(row) == ~Passed(row) /\ ~Expired(row) /\ row.next <= now
\* Mutant: what fell due meanwhile is fired like anything else.
SkipsNone(row) == FALSE
\* A recurring row that fell due while no bhai ran skips to its next slot.
SkipsRow(row) == runner.startup /\ Recurs(row.spec)

\* Mutant: the last fire is one too late.
SpentLate(row) == row.left # None /\ row.left <= 0
Spent(row) == row.left # None /\ row.left <= 1
\* What a row that fires or skips becomes, if it goes on.
GoesOn(row) ==
    /\ Recurs(row.spec)
    /\ Within(row, Following(row, now))
    /\ SkipsRow(row) \/ ~Spent(row)
Moved(row) ==
    [row EXCEPT !.next = Following(row, now),
                !.left = IF row.left = None \/ SkipsRow(row) THEN row.left ELSE row.left - 1]

Keeps(row) == Passed(row) \/ (~Expired(row) /\ (Due(row) => GoesOn(row)))
KeptRows == {i \in DOMAIN rows : Keeps(rows[i])}
After(row) == IF Due(row) THEN Moved(row) ELSE row
Claims == {i \in DOMAIN rows : Due(rows[i]) /\ ~SkipsRow(rows[i])}
Fire(i) == [id |-> i, spec |-> rows[i].spec, ends |-> rows[i].expires,
            due |-> rows[i].next, at |-> now, missed |-> runner.startup]
Wakes == {After(rows[i]).next : i \in {k \in KeptRows : ~Passed(rows[k])}}
Earliest == IF Wakes = {} THEN None ELSE Min(Wakes)

\* Mutant: what is due is claimed once it is handed over.
PassUnclaimed ==
    /\ runner.at = "pass"
    /\ rows' = rows
    /\ runner' = [runner EXCEPT !.at = "submit", !.startup = FALSE,
                               !.fires = {Fire(i) : i \in Claims}, !.wake = Earliest]
    /\ UNCHANGED <<now, drawn, doing, ops, starts, fails, history>>
\* pass: what is due is claimed and the rows moved on before anything is fired.
Pass ==
    /\ runner.at = "pass"
    /\ rows' = [i \in KeptRows |-> After(rows[i])]
    /\ runner' = [runner EXCEPT !.at = "submit", !.startup = FALSE,
                               !.fires = {Fire(i) : i \in Claims}, !.wake = Earliest]
    /\ UNCHANGED <<now, drawn, doing, ops, starts, fails, history>>

\* The store cannot be read, locked or written: nothing is claimed, and the next pass is
\* no longer the first.
PassFails ==
    /\ runner.at = "pass" /\ fails < MaxFails
    /\ fails' = fails + 1
    /\ runner' = [runner EXCEPT !.at = "submit", !.startup = FALSE, !.wake = None]
    /\ began' = IF runner.startup THEN None ELSE began
    /\ UNCHANGED <<now, store, doing, ops, starts, fired>>

\* In the order of the store, through submit_automatic.
Submit ==
    /\ runner.at = "submit" /\ runner.fires # {}
    /\ LET next == CHOOSE f \in runner.fires : \A g \in runner.fires : f.id <= g.id
       IN  /\ fired' = Append(fired, next)
           /\ runner' = [runner EXCEPT !.fires = @ \ {next}]
    /\ UNCHANGED <<now, store, doing, ops, starts, fails, began>>

\* Mutant: with nothing to wake for, nothing but a change here wakes it.
UntilWake == IF runner.wake = None THEN MaxNow + 1 ELSE runner.wake
\* A wake that has passed by now is slept over for the whole of NAP.  (Bound: time ends at
\* MaxNow, and so does a nap that would go on.)
Until == IF runner.wake # None /\ runner.wake >= now
         THEN Min({runner.wake, now + Nap}) ELSE Min({now + Nap, MaxNow})
Sleep ==
    /\ runner.at = "submit" /\ runner.fires = {}
    /\ runner' = [runner EXCEPT !.at = "asleep", !.wake = Until]
    /\ UNCHANGED <<now, store, doing, ops, starts, fails, history>>

WakeUp ==
    /\ runner.at = "asleep"
    /\ \/ runner.poked /\ runner' = [runner EXCEPT !.at = "pass", !.poked = FALSE]
       \/ now >= runner.wake /\ runner' = [runner EXCEPT !.at = "pass"]
    /\ UNCHANGED <<now, store, doing, ops, starts, fails, history>>

-----------------------------------------------------------------------------
\* bhai ends, in the middle of whatever it does, or the agent is closed.
Crash ==
    /\ Up
    /\ runner' = Off
    /\ doing' = [d \in Doers |-> Quiet]
    /\ began' = None
    /\ UNCHANGED <<now, store, ops, starts, fails, fired>>

Tick ==
    /\ now < MaxNow
    /\ now' = now + 1
    /\ UNCHANGED <<store, runner, doing, ops, starts, fails, history>>

Change(d) ==
    \/ \E ask \in AskedFor : DoesChange(d, "add", 0, ask)
    \/ \E id \in DOMAIN rows : \/ DoesChange(d, "cancel", id, None)
                               \/ DoesChange(d, "pause", id, None)
                               \/ DoesChange(d, "resume", id, None)
    \/ Add(d) \/ Cancel(d) \/ Pause(d) \/ Resume(d)

Running == Pass \/ Submit \/ Sleep \/ WakeUp

SchedulesNext ==
    \/ \E d \in Doers : Change(d)
    \/ Start \/ Running \/ PassFails \/ Crash \/ Tick

\* The runner is scheduled, and time goes on.
SchedulesFairness == WF_scheduleVars(Running) /\ WF_scheduleVars(Tick)

(***************************************************************************)
(* What a prompt left for later may count on.                              *)
(***************************************************************************)
\* When the wall clock first shows a time, or has passed it.
Reaches(local) == Min({t \in Instants : Local(t) >= local})

\* The instants a row can fire at, as it was set: an interval counts from then, a wall
\* clock fires on the first pass of a repeated time and once after a skipped one.
Slots(row) ==
    IF row.spec.kind = "cron"
    THEN {Reaches(l) : l \in {m \in Locals : m % Day \in row.spec.times}}
    ELSE IF row.spec.kind = "at"
    THEN {Reaches(l) : l \in {m \in Locals : m % Day = row.spec.time}}
    ELSE {row.created + k * row.spec.step : k \in 1 .. Horizon}

\* Wherever a row is set or moved to is the first of its slots after the time that was
\* read for it: late passes, pauses and restarts do not shift an interval, and a change of
\* the clocks neither repeats nor drops a fire (schedules.rs following, schedule.rs resolve).
OnSlots ==
    [][\A i \in DOMAIN rows' :
          i \notin DOMAIN rows \/ rows[i].next # rows'[i].next =>
              \E t \in {now} \cup {doing[d].now : d \in Doers} :
                  rows'[i].next = Min({s \in Slots(rows'[i]) : s > t})]_scheduleVars

\* A slot is fired at most once, over crashes and restarts, and what passed meanwhile is
\* not made up for: of two fires of a row the later fell due after the earlier was fired
\* (schedules.rs 7-9, 11-12).
SlotsApart ==
    \A i, j \in 1 .. Len(fired) :
        i < j /\ fired[i].id = fired[j].id => fired[i].at < fired[j].due

\* A recurring row fires for no slot that passed before this start of bhai, paused or not:
\* it skips to its next (schedules.rs 11-12, pause); unless the first pass could not be made.
SkipsMissed ==
    [][fired' # fired /\ began # None =>
          LET f == fired'[Len(fired')] IN Recurs(f.spec) => f.due >= began]_scheduleVars

\* A row fires no more often than it was given, never before its slot, and not once it has
\* expired (schedules.rs pass).
OfRow(i) == {k \in 1 .. Len(fired) : fired[k].id = i}
WithinBounds ==
    /\ \A k \in 1 .. Len(fired) :
          LET f == fired[k] IN f.due <= f.at /\ (f.ends = None \/ f.at < f.ends)
    /\ \A i \in 1 .. drawn, ask \in AskedFor :
          (ask.times # None /\ \E k \in OfRow(i) : fired[k].spec = ask.spec)
              => Cardinality(OfRow(i)) <= ask.times

\* A row fires at its slots, each at most once, as often and as long as it was given.
SlotsKept == [](SlotsApart /\ WithinBounds) /\ OnSlots /\ SkipsMissed

\* A row that is due while bhai stays up is fired, moved on, or taken back by its user,
\* whatever else is set or fails meanwhile (schedules.rs run).
DueFires ==
    \A i \in 1 .. MaxRows :
        (i \in DOMAIN rows /\ Due(rows[i]) /\ Up)
            ~> \/ i \notin DOMAIN rows \/ ~Due(rows[i]) \/ ~Up
=============================================================================
