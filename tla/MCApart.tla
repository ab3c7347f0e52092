------------------------------- MODULE MCApart -------------------------------
(***************************************************************************)
(* What reaches a session from outside its process, each part checked by   *)
(* itself: a front end attached over the network, and the prompts left for *)
(* later.  world says which part moves; the other rests.                   *)
(***************************************************************************)
EXTENDS Attach, Schedules

VARIABLE world
apartVars == <<world, vars, scheduleVars>>

\* A clock put back at 2 and forward at 5, and rows of each kind: the wall clock reads
\* 1 2 2 3 4 6 7 ...: 2 twice, 5 never.
AheadDef == [t \in Instants |-> IF t < 2 THEN 1 ELSE IF t < 5 THEN 0 ELSE 1]

Every == [kind |-> "every", step |-> 2]
Cron == [kind |-> "cron", times |-> {1, 2}]
At == [kind |-> "at", time |-> 2]
AskedForDef ==
    {[spec |-> Every, times |-> 2, lasts |-> 7, model |-> TRUE],
     [spec |-> Cron, times |-> None, lasts |-> 5, model |-> FALSE],
     [spec |-> At, times |-> None, lasts |-> None, model |-> FALSE]}

\* Every change within one start, one fewer over a restart, two fewer over a restart and
\* a pass that fails.
FewChanges == \/ ops = 0 /\ starts = 1 /\ fails = MaxFails
              \/ ops = 1 /\ starts = 0 /\ fails = MaxFails
              \/ ops = 2 /\ starts = 0 /\ fails = 0

\* Where a part rests: a link that is up with nothing said on it, a bhai that never
\* starts at the end of time.
LinkRests ==
    /\ ServedInit /\ run = 1 /\ nextId = 0
    /\ RelayInit /\ given = 0
    /\ follow = "open" /\ cut = FALSE /\ cursor = 0 /\ wire = <<>>
    /\ after = 0 /\ up = TRUE
    /\ stage = "none" /\ snapSeq = 0 /\ snapView = Blank /\ snapTaken = FALSE
    /\ view = Blank /\ shown = <<>>
    /\ faults = 0 /\ seeded = run /\ gap = FALSE /\ raced = FALSE
RowsRest ==
    /\ now = MaxNow /\ rows = <<>> /\ drawn = 0
    /\ runner = Off
    /\ doing = [d \in Doers |-> Quiet]
    /\ ops = 0 /\ starts = 0 /\ fails = 0
    /\ fired = <<>> /\ began = None

ApartInit ==
    \/ world = "attach" /\ FewInit /\ RowsRest
    \/ world = "schedules" /\ SchedulesInit /\ FewChanges /\ LinkRests

ApartNext ==
    /\ UNCHANGED world
    /\ \/ world = "attach" /\ Next /\ UNCHANGED scheduleVars
       \/ world = "schedules" /\ SchedulesNext /\ UNCHANGED vars

\* Nothing is asked of a part that rests: no action its fairness names is enabled there.
ApartSpec == ApartInit /\ [][ApartNext]_apartVars /\ Fairness /\ SchedulesFairness
=============================================================================
