----------------------------- MODULE SavedSession -----------------------------
(***************************************************************************)
(* One saved session and the bhais that open it: the agent loop that       *)
(* writes its history down record by record, the resume that reads it and  *)
(* takes the lock afterwards, and a prune.  Whoever holds it may end, or   *)
(* the power go, between any two writes and in the middle of one.          *)
(***************************************************************************)
EXTENDS Integers, FiniteSetsExt, SequencesExt

CONSTANTS
    None,
    NoGoal, Models,
    Bhais,
    Goals,
    MaxSaid, MaxTroubles    \* bounds; a trouble is an end or a write that fails

-----------------------------------------------------------------------------
(* The file, and what load makes of it, as operators.  A line is a header,  *)
(* a record, or what was left of one: torn (no end of line) or junk (a line *)
(* that is not JSON).                                                       *)

Header(model) == [type |-> "header", model |-> model]
Torn == [type |-> "torn"]
Junk == [type |-> "junk"]
Broken(line) == line.type \in {"torn", "junk"}

\* A record follows the one written before it; body is what it says.
Record(id, parent, body) == [type |-> "record", id |-> id, parent |-> parent, body |-> body]
Says(item) == [kind |-> "item", item |-> item]
Rewrites(items) == [kind |-> "compaction", items |-> items]
Switches(model) == [kind |-> "model", model |-> model]
Aims(goal) == [kind |-> "goal", goal |-> goal]

\* What is appended to a torn line is part of that line.
Appended(file, line) ==
    IF file # <<>> /\ Last(file) = Torn THEN Append(Front(file), IF line = Torn THEN Torn ELSE Junk)
    ELSE Append(file, line)

\* What a model thought cannot be replayed to another one.
Replayable(item) == item.kind # "reason"

Open(items) ==
    {i \in 1 .. Len(items) :
        items[i].kind = "call" /\ ~ \E j \in i .. Len(items) :
                                       items[j].kind = "out" /\ items[j].n = items[i].n}
\* Mutant: a call is kept though its result never landed.
AnsweredAll(items) == Len(items)
\* answered: how many items to keep so that every call has its output.
Answered(items) ==
    Max({k \in 0 .. Len(items) : Open(SubSeq(items, 1, k)) = {}})

\* The history, each item with the line it came from, and the model and goal, after one
\* more line.
Loading(file, got, at) ==
    LET body == file[at].body
    IN  IF body.kind = "item"
        THEN [got EXCEPT !.items = Append(@, [item |-> body.item, at |-> at])]
        ELSE IF body.kind = "compaction"
        THEN [got EXCEPT !.items = [i \in 1 .. Len(body.items) |-> [item |-> body.items[i], at |-> at]]]
        ELSE IF body.kind = "model"
        THEN [got EXCEPT !.model = body.model,
                         !.items = IF body.model = got.model THEN @
                                   ELSE SelectSeq(@, LAMBDA x : Replayable(x.item))]
        ELSE [got EXCEPT !.goal = body.goal]

\* The lines read: a broken last line is skipped.
Whole(file) == IF Len(file) > 1 /\ Broken(Last(file)) THEN Len(file) - 1 ELSE Len(file)
Loads(file) ==
    /\ file # <<>> /\ file[1].type = "header"
    /\ \A k \in 2 .. Whole(file) : file[k].type = "record"
    /\ \A k \in 2 .. Whole(file) : file[k].parent = (IF k = 2 THEN 0 ELSE file[k - 1].id)

\* load: what a resume starts from, and how many lines of the file that is.
Load(file) ==
    LET all == FoldLeft(LAMBDA got, at : Loading(file, got, at),
                        [items |-> <<>>, model |-> file[1].model, goal |-> NoGoal],
                        [k \in 1 .. Whole(file) - 1 |-> k + 1])
        items == [i \in 1 .. Len(all.items) |-> all.items[i].item]
        keep == Answered(items)
        len == IF keep < Len(items) THEN all.items[keep + 1].at - 1 ELSE Whole(file)
    IN  [items |-> SubSeq(items, 1, keep), model |-> all.model, goal |-> all.goal,
         len |-> len, last |-> IF len = 1 THEN 0 ELSE file[len].id]

-----------------------------------------------------------------------------
VARIABLES
    file, there, lock,   \* the lines, whether a name leads to them, and who holds them
    synced,              \* how many lines the disk has, whatever happens
    at,                  \* off, read (loaded, not opened), on
    got,                 \* what each has loaded
    mem,                 \* the history, model and goal in force in each
    writer,              \* the Writer of each: open, last, the goal last recorded
    todo,                \* what is still to be written of what mem holds
    prune,               \* whether a prune has found the file unlocked
    said, drawn, ends, faults,
    held,                \* history: the conversations a resume may come back to
    raced                \* history: the file was opened by another after it was looked at

fileVars == <<file, there, lock, synced>>
bounds == <<said, drawn, ends, faults>>
vars == <<file, there, lock, synced, at, got, mem, writer, todo, prune,
          said, drawn, ends, faults, held, raced>>

\* Two bhais of one build are the same to a session.
Swapped == Permutations(Bhais)

Nothing == [items |-> <<>>, model |-> CHOOSE m \in Models : TRUE, goal |-> NoGoal]
Unread == [items |-> <<>>, model |-> None, goal |-> NoGoal, len |-> 0, last |-> 0]
Closed == [open |-> FALSE, last |-> 0, goal |-> NoGoal]

Init ==
    /\ file = <<>> /\ there = FALSE /\ lock = None /\ synced = 0
    /\ at = [b \in Bhais |-> "off"] /\ got = [b \in Bhais |-> Unread]
    /\ mem = [b \in Bhais |-> Nothing]
    /\ writer = [b \in Bhais |-> Closed]
    /\ todo = [b \in Bhais |-> <<>>]
    /\ prune = "idle"
    /\ said = 0 /\ drawn = 0 /\ ends = 0 /\ faults = 0
    /\ held = {<<>>} /\ raced = FALSE

-----------------------------------------------------------------------------
(* The agent loop: the history changes, and then what changed is written. *)

Idle(b) == at[b] = "on" /\ todo[b] = <<>>
Sync == [kind |-> "sync"]
Steps(items) == [i \in 1 .. Len(items) |-> Says(items[i])]
\* The goal is written when it is not the one last written.
Persists(b, goal) == IF goal = writer[b].goal THEN <<>> ELSE <<Aims(goal)>>

Changes(b, new, records) ==
    /\ Idle(b)
    /\ mem' = [mem EXCEPT ![b] = new]
    /\ todo' = [todo EXCEPT ![b] = records]
    /\ UNCHANGED <<fileVars, at, got, writer, prune, drawn, ends, faults, raced>>

Item(kind, n) == [kind |-> kind, n |-> n]
\* A message, or one step of a turn: what the model thought, two calls and their results.
Talk(n) == <<Item("say", n)>>
Work(n) == <<Item("reason", n), Item("call", n), Item("call", -n),
             Item("out", n), Item("out", -n)>>

Grows(b, items) ==
    /\ said < MaxSaid
    /\ said' = said + 1
    /\ LET new == mem[b].items \o items
       IN  /\ Changes(b, [mem[b] EXCEPT !.items = new],
                      Steps(items) \o Persists(b, mem[b].goal) \o <<Sync>>)
           /\ held' = held \cup {h \in {SubSeq(new, 1, k) : k \in Len(mem[b].items) .. Len(new)} :
                                    Open(h) = {}}

\* Compaction, eviction, a prompt taken back: the history is replaced, and a turn ends.
Compact(b) ==
    /\ said < MaxSaid
    /\ said' = said + 1
    /\ LET new == <<Item("summary", said')>>
       IN  /\ Changes(b, [mem[b] EXCEPT !.items = new],
                      <<Rewrites(new)>> \o Persists(b, mem[b].goal) \o <<Sync>>)
           /\ held' = held \cup {new}

\* /clear takes the goal with it, and does not wait for the disk.
Clear(b) ==
    /\ said < MaxSaid
    /\ said' = said + 1
    /\ Changes(b, [mem[b] EXCEPT !.items = <<>>, !.goal = NoGoal],
               Persists(b, NoGoal) \o <<Rewrites(<<>>)>>)
    /\ held' = held \cup {<<>>}

SwitchModel(b, model) ==
    /\ model # mem[b].model /\ said < MaxSaid
    /\ said' = said + 1
    /\ LET new == SelectSeq(mem[b].items, Replayable)
       IN  /\ Changes(b, [mem[b] EXCEPT !.model = model, !.items = new],
                      IF writer[b].open THEN <<Switches(model)>> ELSE <<>>)
           /\ held' = held \cup {new}

SetGoal(b, goal) ==
    /\ goal # mem[b].goal /\ said < MaxSaid
    /\ said' = said + 1
    /\ Changes(b, [mem[b] EXCEPT !.goal = goal],
               Persists(b, goal))
    /\ UNCHANGED held

-----------------------------------------------------------------------------
(* Writing. *)

Next1(b) == Head(todo[b])
Pops(b) == todo' = [todo EXCEPT ![b] = Tail(@)]

\* open: created on the first record, locked, and given its header.
Opens(b) ==
    /\ todo[b] # <<>> /\ Next1(b).kind # "sync" /\ ~writer[b].open
    /\ lock = None
    /\ there' = TRUE /\ lock' = b
    /\ file' = Appended(file, Header(mem[b].model))
    /\ writer' = [writer EXCEPT ![b].open = TRUE]
    /\ UNCHANGED <<synced, at, got, mem, todo, prune, bounds, held, raced>>

Write(b) ==
    /\ todo[b] # <<>> /\ Next1(b).kind # "sync" /\ writer[b].open
    /\ drawn' = drawn + 1
    /\ file' = Appended(file, Record(drawn', writer[b].last, Next1(b)))
    /\ writer' = [writer EXCEPT ![b].last = drawn',
                                ![b].goal = IF Next1(b).kind = "goal" THEN Next1(b).goal ELSE @]
    /\ Pops(b)
    /\ UNCHANGED <<there, lock, synced, at, got, mem, prune, said, ends, faults, held, raced>>

\* The end of a turn reaches the disk.
Syncs(b) ==
    /\ todo[b] # <<>> /\ Next1(b).kind = "sync"
    /\ synced' = IF writer[b].open THEN Len(file) ELSE synced
    /\ Pops(b)
    /\ held' = {mem[b].items}
    /\ UNCHANGED <<file, there, lock, at, got, mem, writer, prune, bounds, raced>>

\* A write fails, with some of it done or none: the items behind it are not written.
ItemsLeft(records) ==
    SelectSeq(records, LAMBDA r : r.kind # "item")
WriteFails(b) ==
    /\ todo[b] # <<>> /\ Next1(b).kind # "sync" /\ writer[b].open /\ ends + faults < MaxTroubles
    /\ faults' = faults + 1
    /\ file' \in {file, Appended(file, Torn)}
    /\ todo' = [todo EXCEPT ![b] = ItemsLeft(Tail(@))]
    /\ UNCHANGED <<there, lock, synced, at, got, mem, writer, prune, said, drawn, ends, held, raced>>

-----------------------------------------------------------------------------
(* Starting and ending. *)

\* A session begins once: its id is drawn.
Begins(b) ==
    /\ at = [x \in Bhais |-> "off"] /\ drawn = 0 /\ said = 0 /\ file = <<>>
    /\ at' = [at EXCEPT ![b] = "on"]
    /\ mem' = [mem EXCEPT ![b] = Nothing]
    /\ UNCHANGED <<fileVars, got, writer, todo, prune, bounds, held, raced>>

\* find, before anything else is set up.
Reads(b) ==
    /\ at[b] = "off" /\ there /\ Loads(file)
    /\ at' = [at EXCEPT ![b] = "read"]
    /\ got' = [got EXCEPT ![b] = Load(file)]
    /\ UNCHANGED <<fileVars, mem, writer, todo, prune, bounds, held, raced>>

\* Mutant: the file is left as long as it is.
CutNever(b) == file
\* A file shorter than that is filled up with zeros, which are no line.
Cut(b) == IF got[b].len <= Len(file) THEN SubSeq(file, 1, got[b].len) ELSE Appended(file, Torn)

\* Writer::resume: opened, locked, and cut to what was read.
Taken(b) ==
    /\ there /\ lock = None
    /\ at' = [at EXCEPT ![b] = "on"] /\ lock' = b
    /\ file' = Cut(b)
    /\ synced' = IF Len(file') < synced THEN Len(file') ELSE synced
    /\ mem' = [mem EXCEPT ![b] = [items |-> got[b].items, model |-> got[b].model,
                                  goal |-> got[b].goal]]
    /\ writer' = [writer EXCEPT ![b] = [open |-> TRUE, last |-> got[b].last,
                                        goal |-> got[b].goal]]
    /\ UNCHANGED <<there, got, todo, prune, bounds, held>>
    /\ raced' = (raced \/ prune = "looked" \/ ~Loads(file) \/ got[b] # Load(file))
Refused(b) ==
    /\ ~there \/ lock # None
    /\ at' = [at EXCEPT ![b] = "off"]
    /\ UNCHANGED <<fileVars, got, mem, writer, todo, prune, bounds, held, raced>>
Resume(b) == at[b] = "read" /\ (Taken(b) \/ Refused(b))

\* It quits, or dies where it is; a record may be half written.
Halved(b) == at[b] = "on" /\ lock = b /\ todo[b] # <<>> /\ Next1(b).kind # "sync"
Stopped(bs) ==
    /\ at' = [b \in Bhais |-> IF b \in bs THEN "off" ELSE at[b]]
    /\ got' = [b \in Bhais |-> IF b \in bs THEN Unread ELSE got[b]]
    /\ writer' = [b \in Bhais |-> IF b \in bs THEN Closed ELSE writer[b]]
    /\ todo' = [b \in Bhais |-> IF b \in bs THEN <<>> ELSE todo[b]]
    /\ mem' = [b \in Bhais |-> IF b \in bs THEN Nothing ELSE mem[b]]
    /\ lock' = IF lock \in bs THEN None ELSE lock
    /\ UNCHANGED <<there, said, drawn, faults, held>>
Ends(b) ==
    /\ at[b] # "off" /\ ends + faults < MaxTroubles
    /\ ends' = ends + 1
    /\ Stopped({b})
    /\ file' \in {file} \cup (IF Halved(b) THEN {Appended(file, Torn)} ELSE {})
    /\ UNCHANGED <<synced, prune, raced>>

\* The power goes: of what was not synced a part is there, and its last line torn.
PowerGoes ==
    /\ ends + faults < MaxTroubles /\ file # <<>>
    /\ ends' = ends + 1
    /\ Stopped(Bhais)
    /\ prune' = "idle"
    /\ \E k \in synced .. Len(file) :
          file' \in {SubSeq(file, 1, k)}
                    \cup (IF k < Len(file) THEN {Append(SubSeq(file, 1, k), Torn)} ELSE {})
    /\ UNCHANGED <<synced, raced>>

\* prune: the lock is tried and let go, and then the file removed.
Looks ==
    /\ prune = "idle" /\ there /\ lock = None
    /\ prune' = "looked"
    /\ UNCHANGED <<fileVars, at, got, mem, writer, todo, bounds, held, raced>>
Removes ==
    /\ prune = "looked"
    /\ prune' = "done" /\ there' = FALSE
    /\ UNCHANGED <<file, lock, synced, at, got, mem, writer, todo, bounds, held, raced>>

Step(b) ==
    \/ \E shape \in {Talk(said + 1), Work(said + 1)} : Grows(b, shape)
    \/ Compact(b) \/ Clear(b)
    \/ \E model \in Models : SwitchModel(b, model)
    \/ \E goal \in Goals \cup {NoGoal} : SetGoal(b, goal)
    \/ Opens(b) \/ Write(b) \/ Syncs(b) \/ WriteFails(b)
    \/ Begins(b) \/ Reads(b) \/ Resume(b) \/ Ends(b)

Next == (\E b \in Bhais : Step(b)) \/ PowerGoes \/ Looks \/ Removes

Spec == Init /\ [][Next]_vars

(***************************************************************************)
(* What a user may rely on of a session that is saved.                     *)
(***************************************************************************)
\* Unless a write failed, what a session's file reads back as is the conversation in
\* force, with its model and goal, whoever had it before, wherever they were cut off and
\* whatever was replaced, thought away or torn since (sessions.rs load, Writer).
ReadBack ==
    \A b \in Bhais :
        Idle(b) /\ writer[b].open /\ faults = 0 /\ ~raced =>
            /\ there /\ Loads(file)
            /\ LET back == Load(file)
               IN  /\ back.items = mem[b].items
                   /\ back.model = mem[b].model
                   /\ back.goal = mem[b].goal
                   /\ back.len = Len(file)

Resumed(b) == at[b] = "read" /\ at'[b] = "on"

\* A resume comes back to the conversation as it stood when the last turn ended, or to
\* one it has been in since, with nothing cut out of it; and, whatever failed, to none
\* that holds a call without its result (sessions.rs load, answered, sync).
ResumesWhole ==
    [][\A b \in Bhais :
          Resumed(b) => /\ Open(mem'[b].items) = {}
                        /\ faults = 0 /\ ~raced' => mem'[b].items \in held]_vars

\* A session comes back as it was.
SessionSaved == []ReadBack /\ ResumesWhole

\* A resume leaves alone what it did not read: a session another bhai was appending to is
\* not cut back to what this one read (sessions.rs 170).
NotCutBack ==
    [][\A b \in Bhais : Resumed(b) /\ faults = 0 => mem'[b].items \in held]_vars
=============================================================================
