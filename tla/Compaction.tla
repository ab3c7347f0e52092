----------------------------- MODULE Compaction -----------------------------
(***************************************************************************)
(* compact.rs and agent.rs Compaction: the conversation a model is sent    *)
(* and how it is kept inside its window.  Old tool outputs are evicted,    *)
(* between steps too; when that is not enough the earlier turns give way   *)
(* to a summary or to an item the backend wrote.  The guard of the prompt  *)
(* cache remembers the last request, and is told when the next one does    *)
(* not extend it.                                                          *)
(***************************************************************************)
EXTENDS Integers, FiniteSets, FiniteSetsExt, Sequences, SequencesExt

CONSTANTS
    Unset,
    Brains,       \* the models there are
    Able,         \* those that take an effort as an item and compact on the server
    KeepResults,  \* KEEP_RESULTS: the newest outputs, never evicted
    Full,         \* what a call may read before the history is compacted
    Aim,          \* what compaction aims for, below Full
    Retained,     \* the user messages a server compaction keeps
    ForkMin,      \* FORK_MIN
    MaxTurns, MaxSteps, MaxTricks   \* bounds: messages, answers, everything else

ASSUME RetainedAssumption == Retained \in Nat

VARIABLES
    convo,        \* the history
    guard,        \* the last request as the cache guard has it, or Unset
    copy,         \* Unset, or an attempt at a compacted copy: [made, items]
    size,         \* what the last call read, 0 when that is not known
    phase,        \* where the loop is
    turn,         \* what it holds of the turn that runs
    pass,         \* the compaction under way, or Unset
    halted,       \* the interrupt flag
    next,         \* compact_next: "no", "plain", or "worded" with what to keep
    brain, base, effort,     \* the model, its request's effort, the one in force
    place,        \* the environment now
    spent,        \* bounds used
    lived,        \* history: what was said and not taken back
    missed,       \* history: how the last request failed to extend the one before
    misplaced,    \* history: another item went in place of a refused update
    forsaken      \* history: the last request for a summary that was given up

chatVars == <<convo, guard, copy, size, phase, turn, pass, halted, next,
              brain, base, effort, place, spent, lived, missed, misplaced, forsaken>>

aside == <<misplaced, forsaken>>
recalled == <<lived, missed, aside>>
Setting == <<brain, base, effort, place>>

\* An item: what it is, the number of what was said or told, what it stands for.
Piece(is, n) == [is |-> is, n |-> n, of |-> {}]
IsUser(item) == item.is \in {"user", "summary", "abort"}
Users(items) == {i \in DOMAIN items : IsUser(items[i])}
Results(items) == {i \in DOMAIN items : items[i].is \in {"long", "short", "gone"}}
Where(items, is) == {i \in DOMAIN items : items[i].is = is}
Stands(items) ==
    UNION {IF items[i].is \in {"user", "call", "say"} THEN {items[i].n} ELSE items[i].of :
              i \in DOMAIN items}

\* The items at these places, in their order.
Only(items, at) ==
    LET left[n \in 0 .. Len(items)] ==
            IF n = 0 THEN <<>>
            ELSE IF n \in at THEN Append(left[n - 1], items[n]) ELSE left[n - 1]
    IN  left[Len(items)]

\* A long output weighs three, what stands in its place one, as does everything else.
Weight(items) == Len(items) + 2 * Cardinality(Where(items, "long"))
LastOf(items, is) ==
    IF Where(items, is) = {} THEN <<>> ELSE <<items[Max(Where(items, is))]>>
ToldPlace(items) == IF Where(items, "env") = {} THEN Unset ELSE LastOf(items, "env")[1].n

-----------------------------------------------------------------------------
(* compact.rs *)

Old(items) ==
    {i \in Where(items, "long") :
        Cardinality({j \in Results(items) : j > i}) >= KeepResults}
\* evict: the oldest first, until enough is freed.
Evicted(items, excess) ==
    {i \in Old(items) : 2 * Cardinality({j \in Old(items) : j < i}) < excess}
Evict(items, excess) ==
    [i \in DOMAIN items |-> IF i \in Evicted(items, excess) THEN Piece("gone", items[i].n)
                            ELSE items[i]]

\* Mutant: the turn to keep begins at the last item.
FoldAtLast(items, summary) ==
    LastOf(items, "env") \o <<items[Min(Users(items))], summary, Last(items)>>
Folds(items) == Cardinality(Users(items)) > 1
Fold(items, summary) ==
    LastOf(items, "env") \o <<items[Min(Users(items))], summary>>
        \o SubSeq(items, Max(Users(items)), Len(items))

\* Mutant: the environment goes with the rest.
InstallBare(items, item) ==
    LET users == Only(items, Users(items))
    IN  SubSeq(users, Len(users) - Min({Retained, Len(users)}) + 1, Len(users)) \o <<item>>
\* All messages of the user weigh alike here, so none is cut in the middle.
Install(items, item) ==
    LET users == Only(items, Users(items))
    IN  LastOf(items, "env")
            \o SubSeq(users, Len(users) - Min({Retained, Len(users)}) + 1, Len(users))
            \o <<item>>

-----------------------------------------------------------------------------
(* The guard, and the effort in force. *)

Misses(request) ==
    IF guard = Unset \/ IsPrefix(guard, request) THEN "no"
    ELSE IF guard = forsaken THEN "left" ELSE "cut"

\* The effort as the items have it.
Announced(items, request) ==
    IF Where(items, "effort") = {} THEN request ELSE LastOf(items, "effort")[1].n
EffortChange(items) ==
    IF brain \in Able /\ Announced(items, base) # effort THEN <<Piece("effort", effort)>>
    ELSE <<>>

Trick == spent.tricks < MaxTricks /\ spent' = [spent EXCEPT !.tricks = @ + 1]
NoTrick == UNCHANGED spent

-----------------------------------------------------------------------------
(* One compaction. *)

\* What the loop does once it is over.  Only a turn refused as too long whose history
\* changed runs again, and once.
Resumes(from, changed) ==
    LET again == from = "turn" /\ turn.err = "overflow" /\ changed /\ ~turn.retried
    IN  /\ size' = 0
        /\ next' = IF from = "turn" \/ next = "no" THEN "no"
                    ELSE IF from = "user" THEN "plain" ELSE next
        /\ phase' = IF from = "tool" \/ again THEN "step" ELSE "idle"
        /\ turn' = IF again THEN [turn EXCEPT !.err = "none", !.retried = TRUE, !.update = 0,
                                              !.pure = FALSE, !.rewritten = TRUE]
                   ELSE [turn EXCEPT !.pure = FALSE, !.rewritten = @ \/ changed]

Commit(items) == convo' = items /\ guard' = Unset
Calls(items, from, last) ==
    LET request == Append(items, Piece(last, 0))
    IN  /\ guard' = request
        /\ missed' = IF items # convo' THEN "no" ELSE Misses(request)
        /\ pass' = [items |-> items, from |-> from, call |-> last]
        /\ phase' = "compacting"
        /\ UNCHANGED <<size, next, turn>>

\* run, on a history that was read just now.
StartsPass(by, from, items, read, worded) ==
    LET excess == IF by = "size" THEN read - Aim
                  ELSE IF by = "overflow" THEN Weight(items) ELSE 0
        left == Evict(items, excess)
        enough == by = "size" /\ 2 * Cardinality(Evicted(items, excess)) >= excess
    IN  IF enough \/ ~Folds(left)
        THEN /\ IF left # items THEN Commit(left) ELSE convo' = items /\ UNCHANGED guard
             /\ Resumes(from, left # items)
             /\ UNCHANGED <<pass, missed>>
        ELSE /\ convo' = items
             /\ Calls(left, from, IF brain \in Able /\ ~worded THEN "trigger" ELSE "ask")

Settled == pass' = Unset /\ UNCHANGED <<halted, copy, Setting, recalled>>

\* A summary folds the earlier turns away; an item of the backend stands for all of them.
PassAnswers ==
    /\ phase = "compacting"
    /\ LET stands(is) == [is |-> is, n |-> 0, of |-> Stands(pass.items)]
       IN  Commit(IF pass.call = "trigger" THEN Install(pass.items, stands("server"))
                  ELSE Fold(pass.items, stands("summary")))
    /\ Resumes(pass.from, TRUE)
    /\ Settled /\ NoTrick
\* The request for a summary was itself too long.
PassOverflows ==
    /\ phase = "compacting" /\ Trick
    /\ LET dropped == [is |-> "summary", n |-> 0, of |-> Stands(pass.items)]
           folded == Fold(pass.items, dropped)
       IN  Commit(Evict(folded, Weight(folded)))
    /\ Resumes(pass.from, TRUE)
    /\ Settled
\* What was evicted for the call stays evicted, and the turn does not run again for it.
\* With nothing evicted the guard keeps the request that failed.
PassFails ==
    /\ phase = "compacting" /\ Trick
    /\ pass.call = "ask" \/ halted
    /\ IF pass.items # convo THEN Commit(pass.items) /\ UNCHANGED forsaken
       ELSE forsaken' = guard /\ UNCHANGED <<convo, guard>>
    /\ Resumes(pass.from, FALSE)
    /\ pass' = Unset
    /\ UNCHANGED <<halted, copy, Setting, lived, missed, misplaced>>
\* Mutant: the guard keeps the request that failed.
AfreshKept(request) == Misses(request)
\* A request after the guard was reset.
Afresh(request) == "no"
\* The model summarises what the backend did not compact.
ServerFails ==
    /\ phase = "compacting" /\ pass.call = "trigger" /\ ~halted /\ Trick
    /\ pass' = [pass EXCEPT !.call = "ask"]
    /\ LET request == Append(pass.items, Piece("ask", 0))
       IN  guard' = request /\ missed' = Afresh(request)
    /\ UNCHANGED <<convo, copy, size, phase, turn, halted, next, Setting, lived, aside>>

-----------------------------------------------------------------------------
(* Between turns. *)

NoTurn == [err |-> "none", retried |-> FALSE, update |-> 0, pure |-> FALSE,
           rewritten |-> FALSE, place |-> 0]
ConvoInit ==
    /\ convo = <<>> /\ guard = Unset /\ copy = Unset /\ size = 0
    /\ phase = "idle" /\ turn = NoTurn /\ pass = Unset
    /\ halted = FALSE /\ next = "no"
    /\ brain \in Brains /\ base = 0 /\ effort = 0 /\ place = 0
    /\ spent = [turns |-> 0, steps |-> 0, tricks |-> 0]
    /\ lived = {} /\ missed = "no" /\ misplaced = FALSE
    /\ forsaken = Unset

Number == spent.turns + spent.steps + 1

\* Mutant: the copy outlives a message.
DroppedKeeping == copy
\* One attempt for each call, whether or not a copy came of it.
Dropped == IF copy = Unset THEN Unset ELSE [made |-> FALSE, items |-> <<>>]

\* What opens a turn, on these items.
OpenedOn(items) ==
    LET told == IF ToldPlace(items) = place THEN items ELSE Append(items, Piece("env", place))
        change == EffortChange(told)
    IN  /\ spent.turns < MaxTurns /\ spent' = [spent EXCEPT !.turns = @ + 1]
        /\ convo' = told \o change \o <<Piece("user", Number)>>
        /\ turn' = [NoTurn EXCEPT !.update = IF change = <<>> THEN 0 ELSE Len(told) + 1,
                                  !.pure = TRUE, !.place = place]
        /\ lived' = lived \cup {Number}
        /\ halted' = FALSE
        /\ phase' = "step"
        /\ UNCHANGED <<pass, next, Setting, missed, aside>>
OpensTurn ==
    /\ phase = "idle"
    /\ OpenedOn(convo)
    /\ copy' = Dropped
    /\ UNCHANGED <<guard, size>>
OpensOnCopy ==
    /\ phase = "idle" /\ copy # Unset /\ copy.made
    /\ OpenedOn(copy.items)
    /\ copy' = [copy EXCEPT !.made = FALSE, !.items = <<>>]
    /\ guard' = Unset /\ size' = 0

\* /compact, which clears the interrupt flag.
Compacts ==
    /\ phase = "idle" /\ Trick
    /\ halted' = FALSE
    /\ copy' = Dropped
    /\ \E worded \in BOOLEAN : StartsPass("asked", "user", convo, size, worded)
    /\ UNCHANGED <<Setting, lived, aside>>

\* Mutant: the guard stays on the call for the summary.
SeededNot == Append(convo, Piece("ask", 0))
\* The guard is put back on the history the next call extends.
Seeded == convo
\* The cache is about to lapse: a compacted copy is made, the history left as it is.
Copies ==
    /\ phase = "idle" /\ copy = Unset /\ size >= ForkMin /\ ~halted
    /\ Trick
    /\ IF Folds(convo)
       THEN /\ copy' \in {[made |-> FALSE, items |-> <<>>],
                          [made |-> TRUE, items |->
                           Fold(convo, [is |-> "summary", n |-> 0, of |-> Stands(convo)])]}
            /\ missed' = Misses(Append(convo, Piece("ask", 0)))
       ELSE copy' = [made |-> FALSE, items |-> <<>>] /\ UNCHANGED missed
    /\ guard' = Seeded
    /\ UNCHANGED <<convo, size, phase, turn, pass, halted, next, Setting, lived, aside>>
\* A side question, kept nowhere.
Btw ==
    /\ phase = "idle" /\ Trick
    /\ halted' = FALSE
    /\ missed' = Misses(Append(convo, Piece("question", 0)))
    /\ guard' = Seeded
    /\ UNCHANGED <<convo, copy, size, phase, turn, pass, next, Setting, lived, aside>>

Clears ==
    /\ phase = "idle" /\ Trick
    /\ convo' = <<>> /\ guard' = Unset /\ size' = 0
    /\ copy' = Dropped
    /\ lived' = {}
    /\ UNCHANGED <<phase, turn, pass, halted, next, Setting, missed, aside>>

\* What another model cannot read is dropped, and with it what it stood for.
Readable(items) == Only(items, {i \in DOMAIN items : items[i].is \notin {"effort", "server"}})
SwitchesBrain(to, at) ==
    /\ phase = "idle" /\ <<to, at>> # <<brain, effort>> /\ Trick
    /\ brain' = to /\ effort' = at
    /\ IF to = brain /\ to \in Able
       THEN copy' = Dropped /\ UNCHANGED <<convo, guard, size, base, lived>>
       ELSE /\ base' = at /\ guard' = Unset
            /\ copy' = [made |-> FALSE, items |-> <<>>]
            /\ IF to = brain THEN UNCHANGED <<convo, size, lived>>
               ELSE /\ convo' = Readable(convo) /\ size' = 0
                    /\ lived' = lived \cap Stands(Readable(convo))
    /\ UNCHANGED <<phase, turn, pass, halted, next, place, missed, aside>>

Moves ==
    /\ Trick
    /\ place' = 1 - place
    /\ UNCHANGED <<convo, guard, copy, size, phase, turn, pass, halted, next,
                   brain, base, effort, recalled>>
Halts ==
    /\ phase # "idle" /\ ~halted /\ Trick
    /\ halted' = TRUE
    /\ UNCHANGED <<convo, guard, copy, size, phase, turn, pass, next, Setting, recalled>>
\* /compact while a turn runs waits for its end.
Asks(worded) ==
    /\ phase \in {"step", "calling"} /\ Trick
    /\ next' = IF worded THEN "worded" ELSE "plain"
    /\ UNCHANGED <<convo, guard, copy, size, phase, turn, pass, halted, Setting, recalled>>

-----------------------------------------------------------------------------
(* A turn. *)

\* A message typed meanwhile joins the history before the call.
Steers ==
    /\ phase = "step"
    /\ spent.turns < MaxTurns /\ spent' = [spent EXCEPT !.turns = @ + 1]
    /\ convo' = Append(convo, Piece("user", Number))
    /\ lived' = lived \cup {Number}
    /\ turn' = [turn EXCEPT !.pure = FALSE]
    /\ UNCHANGED <<guard, copy, size, phase, pass, halted, next, Setting, missed, aside>>

\* Mutant: the guard is not told of what was evicted between two steps.
SendsUntold(items) == Misses(items)
\* The guard is told of what was evicted between two steps.
Sends(items) == IF items = convo THEN Misses(items) ELSE "no"
\* Old outputs go between steps, and the call is made.
SendsCall ==
    /\ phase = "step"
    /\ LET items == IF size > Full THEN Evict(convo, size - Aim) ELSE convo
       IN  /\ convo' = items /\ guard' = items
           /\ missed' = Sends(items)
           /\ size' = IF items = convo THEN size ELSE 0
           /\ turn' = [turn EXCEPT !.pure = @ /\ items = convo]
    /\ phase' = "calling"
    /\ copy' = Unset
    /\ UNCHANGED <<pass, halted, next, Setting, spent, lived, aside>>

Answer ==
    /\ phase = "calling" /\ spent.steps < MaxSteps
    /\ spent' = [spent EXCEPT !.steps = @ + 1]
    /\ lived' = lived \cup {Number}
    /\ UNCHANGED <<copy, halted, Setting, aside>>
SaysText ==
    /\ Answer
    /\ convo' = Append(convo, Piece("say", Number))
    /\ size' = Weight(convo)
    /\ phase' = "closing"
    /\ turn' = [turn EXCEPT !.pure = FALSE]
    /\ UNCHANGED <<guard, pass, next, missed>>
\* A call and its result join the history together; the model may have asked for a
\* compaction, which comes after them.
Works(result, asks, worded) ==
    LET after == convo \o <<Piece("call", Number), Piece(result, Number)>>
    IN  /\ Answer
        /\ IF asks /\ ~halted
           THEN StartsPass("asked", "tool", after, 0, worded)
           ELSE /\ convo' = after /\ size' = Weight(convo)
                /\ phase' = IF halted THEN "closing" ELSE "step"
                /\ turn' = [turn EXCEPT !.pure = FALSE]
                /\ UNCHANGED <<guard, pass, next, missed>>
Fails(how) ==
    /\ phase = "calling" /\ Trick
    /\ turn' = [turn EXCEPT !.err = IF halted THEN "none" ELSE how]
    /\ phase' = "closing"
    /\ UNCHANGED <<convo, guard, copy, size, pass, halted, next, Setting, recalled>>

\* The message of a turn that did nothing yet is taken back to be edited.
Edits ==
    /\ phase = "closing" /\ halted /\ turn.pure /\ Trick
    /\ convo' = Front(convo) /\ guard' = Unset
    /\ lived' = lived \ {Last(convo).n}
    /\ phase' = "ending"
    /\ UNCHANGED <<copy, size, turn, pass, halted, next, Setting, missed, aside>>
\* An interrupt is marked; a refused update goes, and the effort with it.
Closes ==
    /\ phase = "closing"
    /\ LET marked == IF halted THEN Append(convo, Piece("abort", 0)) ELSE convo
           at == turn.update
       IN  IF turn.err = "bad" /\ at # 0
           THEN /\ convo' = IF at \in DOMAIN marked THEN RemoveAt(marked, at) ELSE marked
                /\ misplaced' = (misplaced \/ at \notin DOMAIN marked \/ marked[at].is # "effort")
                /\ phase' = IF at \in DOMAIN marked THEN "ending" ELSE "dead"
                /\ guard' = Unset /\ size' = 0
                /\ effort' = Announced(convo', base)
           ELSE /\ convo' = marked
                /\ phase' = "ending"
                /\ UNCHANGED <<guard, size, effort, misplaced>>
    /\ UNCHANGED <<copy, turn, pass, halted, next, brain, base, place, spent,
                   lived, missed, forsaken>>

\* Compaction is of a history in which every call has its output, so it waits for this.
EndsTurn ==
    /\ phase = "ending"
    /\ LET over == turn.err = "overflow" \/ next # "no" \/ size > Full
           by == IF turn.err = "overflow" THEN "overflow"
                 ELSE IF size # 0 /\ next = "no" THEN "size" ELSE "asked"
       IN  IF over /\ ~halted
           THEN StartsPass(by, "turn", convo, size, next = "worded")
           ELSE phase' = "idle" /\ UNCHANGED <<convo, guard, size, turn, pass, next, missed>>
    /\ UNCHANGED <<copy, halted, Setting, spent, lived, aside>>

ConvoNext ==
    \/ OpensTurn \/ OpensOnCopy \/ Compacts \/ Copies \/ Btw \/ Clears \/ Moves \/ Halts
    \/ \E to \in Brains, at \in 0 .. 1 : SwitchesBrain(to, at)
    \/ \E worded \in BOOLEAN : Asks(worded)
    \/ Steers \/ SendsCall \/ SaysText \/ Edits \/ Closes \/ EndsTurn
    \/ \E result \in {"long", "short"}, asks, worded \in BOOLEAN : Works(result, asks, worded)
    \/ \E how \in {"overflow", "bad", "failed"} : Fails(how)
    \/ PassAnswers \/ PassOverflows \/ PassFails \/ ServerFails
ConvoSpec == ConvoInit /\ [][ConvoNext]_chatVars

-----------------------------------------------------------------------------
(* Properties. *)

\* A refused update is what is taken out of the history (agent.rs: "A refused request that
\* carried a new update may be refusing the update, and one left in the history would go
\* out with every request after it").
RefusedTakenOut == ~misplaced

\* Every request has each call with its result, and each result with its call (compact.rs:
\* "so every call keeps its output").
Paired(items) ==
    \A i \in DOMAIN items :
        /\ items[i].is = "call" =>
              \E j \in Results(items) : j > i /\ items[j].n = items[i].n
        /\ i \in Results(items) =>
              \E j \in Where(items, "call") : j < i /\ items[j].n = items[i].n
RequestsWhole == phase \in {"calling", "compacting"} => Paired(guard)

\* What was said stands in the history, or is stood for by what was made of it: a summary,
\* an item of the backend, the note that a summary would not fit (compact.rs fold, install).
\* The same goes for the copy a turn may go on from (agent.rs: it "no longer stands for" a
\* history that moved on).
NothingForgotten ==
    /\ lived \subseteq Stands(convo)
    /\ copy # Unset /\ copy.made => lived \subseteq Stands(copy.items)

\* A turn's calls have the environment the turn was opened in, over every compaction, and
\* the effort in force unless a compaction of this very turn took the update along
\* (environment.rs restated, agent.rs effort_change).
StandingTold ==
    phase = "calling" =>
        /\ ToldPlace(guard) = turn.place
        /\ brain \in Able /\ ~turn.rewritten => Announced(guard, base) = effort

\* What the model reads is the conversation, however often it was compacted (agent.rs
\* Compaction); apart from what RefusedTakenOut is about.
ConversationKept == misplaced \/ (RequestsWhole /\ NothingForgotten /\ StandingTold)

\* A request extends the one before, or the guard was told that it would not; apart from
\* one that follows a call for a summary that was given up (agent.rs "reset the cache
\* guard", cache.rs compare).
CacheKept == missed # "cut"
=============================================================================
