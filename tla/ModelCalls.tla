------------------------------ MODULE ModelCalls ------------------------------
(***************************************************************************)
(* client.rs, websocket.rs and cache.rs: one conversation's calls to the   *)
(* backend, over its socket or over HTTPS, sent again when they fail, and  *)
(* the guard that compares each request with the one before.  An item is a *)
(* number, an answer that of the response it came with.                    *)
(***************************************************************************)
EXTENDS Integers, SequencesExt

CONSTANTS
    MaxAttempts,     \* client.rs MAX_ATTEMPTS
    MaxCalls         \* bound on the calls of the conversation

VARIABLES
    talk,        \* the conversation: the fields of its requests, and their input
    guard,       \* the last request the cache guard has seen, and whether it is strict
    line,        \* the socket, as both ends see it
    refused,     \* the backend refused the socket: no more of them this session
    routing,     \* the turn's routing token, 0 for none
    call,        \* the call under way
    interrupted,     \* the turn is interrupted
    responses,   \* responses made so far
    told,        \* what was reported of the call, and over all calls
    firstRoute,  \* history: the first token this turn was given
    drifted      \* history: the request changed with the guard not told, as of the next call

callVars == <<talk, guard, line, refused, routing, call, interrupted, responses, told, firstRoute,
              drifted>>

NoRequest == [rest |-> 0, input |-> <<>>]
NoHeld == [id |-> 0, rest |-> 0, input |-> <<>>]
NoLine == [open |-> FALSE, last |-> NoHeld, holds |-> NoHeld, asked |-> <<>>]
NewLine == [NoLine EXCEPT !.open = TRUE]
NoCall == [pc |-> "none", body |-> NoRequest, beside |-> FALSE, attempt |-> 0, delta |-> FALSE,
           events |-> FALSE, reopened |-> FALSE, replayed |-> FALSE, retold |-> FALSE,
           done |-> FALSE, next |-> "", fresh |-> FALSE]

CallInit ==
    /\ talk = [rest |-> 1, input |-> <<1>>]
    /\ guard \in [last : {NoRequest}, strict : BOOLEAN]
    /\ line = NoLine /\ refused = FALSE /\ routing = 0
    /\ call = NoCall /\ interrupted = FALSE /\ responses = 0
    /\ told = [broke |-> FALSE, drifted |-> FALSE, usage |-> 0, answers |-> 0, calls |-> 0]
    /\ firstRoute = 0 /\ drifted = FALSE

At(pc) == call.pc = pc
Goes(pc) == call' = [call EXCEPT !.pc = pc]
\* On to a part of the attempt that has nothing to do with the parts before it.
GoesAfresh(pc) ==
    call' = [NoCall EXCEPT !.pc = pc, !.body = call.body, !.beside = call.beside,
                           !.attempt = call.attempt]
Item == 10 * (told.calls + 1)          \* a new item of the conversation's own
AnswerOf(r) == 100 + r                   \* what response r said
Kept == UNCHANGED <<talk, guard, told, interrupted>>
Quiet == UNCHANGED <<line, refused, responses>>
InTurn == UNCHANGED <<routing, firstRoute, drifted>>

-----------------------------------------------------------------------------
(* Between calls: the conversation goes on, or starts over. *)

\* respond: the guard is asked once, whatever the call then takes; a strict one refuses it.
Extends(b, a) == a = NoRequest \/ (b.rest = a.rest /\ IsPrefix(a.input, b.input))
Asks(body, beside) ==
    LET broke == ~Extends(body, guard.last)
        kept  == broke /\ guard.strict
    IN  /\ At("none") /\ told.calls < MaxCalls
        /\ told' = [told EXCEPT !.calls = @ + 1, !.broke = broke, !.drifted = drifted]
        /\ call' = [NoCall EXCEPT !.pc = IF kept THEN "none" ELSE "attempt",
                                  !.body = body, !.beside = beside, !.attempt = 1]
        /\ guard' = IF kept THEN guard ELSE [guard EXCEPT !.last = body]
        /\ drifted' = (drifted /\ kept)
        /\ interrupted' = FALSE
        /\ Quiet

FreshTurn == routing' = 0 /\ firstRoute' = 0      \* begin_turn
More == [talk EXCEPT !.input = Append(@, Item)]
\* A prompt, or the results of what the model asked for.
StartTurn == Asks(More, FALSE) /\ talk' = More /\ FreshTurn
NextStep == /\ call.done /\ ~call.beside /\ ~interrupted
            /\ Asks(More, FALSE) /\ talk' = More /\ UNCHANGED <<routing, firstRoute>>
\* /btw: asked beside the conversation, which is seeded again once it is over.
AskBeside == Asks(More, TRUE) /\ UNCHANGED <<talk, routing, firstRoute>>
\* Mutant: the guard is left with what was asked beside it.
SeededNot == guard
Seeded == IF call.beside THEN [guard EXCEPT !.last = talk] ELSE guard
\* A compaction, or another model or effort: the guard is told to forget.
StartOver ==
    /\ At("none") /\ told.calls \in 1..(MaxCalls - 1)
    /\ talk' \in {[talk EXCEPT !.input = <<Item>>], [talk EXCEPT !.rest = 3 - @]}
    /\ talk' # talk
    /\ guard' = [guard EXCEPT !.last = NoRequest] /\ drifted' = FALSE
    /\ UNCHANGED <<call, told, interrupted, routing, firstRoute>> /\ Quiet
\* Its tools or its prompt change under it: nobody tells the guard.
Drifts ==
    /\ At("none") /\ told.calls \in 1..(MaxCalls - 1) /\ ~drifted
    /\ talk' = [talk EXCEPT !.rest = 3 - @] /\ drifted' = TRUE
    /\ UNCHANGED <<guard, call, told, interrupted, routing, firstRoute>> /\ Quiet

-----------------------------------------------------------------------------
(* How a call, or an attempt of it, ends. *)

\* The answer joins the conversation, unless it was asked beside it.
CallReturns(r) ==
    /\ told' = [told EXCEPT !.usage = @ + 1, !.answers = @ + 1]
    /\ talk' = IF call.beside THEN talk ELSE [talk EXCEPT !.input = Append(@, AnswerOf(r))]
    /\ guard' = Seeded
    /\ call' = [NoCall EXCEPT !.beside = call.beside, !.done = TRUE]
    /\ UNCHANGED interrupted
Fails == /\ call' = NoCall /\ guard' = Seeded
         /\ UNCHANGED <<talk, told, interrupted>>
\* A retry waits, unless that was the last attempt; `long` is a wait past the cap.
\* Mutant: a failed attempt is not counted.
RetriesForEver(long) == Goes("backoff") /\ Kept
Retries(long) ==
    IF call.attempt = MaxAttempts \/ long THEN Fails
    ELSE /\ call' = [NoCall EXCEPT !.pc = "backoff", !.body = call.body, !.beside = call.beside,
                                   !.attempt = call.attempt + 1]
         /\ Kept
\* A backend's refusal, by its class.
Refuses == Fails \/ \E long \in BOOLEAN : Retries(long)

\* The first token a turn is given is kept.
\* Mutant: the last one is.
ObserveLast(token) ==
    /\ routing' = IF token = 0 THEN routing ELSE token
    /\ firstRoute' = IF firstRoute = 0 THEN token ELSE firstRoute
    /\ UNCHANGED drifted
Observe(token) ==
    /\ routing' = IF routing = 0 THEN token ELSE routing
    /\ firstRoute' = IF firstRoute = 0 THEN token ELSE firstRoute
    /\ UNCHANGED drifted
Token == {0, told.calls}

-----------------------------------------------------------------------------
(* Over the socket. *)

\* The login is loaded; the socket is tried unless it was refused this session.
Transport == IF refused THEN "https" ELSE "socket"
Recovers(next) == call' = [call EXCEPT !.pc = "login", !.next = next, !.retold = TRUE]
Attempt ==
    /\ At("attempt") /\ ~interrupted
    /\ ((Goes(Transport) \/ Recovers(Transport)) /\ Kept) \/ Fails
    /\ Quiet /\ InTurn

\* A login that is refreshed waits for what the token endpoint says, whose body has no
\* limit.  No login: a socket that was being opened is given up for HTTPS.
LoginArrives ==
    /\ At("login")
    /\ \/ call' = [call EXCEPT !.pc = call.next, !.next = ""] /\ Kept
       \/ IF call.next = "connect"
          THEN GoesAfresh("https") /\ Kept
          ELSE Fails
    /\ Quiet /\ InTurn

\* Opened, failed this once, or refused for the session; a first 401 has the login
\* recovered and is asked once more.
Connect ==
    /\ call.pc \in {"socket", "connect"} /\ ~line.open /\ ~interrupted
    /\ \/ /\ line' = NewLine /\ \E token \in Token : Observe(token)
          /\ Goes("socket") /\ UNCHANGED refused
       \/ /\ GoesAfresh("https") /\ refused' \in BOOLEAN
          /\ UNCHANGED line /\ InTurn
       \/ /\ At("socket") /\ Recovers("connect")
          /\ UNCHANGED <<line, refused>> /\ InTurn
    /\ Kept /\ UNCHANGED responses

\* frame: the rest of the input, when everything before it is what the socket holds.
\* Mutant: only the input is compared.
BuildsOnInput(last, body) == last.id # 0 /\ IsStrictPrefix(last.input, body.input)
BuildsOn(last, body) ==
    last.id # 0 /\ body.rest = last.rest /\ IsStrictPrefix(last.input, body.input)
Frame(last, body) ==
    IF BuildsOn(last, body)
    THEN [delta |-> last.id, rest |-> body.rest,
          input |-> SubSeq(body.input, Len(last.input) + 1, Len(body.input))]
    ELSE [delta |-> 0, rest |-> body.rest, input |-> body.input]
SendFrame ==
    /\ At("socket") /\ line.open /\ ~interrupted
    /\ LET frame == Frame(line.last, call.body)
       IN  /\ line' = [line EXCEPT !.last = NoHeld, !.asked = Append(@, frame)]
           /\ call' = [call EXCEPT !.pc = "streaming", !.retold = FALSE, !.delta = frame.delta # 0, !.events = FALSE,
                                     !.fresh = FALSE]
    /\ Kept /\ UNCHANGED <<refused, responses>> /\ InTurn

\* What the backend reads a frame as: after the response it names, if it still has it.
HoldsWhole(frame) == frame.delta = 0 \/ frame.delta = line.holds.id
ReadAs(frame) ==
    IF frame.delta = 0 THEN frame.input ELSE line.holds.input \o frame.input
RestOf(frame) == IF frame.delta = 0 THEN frame.rest ELSE line.holds.rest

\* The backend's next event is one of the response to the oldest frame it has.
Event == At("streaming") /\ line.open /\ line.asked # <<>>
Streams ==
    /\ Event /\ HoldsWhole(Head(line.asked))
    /\ call' = [call EXCEPT !.events = TRUE, !.fresh = TRUE]
    /\ \E token \in Token : Observe(token)
    /\ Kept /\ Quiet
Completes ==
    /\ Event /\ HoldsWhole(Head(line.asked))
    /\ LET says == AnswerOf(responses + 1)
           has  == [id |-> responses + 1, rest |-> RestOf(Head(line.asked)),
                    input |-> Append(ReadAs(Head(line.asked)), says)]
           last == [id |-> responses + 1, rest |-> call.body.rest,
                    input |-> Append(call.body.input, says)]
       IN  \E named \in BOOLEAN :
              line' = [line EXCEPT !.asked = Tail(@), !.holds = has,
                                   !.last = IF named THEN last ELSE NoHeld]
    /\ responses' = responses + 1
    /\ CallReturns(responses + 1)
    /\ UNCHANGED refused /\ InTurn

\* Mutant: the socket is kept though a response is still in flight on it.
ClosesNot == UNCHANGED line
ClosesSocket == line' = NoLine
\* The response a delta builds on is gone: once per attempt it is all sent again.
IsStale ==
    /\ Event /\ ~HoldsWhole(Head(line.asked))
    /\ IF call.delta /\ ~call.replayed
       THEN /\ call' = [call EXCEPT !.pc = "socket", !.replayed = TRUE]
            /\ line' = [line EXCEPT !.asked = Tail(@)]
            /\ Kept
       ELSE ClosesSocket /\ Retries(FALSE)
    /\ UNCHANGED <<refused, responses>> /\ InTurn
\* Closed while idle, before any event: opened again once per attempt.
WasClosed ==
    /\ At("streaming") /\ ~call.events
    /\ ClosesSocket
    /\ IF ~call.reopened
       THEN call' = [call EXCEPT !.pc = "socket", !.reopened = TRUE] /\ Kept
       ELSE Retries(FALSE)
    /\ UNCHANGED <<refused, responses>> /\ InTurn
\* Closed in the middle, or an error event.
Breaks ==
    /\ At("streaming")
    /\ ClosesSocket /\ Refuses
    /\ UNCHANGED <<refused, responses>> /\ InTurn
\* Anything that comes, over a socket or in a response, puts the deadline of the next
\* thing off, a ping or a keep-alive that says nothing too.
StaysAlive ==
    /\ call.pc \in {"streaming", "arriving"} /\ call' = [call EXCEPT !.fresh = TRUE]
    /\ Kept /\ Quiet /\ InTurn
Wears ==
    /\ call.fresh /\ call.pc \in {"streaming", "arriving"} /\ call' = [call EXCEPT !.fresh = FALSE]
    /\ Kept /\ Quiet /\ InTurn
\* The deadline: nothing has come for IDLE_TIMEOUT.
Silent ==
    /\ call.pc \in {"streaming", "arriving"} /\ ~call.fresh
    /\ Retries(FALSE)
    /\ IF At("streaming") THEN ClosesSocket ELSE UNCHANGED line
    /\ UNCHANGED <<refused, responses>> /\ InTurn
\* The backend has let go of what a socket held: it shows where a frame names it.
ForgetsResponse ==
    /\ Event /\ ~call.events /\ Head(line.asked).delta # 0 /\ line.holds # NoHeld
    /\ line' = [line EXCEPT !.holds = NoHeld]
    /\ Kept /\ UNCHANGED <<refused, call, responses>> /\ InTurn

-----------------------------------------------------------------------------
(* Over HTTPS. *)

SendHttps ==
    /\ At("https") /\ ~interrupted
    /\ call' = [call EXCEPT !.pc = "reading", !.retold = FALSE]
    /\ Kept /\ Quiet /\ InTurn
\* A 401 has the login recovered and the request sent once more with the same token.
Unauthorized ==
    /\ At("reading") /\ ~call.retold
    /\ Recovers("reading") /\ Kept
    /\ Quiet /\ InTurn
\* No answer, or none in time.
Unsent == At("reading") /\ Retries(FALSE) /\ Quiet /\ InTurn
\* An answer that is an error is read to the end of its body first, which has no limit
\* and looks at no interrupt.
Rejected == At("reading") /\ GoesAfresh("errorbody") /\ Kept /\ Quiet /\ InTurn
ErrorRead == At("errorbody") /\ Refuses /\ Quiet /\ InTurn
\* The response streams, and may break off or err even after its last event.
\* Mutant: usage is reported as it is read.
UsageRead == told' = [told EXCEPT !.usage = @ + 1]
UsageKept == UNCHANGED told
Responds ==
    /\ At("reading") /\ GoesAfresh("arriving")
    /\ \E token \in Token : Observe(token)
    /\ Kept /\ Quiet
Arrives ==
    /\ At("arriving")
    /\ \E token \in Token : Observe(token)
    /\ \/ responses' = responses + 1 /\ CallReturns(responses + 1)
       \/ UsageKept /\ GoesAfresh("cutoff") /\ UNCHANGED <<talk, interrupted, guard, responses>>
    /\ UNCHANGED <<line, refused>>
CutOff == At("cutoff") /\ Refuses /\ Quiet /\ InTurn

-----------------------------------------------------------------------------
\* The wait before another attempt.
WaitsOut ==
    /\ At("backoff")
    /\ Goes("attempt") /\ Kept /\ Quiet /\ InTurn

\* The user stops the turn; every wait of the call looks at that but for an error's body.
Interrupted ==
    /\ ~At("none") /\ ~interrupted /\ interrupted' = TRUE
    /\ UNCHANGED <<talk, guard, told, call>> /\ Quiet /\ InTurn
\* Mutant: nor the wait for a response's next chunk.
LooksLess == call.pc \notin {"none", "cutoff", "errorbody", "arriving"}
Looks == call.pc \notin {"none", "cutoff", "errorbody"}
Stops ==
    /\ interrupted /\ Looks
    /\ Fails
    /\ \/ At("streaming") /\ ClosesSocket
       \/ At("socket") /\ ClosesSocket             \* as the frame was being sent
       \/ ~At("streaming") /\ UNCHANGED line
    /\ UNCHANGED <<refused, responses>> /\ InTurn

Conversation == StartTurn \/ NextStep \/ AskBeside \/ StartOver \/ Drifts
\* What bhai does of itself, its deadlines with it, and what it takes a backend to do.
CallSteps == Attempt \/ Connect \/ SendFrame \/ SendHttps \/ Unsent \/ CutOff \/ WaitsOut
BackendSteps ==
    \/ LoginArrives \/ Streams \/ StaysAlive \/ Completes \/ IsStale \/ WasClosed \/ Breaks
    \/ Unauthorized \/ Rejected \/ ErrorRead \/ Responds \/ Arrives \/ ForgetsResponse
CallNext ==
    Conversation \/ CallSteps \/ Wears \/ Silent \/ Stops \/ BackendSteps \/ Interrupted
\* Of the backend nothing is asked.
CallFairness ==
    WF_callVars(CallSteps) /\ WF_callVars(Wears) /\ WF_callVars(Silent) /\ WF_callVars(Stops)

-----------------------------------------------------------------------------
(* What the calls of a conversation keep to. *)

\* What a socket answers is an answer to the request under way, whole, whatever was sent
\* of it and whatever earlier calls left behind (websocket.rs frame, client.rs attempt_ws).
AnswersWhole ==
    line'.holds.id # line.holds.id /\ line'.holds # NoHeld
        => /\ line'.holds.rest = call.body.rest
           /\ IsStrictPrefix(call.body.input, line'.holds.input)
           /\ Len(line'.holds.input) = Len(call.body.input) + 1
\* Usage is counted once for each answer: "usage reported for an attempt that was sent
\* again is counted twice" (client.rs 1309).
UsageOnce == told.usage = told.answers
\* A turn's requests carry the first token it was given, and no other turn's.
RoutedTogether == routing = firstRoute
\* The guard reports a break only when something changed under the conversation.
BreaksAreReal == told.broke => told.drifted
CallsWhole == [][AnswersWhole]_callVars /\ [](UsageOnce /\ RoutedTogether /\ BreaksAreReal)

\* A call ends, whatever the backend does but for two things: its attempts, the times a
\* socket is opened again, a history replayed and a login recovered are all counted, and
\* the waits have a limit.  The two: an error's or a login's answer it begins and never
\* finishes (client.rs 899, auth.rs 226), and a stream in which something comes, now and
\* again, for ever (client.rs 929, 1089).
NeverFinishes == <>[](At("errorbody") \/ At("login"))
AliveForEver == []<>(call.fresh /\ (At("streaming") \/ At("arriving")))
CallEnds == (~At("none") ~> At("none")) \/ NeverFinishes \/ AliveForEver
\* An interrupt ends the call wherever it is, a login that hangs and a stream that stays
\* alive with it, but not where the body of an error is being read.
StopEndsCall == (interrupted /\ ~At("none")) ~> (At("none") \/ At("errorbody"))
=============================================================================
